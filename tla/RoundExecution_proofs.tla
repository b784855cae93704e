------------------------ MODULE RoundExecution_proofs ------------------------
(***************************************************************************)
(* Proofs about the execution of a driver's work, for any number of tasks, *)
(* attempts, devices, rounds and days and any interleaving of commands.    *)
(***************************************************************************)
EXTENDS DriverScreens, FiniteSetTheorems, WellFoundedInduction, TLAPS

\* A row of the rounds table.
RoundRow == [status : {"unused", "active", "ended"}, day : Days \cup {NoDay},
             device : Devices \cup {NoDevice}, generation : Nat, transferred : BOOLEAN]

\* Members of a plan are attempts.
LEMMA EligibleAttempts == Eligible \subseteq Attempts
  BY DEF Eligible

\* A pause changes nothing but headings.
LEMMA PauseTypes ==
  ASSUME NEW s \in [Attempts -> {"none", "heading", "paused", "arrived", "resolved"}]
  PROVE  PauseHeading(s) \in
           [Attempts -> {"none", "heading", "paused", "arrived", "resolved"}]
  BY DEF PauseHeading

\* What a command knows of its round.
LEMMA ViewTypes ==
  ASSUME RoundTypeOK, NEW v \in views
  PROVE  /\ v \in View /\ v.round \in Rounds /\ v.device \in Devices
         /\ v.generation \in Nat /\ v.basis \in Nat /\ v.active \in BOOLEAN
         /\ v.revision \in Nat /\ v.current \subseteq Attempts
  BY DEF RoundTypeOK, View

LEMMA RememberTypes ==
  ASSUME RoundTypeOK, NEW v \in View, Remember(v)
  PROVE  views' \subseteq View
  BY DEF RoundTypeOK, Remember

LEMMA AdmitTypes ==
  ASSUME RoundTypeOK, AdmitActiveWork
  PROVE  admitted' \in [Rounds -> SUBSET Attempts] /\ ready' \subseteq Devices
<1>1. Eligible' \subseteq Attempts
  BY DEF Eligible
<1> QED  BY <1>1 DEF RoundTypeOK, AdmitActiveWork

LEMMA BumpTypes ==
  ASSUME RoundTypeOK, NEW r \in Rounds, Bump(r)
  PROVE  revision' \in [Rounds -> Nat]
  BY DEF RoundTypeOK, Bump

\* The tables of the driver have their types after every command of a device.
LEMMA CommandTypes ==
  ASSUME RoundTypeOK, ExecutionAssumption, NEW v \in views, NEW a \in Attempts,
         \/ SelectHeading(v, a) \/ RecordArrival(v, a)
         \/ \E result \in {"delivered", "undelivered"} : RecordOutcome(v, a, result)
  PROVE  RoundTypeOK'
<1>1. v.round \in Rounds
  BY ViewTypes
<1>2. stage[v.round] \in [Attempts -> {"none", "heading", "paused", "arrived", "resolved"}]
  BY <1>1 DEF RoundTypeOK
<1>3. PauseHeading(stage[v.round]) \in
        [Attempts -> {"none", "heading", "paused", "arrived", "resolved"}]
  BY <1>2, PauseTypes
<1>4. CASE SelectHeading(v, a)
  <2>1. /\ stage' = [stage EXCEPT ![v.round] = Head(v.round, a)]
        /\ Bump(v.round) /\ AdmitActiveWork /\ target' = {a}
        /\ UNCHANGED <<ownership, work, visit, endpoint, starting, views>>
    BY <1>4 DEF SelectHeading
  <2>2. stage' \in [Rounds ->
                     [Attempts -> {"none", "heading", "paused", "arrived", "resolved"}]]
    BY <1>1, <1>3, <2>1 DEF Head, RoundTypeOK
  <2> QED
    BY <1>1, <2>1, <2>2, AdmitTypes, BumpTypes DEF RoundTypeOK, ownership, work
<1>5. CASE RecordArrival(v, a)
  <2>1. /\ stage' = [stage EXCEPT ![v.round][a] = "arrived"]
        /\ Bump(v.round) /\ AdmitActiveWork /\ target' = {a}
        /\ UNCHANGED <<ownership, work, visit, endpoint, starting, views>>
    BY <1>5 DEF RecordArrival
  <2>2. stage' \in [Rounds ->
                     [Attempts -> {"none", "heading", "paused", "arrived", "resolved"}]]
    BY <1>1, <1>2, <2>1 DEF RoundTypeOK
  <2> QED
    BY <1>1, <2>1, <2>2, AdmitTypes, BumpTypes DEF RoundTypeOK, ownership, work
<1>6. ASSUME NEW result \in {"delivered", "undelivered"}, RecordOutcome(v, a, result)
      PROVE  RoundTypeOK'
  <2>1. /\ stage' = [stage EXCEPT ![v.round][a] = "resolved"]
        /\ Bump(v.round) /\ AdmitActiveWork /\ target' = {}
        /\ outcome' = [outcome EXCEPT ![a] = result]
        /\ stop' = [stop EXCEPT ![a[1]] = "completed"]
        /\ UNCHANGED <<ownership, visit, latest, deferral, received, endpoint, starting,
                       views>>
    BY <1>6 DEF RecordOutcome
  <2>2. stage' \in [Rounds ->
                     [Attempts -> {"none", "heading", "paused", "arrived", "resolved"}]]
    BY <1>1, <1>2, <2>1 DEF RoundTypeOK
  <2>3. /\ outcome' \in [Attempts -> {"none", "delivered", "undelivered"}]
        /\ stop' \in [Tasks -> {"none", "remaining", "paused", "completed"}]
    BY <2>1 DEF RoundTypeOK
  <2> QED
    BY <1>1, <2>1, <2>2, <2>3, AdmitTypes, BumpTypes DEF RoundTypeOK, ownership
<1> QED  BY <1>4, <1>5, <1>6

LEMMA OptionTypes ==
  ASSUME RoundTypeOK, ExecutionAssumption, NEW v \in views, NEW t \in Tasks,
         Retry(v, t) \/ Defer(v, t) \/ Activate(v, t)
  PROVE  RoundTypeOK'
<1>1. CASE Retry(v, t)
  <2>1. latest[t] \in 0..MaxAttempts /\ latest[t] < MaxAttempts
    BY <1>1 DEF Retry, RoundTypeOK
  <2>2. latest[t] + 1 \in 0..MaxAttempts
    BY <2>1 DEF ExecutionAssumption
  <2>3. /\ latest' \in [Tasks -> 0..MaxAttempts]
        /\ deferral' \in [Tasks -> {"none", "waiting", "due"}]
        /\ stop' \in [Tasks -> {"none", "remaining", "paused", "completed"}]
    BY <1>1, <2>2 DEF Retry, RoundTypeOK
  <2>4. /\ AdmitActiveWork
        /\ UNCHANGED <<ownership, activity, outcome, received, endpoint, starting, views>>
    BY <1>1 DEF Retry
  <2> QED  BY <2>3, <2>4, AdmitTypes DEF RoundTypeOK, ownership, activity
<1>2. CASE Defer(v, t)
  <2>1. /\ deferral' \in [Tasks -> {"none", "waiting", "due"}]
        /\ stop' \in [Tasks -> {"none", "remaining", "paused", "completed"}]
    BY <1>2 DEF Defer, RoundTypeOK
  <2>2. /\ AdmitActiveWork
        /\ UNCHANGED <<ownership, activity, latest, outcome, received, endpoint, starting,
                       views>>
    BY <1>2 DEF Defer
  <2> QED  BY <2>1, <2>2, AdmitTypes DEF RoundTypeOK, ownership, activity
<1>3. CASE Activate(v, t)
  <2>1. /\ deferral' \in [Tasks -> {"none", "waiting", "due"}]
        /\ stop' \in [Tasks -> {"none", "remaining", "paused", "completed"}]
    BY <1>3 DEF Activate, RoundTypeOK
  <2>2. /\ AdmitActiveWork
        /\ UNCHANGED <<ownership, activity, latest, outcome, received, endpoint, starting,
                       views>>
    BY <1>3 DEF Activate
  <2> QED  BY <2>1, <2>2, AdmitTypes DEF RoundTypeOK, ownership, activity
<1> QED  BY <1>1, <1>2, <1>3

LEMMA StopTypes ==
  ASSUME RoundTypeOK, NEW r \in Rounds, StopActivity(r)
  PROVE  /\ stage' \in [Rounds ->
                         [Attempts -> {"none", "heading", "paused", "arrived", "resolved"}]]
         /\ revision' \in [Rounds -> Nat]
<1>1. CASE Underway(r) = {}
  BY <1>1 DEF StopActivity, RoundTypeOK
<1>2. CASE Underway(r) # {}
  <2>1. Bump(r) /\ stage' = [stage EXCEPT ![r] = PauseHeading(stage[r])]
    BY <1>2 DEF StopActivity
  <2>2. PauseHeading(stage[r]) \in
          [Attempts -> {"none", "heading", "paused", "arrived", "resolved"}]
    BY PauseTypes DEF RoundTypeOK
  <2> QED  BY <2>1, <2>2, BumpTypes DEF RoundTypeOK
<1> QED  BY <1>1, <1>2

LEMMA ClosureTypes ==
  ASSUME RoundTypeOK, ExecutionAssumption, NEW v \in views, EndRound(v) \/ EndWorkday(v)
  PROVE  RoundTypeOK'
<1>1. v.round \in Rounds
  BY ViewTypes
<1>2. /\ StopActivity(v.round) /\ AdmitActiveWork
      /\ rounds' = [rounds EXCEPT ![v.round] = [@ EXCEPT !.status = "ended"]]
      /\ endpoint' = endpoint \ {v.round} /\ target' = {}
      /\ UNCHANGED <<work, visit, starting, views>>
      /\ UNCHANGED day \/ day' = [day EXCEPT ![rounds[v.round].day] = "ended"]
  BY DEF EndRound, EndWorkday
<1>3. rounds' \in [Rounds -> RoundRow]
  <2>1. rounds \in [Rounds -> RoundRow]
    BY DEF RoundTypeOK, RoundRow
  <2>2. [rounds[v.round] EXCEPT !.status = "ended"] \in RoundRow
    BY <1>1, <2>1 DEF RoundRow
  <2>3. rounds' = [rounds EXCEPT ![v.round] = [rounds[v.round] EXCEPT !.status = "ended"]]
    BY <1>2
  <2> QED  BY <1>1, <2>1, <2>2, <2>3
<1>4. day' \in [Days -> {"none", "open", "ended"}]
  BY <1>2 DEF RoundTypeOK
<1> QED
  BY <1>1, <1>2, <1>3, <1>4, AdmitTypes, StopTypes DEF RoundTypeOK, RoundRow, work

LEMMA BranchTypes ==
  ASSUME RoundTypeOK, ExecutionAssumption, NEW v \in views,
         \/ BranchArrive(v) \/ BranchResume(v)
         \/ \E claims \in SUBSET Tasks : Interrupt(v, claims)
  PROVE  RoundTypeOK'
<1>1. v.round \in Rounds
  BY ViewTypes
<1>2. CASE BranchArrive(v)
  <2>1. visit \in [stage : {"heading", "arrived"}, claims : SUBSET Tasks]
    BY <1>2 DEF BranchArrive, MayBranchArrive, RoundTypeOK, NoVisit
  <2>2. visit' \in [stage : {"heading", "arrived"}, claims : SUBSET Tasks]
    BY <1>2, <2>1 DEF BranchArrive
  <2>3. /\ Bump(v.round) /\ target' = {} /\ ready' = {}
        /\ UNCHANGED <<ownership, work, stage, admitted, endpoint, starting, views>>
    BY <1>2 DEF BranchArrive
  <2> QED  BY <1>1, <2>2, <2>3, BumpTypes DEF RoundTypeOK, ownership, work
<1>3. CASE BranchResume(v)
  <2>1. /\ Bump(v.round) /\ target' = {} /\ visit' = NoVisit /\ AdmitActiveWork
        /\ UNCHANGED <<ownership, work, stage, endpoint, starting, views>>
    BY <1>3 DEF BranchResume
  <2> QED  BY <1>1, <2>1, BumpTypes, AdmitTypes DEF RoundTypeOK, ownership, work
<1>4. ASSUME NEW claims \in SUBSET Tasks, Interrupt(v, claims)
      PROVE  RoundTypeOK'
  <2>1. /\ Bump(v.round) /\ target' = {} /\ ready' = {}
        /\ stage' = [stage EXCEPT ![v.round] = PauseHeading(stage[v.round])]
        /\ visit' = [stage |-> "heading", claims |-> claims]
        /\ UNCHANGED <<ownership, work, admitted, endpoint, starting, views>>
    BY <1>4 DEF Interrupt
  <2>2. stage' \in [Rounds ->
                     [Attempts -> {"none", "heading", "paused", "arrived", "resolved"}]]
    BY <1>1, <2>1, PauseTypes DEF RoundTypeOK
  <2> QED  BY <1>1, <2>1, <2>2, BumpTypes DEF RoundTypeOK, ownership, work
<1> QED  BY <1>2, <1>3, <1>4

LEMMA DeviceTypes ==
  ASSUME RoundTypeOK, ExecutionAssumption, NEW d \in Devices,
         \/ Prepare(d) \/ ObserveDay(d) \/ Start(d) \/ StartNothing(d)
         \/ \E r \in Rounds : Download(d, r)
         \/ \E v \in views : TakeOver(v)
  PROVE  RoundTypeOK'
<1>1. CASE Prepare(d)
  BY <1>1 DEF Prepare, RoundTypeOK, ownership, activity, work
<1>2. CASE ObserveDay(d)
  <2>1. starting' \in [Devices -> [active : BOOLEAN, observed : Days \cup {NoDay}]]
    BY <1>2 DEF ObserveDay, RoundTypeOK, OpenDays
  <2> QED  BY <1>2, <2>1 DEF ObserveDay, RoundTypeOK, ownership, activity, work
<1>3. CASE StartNothing(d)
  <2>1. starting' \in [Devices -> [active : BOOLEAN, observed : Days \cup {NoDay}]]
    BY <1>3 DEF StartNothing, RoundTypeOK, NotStarting
  <2> QED  BY <1>3, <2>1 DEF StartNothing, RoundTypeOK, ownership, activity, work
<1>4. ASSUME NEW r \in Rounds, Download(d, r)
      PROVE  RoundTypeOK'
  <2>1. Snapshot(d, r) \in View
    BY DEF Snapshot, View, RoundTypeOK, Underway, Active
  <2> QED
    BY <1>4, <2>1, RememberTypes DEF Download, RoundTypeOK, ownership, activity, work
<1>5. ASSUME NEW v \in views, TakeOver(v)
      PROVE  RoundTypeOK'
  <2>1. v.round \in Rounds /\ v \in View /\ rounds[v.round].generation + 1 \in Nat
    BY ViewTypes DEF RoundTypeOK
  <2>2. [v EXCEPT !.generation = rounds[v.round].generation + 1] \in View
    BY <2>1 DEF View
  <2>3. rounds' \in [Rounds -> RoundRow]
    <3> DEFINE row == [status |-> "active", day |-> rounds[v.round].day,
                       device |-> v.device, generation |-> rounds[v.round].generation + 1,
                       transferred |-> TRUE]
    <3>1. rounds' = [rounds EXCEPT ![v.round] = row]
      BY <1>5 DEF TakeOver
    <3>2. rounds \in [Rounds -> RoundRow] /\ rounds[v.round] \in RoundRow
      BY <2>1 DEF RoundTypeOK, RoundRow
    <3>3. row \in RoundRow
      BY <2>1, <3>2, ViewTypes DEF RoundRow
    <3> HIDE DEF row
    <3> QED  BY <2>1, <3>1, <3>2, <3>3
  <2> QED
    BY <1>5, <2>2, <2>3, RememberTypes DEF TakeOver, RoundTypeOK, RoundRow, activity, work
<1>6. CASE Start(d)
  <2>1. PICK r \in Rounds, n \in StartDay(d), last \in Generations, branchEnd \in BOOLEAN :
          /\ rounds' = [rounds EXCEPT ![r] =
                          [status |-> "active", day |-> n, device |-> d,
                           generation |-> last + 1, transferred |-> FALSE]]
          /\ day' = [day EXCEPT ![n] = IF @ = "none" THEN "open" ELSE @]
          /\ endpoint' = IF branchEnd THEN endpoint \cup {r} ELSE endpoint
          /\ UNCHANGED work
          /\ admitted' = [admitted EXCEPT ![r] = Eligible]
          /\ Remember([device |-> d, round |-> r, generation |-> last + 1,
                       basis |-> last + 1, active |-> TRUE, revision |-> 0, current |-> {}])
    BY <1>6 DEF Start
  <2>2. n \in Days /\ last \in Nat /\ last + 1 \in Nat
    BY DEF StartDay, OpenDays, FreshDays, Generations, RoundTypeOK
  <2>3. rounds' \in [Rounds -> [status : {"unused", "active", "ended"},
                                day : Days \cup {NoDay}, device : Devices \cup {NoDevice},
                                generation : Nat, transferred : BOOLEAN]]
    BY <2>1, <2>2 DEF RoundTypeOK
  <2>4. /\ day' \in [Days -> {"none", "open", "ended"}] /\ endpoint' \subseteq Rounds
        /\ admitted' \in [Rounds -> SUBSET Attempts]
    BY <2>1, <2>2, EligibleAttempts DEF RoundTypeOK
  <2>5. views' \subseteq View
    BY <2>1, <2>2, RememberTypes DEF View
  <2>6. starting' \in [Devices -> [active : BOOLEAN, observed : Days \cup {NoDay}]]
    BY <1>6 DEF Start, RoundTypeOK, NotStarting
  <2> QED
    BY <1>6, <2>1, <2>3, <2>4, <2>5, <2>6 DEF Start, RoundTypeOK, activity, work
<1> QED  BY <1>1, <1>2, <1>3, <1>4, <1>5, <1>6

\* Every step keeps the types.
LEMMA TypesKept ==
  ASSUME RoundTypeOK, ExecutionAssumption, [RoundNext]_roundVars
  PROVE  RoundTypeOK'
<1>1. ASSUME NEW t \in Tasks, ReceiveTask(t)
      PROVE  RoundTypeOK'
  <2>1. 1 \in 0..MaxAttempts
    BY DEF ExecutionAssumption
  <2>2. /\ latest' \in [Tasks -> 0..MaxAttempts]
        /\ stop' \in [Tasks -> {"none", "remaining", "paused", "completed"}]
    BY <1>1, <2>1 DEF ReceiveTask, RoundTypeOK
  <2> QED
    BY <1>1, <2>2, AdmitTypes DEF ReceiveTask, RoundTypeOK, ownership, activity
<1>2. ASSUME NEW t \in Tasks, Elapse(t)
      PROVE  RoundTypeOK'
  BY <1>2 DEF Elapse, RoundTypeOK, ownership, activity
<1>3. ASSUME NEW t \in Tasks, ReceivePieces(t)
      PROVE  RoundTypeOK'
  BY <1>3, AdmitTypes DEF ReceivePieces, RoundTypeOK, ownership, activity
<1>4. CASE DeviceNext
  BY <1>4, DeviceTypes DEF DeviceNext
<1>5. CASE CommandNext
  <2>1. PICK v \in views :
          \/ TakeOver(v) \/ EndRound(v) \/ EndWorkday(v) \/ BranchArrive(v) \/ BranchResume(v)
          \/ \E t \in Tasks : Retry(v, t) \/ Defer(v, t) \/ Activate(v, t)
          \/ \E claims \in SUBSET Tasks : Interrupt(v, claims)
          \/ \E a \in Attempts :
               \/ SelectHeading(v, a) \/ RecordArrival(v, a)
               \/ \E result \in {"delivered", "undelivered"} : RecordOutcome(v, a, result)
    BY <1>5 DEF CommandNext
  <2>2. v.device \in Devices
    BY ViewTypes
  <2> QED
    BY <2>1, <2>2, DeviceTypes, ClosureTypes, BranchTypes, OptionTypes, CommandTypes
<1>6. CASE UNCHANGED roundVars
  BY <1>6 DEF roundVars, RoundTypeOK, ownership, activity, work
<1> QED  BY <1>1, <1>2, <1>3, <1>4, <1>5, <1>6 DEF RoundNext

-----------------------------------------------------------------------------
\* Rounds and days change only when a round starts, is taken over or ends.
LEMMA OwnershipSteps ==
  ASSUME [RoundNext]_roundVars
  PROVE  \/ UNCHANGED ownership
         \/ \E d \in Devices : Start(d)
         \/ \E v \in views : TakeOver(v) \/ EndRound(v) \/ EndWorkday(v)
<1>1. CASE DeviceNext
  BY <1>1 DEF DeviceNext, Prepare, ObserveDay, StartNothing, Download
<1>2. ASSUME NEW v \in views,
             \/ BranchArrive(v) \/ BranchResume(v)
             \/ \E t \in Tasks : Retry(v, t) \/ Defer(v, t) \/ Activate(v, t)
             \/ \E claims \in SUBSET Tasks : Interrupt(v, claims)
      PROVE  UNCHANGED ownership
  BY <1>2 DEF BranchArrive, BranchResume, Retry, Defer, Activate, Interrupt
<1>3. ASSUME NEW v \in views, NEW a \in Attempts,
             \/ SelectHeading(v, a) \/ RecordArrival(v, a)
             \/ \E result \in {"delivered", "undelivered"} : RecordOutcome(v, a, result)
      PROVE  UNCHANGED ownership
  BY <1>3 DEF SelectHeading, RecordArrival, RecordOutcome
<1>4. CASE CommandNext
  BY <1>2, <1>3, <1>4 DEF CommandNext
<1>5. CASE \E t \in Tasks : ReceiveTask(t) \/ Elapse(t) \/ ReceivePieces(t)
  BY <1>5 DEF ReceiveTask, Elapse, ReceivePieces
<1>6. CASE UNCHANGED roundVars
  BY <1>6 DEF roundVars
<1> QED  BY <1>1, <1>4, <1>5, <1>6 DEF RoundNext

\* Devices learn only by starting, taking over and downloading.
LEMMA ViewSteps ==
  ASSUME [RoundNext]_roundVars
  PROVE  \/ UNCHANGED views
         \/ \E d \in Devices : Start(d)
         \/ \E v \in views : TakeOver(v)
         \/ \E d \in Devices, r \in Rounds : Download(d, r)
<1>1. CASE DeviceNext
  BY <1>1 DEF DeviceNext, Prepare, ObserveDay, StartNothing
<1>2. ASSUME NEW v \in views,
             \/ BranchArrive(v) \/ BranchResume(v) \/ EndRound(v) \/ EndWorkday(v)
             \/ \E t \in Tasks : Retry(v, t) \/ Defer(v, t) \/ Activate(v, t)
             \/ \E claims \in SUBSET Tasks : Interrupt(v, claims)
      PROVE  UNCHANGED views
  BY <1>2 DEF BranchArrive, BranchResume, Retry, Defer, Activate, Interrupt, EndRound, EndWorkday
<1>3. ASSUME NEW v \in views, NEW a \in Attempts,
             \/ SelectHeading(v, a) \/ RecordArrival(v, a)
             \/ \E result \in {"delivered", "undelivered"} : RecordOutcome(v, a, result)
      PROVE  UNCHANGED views
  BY <1>3 DEF SelectHeading, RecordArrival, RecordOutcome
<1>4. CASE CommandNext
  BY <1>2, <1>3, <1>4 DEF CommandNext
<1>5. CASE \E t \in Tasks : ReceiveTask(t) \/ Elapse(t) \/ ReceivePieces(t)
  BY <1>5 DEF ReceiveTask, Elapse, ReceivePieces
<1>6. CASE UNCHANGED roundVars
  BY <1>6 DEF roundVars
<1> QED  BY <1>1, <1>4, <1>5, <1>6 DEF RoundNext

\* What a start does to rounds, days and views.
LEMMA StartEffect ==
  ASSUME RoundTypeOK, NEW d \in Devices, Start(d)
  PROVE  \E r \in Rounds, n \in Days, g \in Nat :
           /\ ActiveRounds = {} /\ rounds[r].status = "unused" /\ target = {}
           /\ \A q \in Rounds : rounds[q].generation < g
           /\ g <= MaxGeneration
           /\ rounds'[r] = [status |-> "active", day |-> n, device |-> d,
                            generation |-> g, transferred |-> FALSE]
           /\ \A q \in Rounds \ {r} : rounds'[q] = rounds[q]
           /\ OpenDays' = {n} \cup OpenDays /\ (OpenDays # {} => n \in OpenDays)
           /\ day[n] # "ended"
           /\ \A m \in Days \ {n} : day'[m] = day[m]
           /\ day'[n] = "open"
           /\ admitted'[r] = Eligible /\ \A q \in Rounds \ {r} : admitted'[q] = admitted[q]
           /\ Remember([device |-> d, round |-> r, generation |-> g, basis |-> g,
                        active |-> TRUE, revision |-> 0, current |-> {}])
           /\ endpoint' \in {endpoint, endpoint \cup {r}} /\ Remaining' <= Capacity
           /\ UNCHANGED <<work, activity>>
<1>1. PICK r \in Rounds, n \in StartDay(d), last \in Generations, branchEnd \in BOOLEAN :
        /\ \A g \in Generations : g <= last
        /\ rounds[r].status = "unused" /\ last + 1 <= MaxGeneration
        /\ rounds' = [rounds EXCEPT ![r] =
                        [status |-> "active", day |-> n, device |-> d,
                         generation |-> last + 1, transferred |-> FALSE]]
        /\ day' = [day EXCEPT ![n] = IF @ = "none" THEN "open" ELSE @]
        /\ endpoint' = IF branchEnd THEN endpoint \cup {r} ELSE endpoint
        /\ UNCHANGED work /\ Remaining' <= Capacity
        /\ admitted' = [admitted EXCEPT ![r] = Eligible]
        /\ Remember([device |-> d, round |-> r, generation |-> last + 1,
                     basis |-> last + 1, active |-> TRUE, revision |-> 0, current |-> {}])
  BY DEF Start
<1>2. ActiveRounds = {} /\ target = {} /\ UNCHANGED activity
  BY DEF Start
<1>3. n \in Days /\ last \in Nat /\ last + 1 \in Nat
  BY DEF StartDay, OpenDays, FreshDays, Generations, RoundTypeOK
<1>4. \A q \in Rounds : rounds[q].generation < last + 1
  <2>1. \A q \in Rounds : rounds[q].generation \in Generations /\ rounds[q].generation \in Nat
    BY DEF Generations, RoundTypeOK
  <2>2. \A q \in Rounds : rounds[q].generation <= last
    BY <1>1, <2>1
  <2> QED  BY <1>3, <2>1, <2>2
<1>5. day[n] \in {"none", "open"} /\ (OpenDays # {} => n \in OpenDays)
  BY DEF StartDay, OpenDays, FreshDays
<1>6. day'[n] = "open" /\ \A m \in Days \ {n} : day'[m] = day[m]
  BY <1>1, <1>3, <1>5 DEF RoundTypeOK
<1>7. OpenDays' = {n} \cup OpenDays
  BY <1>3, <1>6 DEF OpenDays
<1>8. /\ rounds'[r] = [status |-> "active", day |-> n, device |-> d,
                       generation |-> last + 1, transferred |-> FALSE]
      /\ \A q \in Rounds \ {r} : rounds'[q] = rounds[q]
      /\ admitted'[r] = Eligible /\ \A q \in Rounds \ {r} : admitted'[q] = admitted[q]
  BY <1>1 DEF RoundTypeOK
<1> QED
  BY <1>1, <1>2, <1>3, <1>4, <1>5, <1>6, <1>7, <1>8

\* What a takeover does to the rounds.
LEMMA TakeOverEffect ==
  ASSUME RoundTypeOK, NEW v \in views, TakeOver(v)
  PROVE  /\ v.round \in Rounds /\ Active(v.round)
         /\ rounds'[v.round].status = "active" /\ rounds'[v.round].day = rounds[v.round].day
         /\ rounds'[v.round].device = v.device /\ rounds'[v.round].transferred
         /\ rounds'[v.round].generation = rounds[v.round].generation + 1
         /\ \A q \in Rounds \ {v.round} : rounds'[q] = rounds[q]
         /\ day' = day
<1>1. v.round \in Rounds
  BY ViewTypes
<1> QED  BY <1>1 DEF TakeOver, MayTakeOver, RoundTypeOK

\* What a closure does to rounds and days.
LEMMA ClosureEffect ==
  ASSUME RoundTypeOK, NEW v \in views, EndRound(v) \/ EndWorkday(v)
  PROVE  /\ v.round \in Rounds
         /\ rounds'[v.round].status = "ended"
         /\ rounds'[v.round].generation = rounds[v.round].generation
         /\ rounds'[v.round].transferred = rounds[v.round].transferred
         /\ rounds'[v.round].device = rounds[v.round].device
         /\ rounds'[v.round].day = rounds[v.round].day
         /\ \A q \in Rounds \ {v.round} : rounds'[q] = rounds[q]
         /\ \/ EndRound(v) /\ Active(v.round) /\ day' = day
            \/ /\ EndWorkday(v) /\ ActiveRounds \subseteq {v.round}
               /\ day[rounds[v.round].day] = "open"
               /\ day' = [day EXCEPT ![rounds[v.round].day] = "ended"]
<1>1. v.round \in Rounds
  BY ViewTypes
<1>2. rounds \in [Rounds -> RoundRow] /\ rounds[v.round] \in RoundRow
  BY <1>1 DEF RoundTypeOK, RoundRow
<1>3. rounds' = [rounds EXCEPT ![v.round] = [@ EXCEPT !.status = "ended"]]
  BY DEF EndRound, EndWorkday
<1>4. /\ rounds'[v.round] = [rounds[v.round] EXCEPT !.status = "ended"]
      /\ \A q \in Rounds \ {v.round} : rounds'[q] = rounds[q]
  BY <1>1, <1>2, <1>3
<1>5. /\ rounds'[v.round].status = "ended"
      /\ rounds'[v.round].generation = rounds[v.round].generation
      /\ rounds'[v.round].transferred = rounds[v.round].transferred
      /\ rounds'[v.round].device = rounds[v.round].device
      /\ rounds'[v.round].day = rounds[v.round].day
  BY <1>2, <1>4 DEF RoundRow
<1> QED  BY <1>1, <1>4, <1>5 DEF EndRound, MayEndRound, EndWorkday, MayEndWorkday

\* One running round, of the only open day, with the newest generation.
LEMMA OneRunningKept ==
  ASSUME RoundTypeOK, OneRunning, RoundTypeOK', [RoundNext]_roundVars
  PROVE  OneRunning'
<1>0. \A q \in Rounds : rounds[q].generation \in Nat /\ rounds[q].day \in Days \cup {NoDay}
  BY DEF RoundTypeOK
<1>1. CASE UNCHANGED ownership
  BY <1>1 DEF ownership, OneRunning, OpenDays, ActiveRounds, Active
<1>2. ASSUME NEW d \in Devices, Start(d)
      PROVE  OneRunning'
  <2>1. PICK r \in Rounds, n \in Days, g \in Nat :
          /\ ActiveRounds = {}
          /\ \A q \in Rounds : rounds[q].generation < g
          /\ rounds'[r] = [status |-> "active", day |-> n, device |-> d,
                           generation |-> g, transferred |-> FALSE]
          /\ \A q \in Rounds \ {r} : rounds'[q] = rounds[q]
          /\ OpenDays' = {n} \cup OpenDays /\ (OpenDays # {} => n \in OpenDays)
    BY <1>2, StartEffect
  <2>2. \A x, y \in OpenDays' : x = y
    BY <2>1 DEF OneRunning
  <2>3. ActiveRounds' = {r}
    BY <2>1 DEF ActiveRounds, Active
  <2> QED  BY <2>1, <2>2, <2>3 DEF OneRunning
<1>3. ASSUME NEW v \in views, TakeOver(v)
      PROVE  OneRunning'
  <2>1. OpenDays' = OpenDays /\ ActiveRounds' = ActiveRounds
    BY <1>3, TakeOverEffect DEF OpenDays, ActiveRounds, Active
  <2>2. \A r \in ActiveRounds : r = v.round
    <3>1. v.round \in ActiveRounds
      BY <1>3, TakeOverEffect DEF ActiveRounds
    <3>2. ASSUME NEW r \in ActiveRounds, r # v.round PROVE FALSE
      <4>1. /\ r \in Rounds /\ rounds[r].generation < rounds[v.round].generation
            /\ rounds[v.round].generation < rounds[r].generation
        BY <3>1, <3>2 DEF OneRunning, ActiveRounds
      <4> QED  BY <1>0, <3>1, <4>1 DEF ActiveRounds
    <3> QED  BY <3>2
  <2>3. \A q \in Rounds \ {v.round} :
          rounds'[q].generation < rounds[v.round].generation + 1
    BY <1>0, <1>3, TakeOverEffect DEF OneRunning, ActiveRounds
  <2> QED
    BY <1>3, <2>1, <2>2, <2>3, TakeOverEffect DEF OneRunning
<1>4. ASSUME NEW v \in views, EndRound(v) \/ EndWorkday(v)
      PROVE  OneRunning'
  <2>1. /\ v.round \in Rounds /\ v.round \notin ActiveRounds'
        /\ ActiveRounds' \subseteq ActiveRounds
        /\ \A q \in Rounds : rounds'[q].generation = rounds[q].generation
                            /\ rounds'[q].day = rounds[q].day
        /\ \A q \in Rounds : rounds'[q].status = "unused" => rounds[q].status = "unused"
    BY <1>4, ClosureEffect DEF ActiveRounds, Active
  <2>2. CASE day' = day
    BY <2>1, <2>2 DEF OneRunning, OpenDays, ActiveRounds
  <2>3. CASE ActiveRounds \subseteq {v.round}
             /\ day' = [day EXCEPT ![rounds[v.round].day] = "ended"]
    <3>1. ActiveRounds' = {}
      BY <2>1, <2>3
    <3>2. OpenDays' \subseteq OpenDays
      BY <2>3 DEF OpenDays, RoundTypeOK
    <3> QED  BY <2>1, <3>1, <3>2 DEF OneRunning
  <2> QED  BY <1>4, <2>2, <2>3, ClosureEffect
<1> QED  BY <1>1, <1>2, <1>3, <1>4, OwnershipSteps

\* What devices remember stays true of their round.
LEMMA ViewsTrueKept ==
  ASSUME RoundTypeOK, ViewsTrue, [RoundNext]_roundVars
  PROVE  ViewsTrue'
<1> DEFINE True(w) == /\ rounds[w.round].status # "unused"
                      /\ w.basis <= w.generation
                      /\ w.generation <= rounds[w.round].generation
                      /\ ~rounds[w.round].transferred
                         /\ w.generation = rounds[w.round].generation
                           => w.basis = w.generation
                      /\ ~w.active => rounds[w.round].status # "active"
<1>0. \A w \in views : True(w) /\ w.round \in Rounds /\ w.generation \in Nat
                                /\ w.basis \in Nat
  BY ViewTypes DEF ViewsTrue
<1>00. \A r \in Rounds : rounds[r].generation \in Nat
  BY DEF RoundTypeOK
<1>1. CASE UNCHANGED <<rounds, views>>
  BY <1>1 DEF ViewsTrue
<1>2. ASSUME NEW d \in Devices, Start(d)
      PROVE  ViewsTrue'
  <2>1. PICK r \in Rounds, n \in Days, g \in Nat :
          /\ rounds[r].status = "unused"
          /\ rounds'[r] = [status |-> "active", day |-> n, device |-> d,
                           generation |-> g, transferred |-> FALSE]
          /\ \A q \in Rounds \ {r} : rounds'[q] = rounds[q]
          /\ Remember([device |-> d, round |-> r, generation |-> g, basis |-> g,
                       active |-> TRUE, revision |-> 0, current |-> {}])
    BY <1>2, StartEffect
  <2> DEFINE new == [device |-> d, round |-> r, generation |-> g, basis |-> g,
                     active |-> TRUE, revision |-> 0, current |-> {}]
  <2>2. ASSUME NEW w \in views', w = new PROVE True(w)'
    BY <2>1, <2>2
  <2>3. \A w \in views : True(w)'
    BY <1>0, <2>1
  <2>4. views' \subseteq views \cup {new}
    BY <2>1 DEF Remember
  <2> HIDE DEF new
  <2> QED  BY <2>2, <2>3, <2>4 DEF ViewsTrue
<1>3. ASSUME NEW v \in views, TakeOver(v)
      PROVE  ViewsTrue'
  <2> DEFINE g == rounds[v.round].generation + 1
             new == [v EXCEPT !.generation = g]
  <2>1. v.round \in Rounds /\ v \in View /\ g \in Nat
    BY <1>00, ViewTypes
  <2>2. /\ new.round = v.round /\ new.generation = g /\ new.basis = v.basis
        /\ new.active = v.active
    BY <2>1 DEF View
  <2>3. Active(v.round) /\ True(v)
    BY <1>0, <1>3, TakeOverEffect
  <2>4. /\ rounds'[v.round].status = "active" /\ rounds'[v.round].generation = g
        /\ rounds'[v.round].transferred
        /\ \A q \in Rounds \ {v.round} : rounds'[q] = rounds[q]
    BY <1>3, TakeOverEffect
  <2>5. views' \subseteq views \cup {new}
    BY <1>3 DEF TakeOver, Remember
  <2> HIDE DEF new
  <2>6. ASSUME NEW w \in views', w = new PROVE True(w)'
    BY <1>0, <1>00, <2>1, <2>2, <2>3, <2>4, <2>6 DEF Active
  <2>7. ASSUME NEW w \in views PROVE True(w)'
    <3>1. CASE w.round = v.round
      BY <1>0, <1>00, <2>1, <2>3, <2>4, <3>1 DEF Active
    <3>2. CASE w.round # v.round
      BY <1>0, <2>4, <3>2
    <3> QED  BY <3>1, <3>2
  <2> QED  BY <2>5, <2>6, <2>7 DEF ViewsTrue
<1>4. ASSUME NEW v \in views, EndRound(v) \/ EndWorkday(v)
      PROVE  ViewsTrue'
  <2>1. views' = views
    BY <1>4 DEF EndRound, EndWorkday
  <2>2. ASSUME NEW w \in views PROVE True(w)'
    BY <1>0, <1>4, ClosureEffect
  <2> QED  BY <2>1, <2>2 DEF ViewsTrue
<1>5. ASSUME NEW d \in Devices, NEW r \in Rounds, Download(d, r)
      PROVE  ViewsTrue'
  <2> DEFINE new == Snapshot(d, r)
  <2>1. /\ rounds[r].status # "unused" /\ UNCHANGED rounds
        /\ views' \subseteq views \cup {new}
    BY <1>5 DEF Download, Remember, ownership
  <2>2. ASSUME NEW w \in views', w = new PROVE True(w)'
    <3>1. /\ w.round = r /\ w.generation = rounds[r].generation
          /\ w.basis = rounds[r].generation
      BY <2>2 DEF Snapshot
    <3>2. ~w.active => rounds[r].status # "active"
      BY <2>2 DEF Snapshot, Active
    <3> QED  BY <1>00, <2>1, <3>1, <3>2
  <2>3. \A w \in views : True(w)'
    BY <1>0, <2>1
  <2> HIDE DEF new
  <2> QED  BY <2>1, <2>2, <2>3 DEF ViewsTrue
<1> QED
  BY <1>1, <1>2, <1>3, <1>4, <1>5, OwnershipSteps, ViewSteps DEF ownership

-----------------------------------------------------------------------------
\* An admission only adds attempts.
LEMMA AdmitGrows ==
  ASSUME RoundTypeOK, AdmitActiveWork, NEW r \in Rounds
  PROVE  /\ admitted[r] \subseteq admitted'[r]
         /\ Active(r)' => Eligible' \subseteq admitted'[r]
         /\ ~Active(r)' => admitted'[r] = admitted[r]
  BY DEF AdmitActiveWork, Active

\* Steps that neither admit nor make work available.
LEMMA AdmissionSteps ==
  ASSUME [RoundNext]_roundVars
  PROVE  \/ AdmitActiveWork
         \/ UNCHANGED <<rounds, admitted, work>>
         \/ \E t \in Tasks : Elapse(t)
         \/ \E d \in Devices : Start(d)
         \/ \E v \in views : TakeOver(v)
<1>1. CASE DeviceNext
  BY <1>1 DEF DeviceNext, Prepare, ObserveDay, StartNothing, Download, ownership
<1>2. ASSUME NEW v \in views
      PROVE  /\ EndRound(v) \/ EndWorkday(v) \/ BranchResume(v) => AdmitActiveWork
             /\ BranchArrive(v) => UNCHANGED <<rounds, admitted, work>>
             /\ \A t \in Tasks : Retry(v, t) \/ Defer(v, t) \/ Activate(v, t)
                                => AdmitActiveWork
             /\ \A claims \in SUBSET Tasks :
                  Interrupt(v, claims) => UNCHANGED <<rounds, admitted, work>>
             /\ \A a \in Attempts :
                  /\ SelectHeading(v, a) \/ RecordArrival(v, a) => AdmitActiveWork
                  /\ \A result \in {"delivered", "undelivered"} :
                       RecordOutcome(v, a, result) => AdmitActiveWork
  BY DEF BranchArrive, BranchResume, Retry, Defer, Activate, Interrupt,
     SelectHeading, RecordArrival, RecordOutcome, EndRound, EndWorkday, ownership
<1>3. CASE \E t \in Tasks : ReceiveTask(t) \/ Elapse(t) \/ ReceivePieces(t)
  BY <1>3 DEF ReceiveTask, ReceivePieces
<1>4. CASE UNCHANGED roundVars
  BY <1>4 DEF roundVars, ownership
<1> QED  BY <1>1, <1>2, <1>3, <1>4 DEF RoundNext, CommandNext

\* The passing of time makes nothing eligible.
LEMMA ElapseEligible ==
  ASSUME RoundTypeOK, NEW t \in Tasks, Elapse(t)
  PROVE  Eligible' = Eligible
<1>1. \A u \in Tasks : deferral'[u] = "none" <=> deferral[u] = "none"
  BY DEF Elapse, RoundTypeOK
<1> QED  BY <1>1 DEF Elapse, Eligible, Attempts, LatestOf

\* Whatever is available while a round runs is admitted to it.
LEMMA AdmittedKept ==
  ASSUME RoundTypeOK, WorkIsAdmitted, [RoundNext]_roundVars
  PROVE  WorkIsAdmitted'
<1>1. CASE AdmitActiveWork
  BY <1>1, AdmitGrows DEF WorkIsAdmitted, ActiveRounds
<1>2. CASE UNCHANGED <<rounds, admitted, work>>
  BY <1>2 DEF WorkIsAdmitted, ActiveRounds, Active, Eligible, LatestOf, work
<1>3. ASSUME NEW t \in Tasks, Elapse(t)
      PROVE  WorkIsAdmitted'
  BY <1>3, ElapseEligible DEF WorkIsAdmitted, ActiveRounds, Active, Elapse, ownership
<1>4. ASSUME NEW d \in Devices, Start(d)
      PROVE  WorkIsAdmitted'
  <2>1. PICK r \in Rounds :
          /\ ActiveRounds = {} /\ admitted'[r] = Eligible /\ UNCHANGED work
          /\ \A q \in Rounds \ {r} : rounds'[q] = rounds[q]
    BY <1>4, StartEffect
  <2>2. ActiveRounds' \subseteq {r}
    BY <2>1 DEF ActiveRounds, Active
  <2>3. Eligible' = Eligible
    BY <2>1 DEF Eligible, LatestOf, work
  <2> QED  BY <2>1, <2>2, <2>3 DEF WorkIsAdmitted
<1>5. ASSUME NEW v \in views, TakeOver(v)
      PROVE  WorkIsAdmitted'
  <2>1. ActiveRounds' = ActiveRounds
    BY <1>5, TakeOverEffect DEF ActiveRounds, Active
  <2>2. Eligible' = Eligible /\ admitted' = admitted
    BY <1>5 DEF TakeOver, Eligible, LatestOf, work
  <2> QED  BY <2>1, <2>2 DEF WorkIsAdmitted
<1> QED  BY <1>1, <1>2, <1>3, <1>4, <1>5, AdmissionSteps

-----------------------------------------------------------------------------
\* While one round runs, no other has a current customer.
LEMMA IdleOthers ==
  ASSUME RoundTypeOK, OneRunning, OneActivity, NEW r \in Rounds, Active(r),
         NEW q \in Rounds \ {r}
  PROVE  Underway(q) = {}
<1>1. ~Active(q)
  <2> SUFFICES ASSUME Active(q) PROVE FALSE
    OBVIOUS
  <2>1. /\ rounds[q].generation < rounds[r].generation
        /\ rounds[r].generation < rounds[q].generation
    BY DEF OneRunning, ActiveRounds
  <2> QED  BY <2>1 DEF RoundTypeOK
<1> QED  BY <1>1 DEF OneActivity

\* Options never change for a current customer, of whichever round.
LEMMA CurrentStays ==
  ASSUME RoundTypeOK, OneRunning, OneActivity, NEW v \in views, NEW t \in Tasks,
         Fence(v), Changeable(v.round), LatestOf(t) \notin Underway(v.round),
         NEW q \in Rounds
  PROVE  LatestOf(t) \notin Underway(q)
<1>1. v.round \in Rounds
  BY ViewTypes
<1>2. CASE q # v.round
  <2>1. rounds[q].generation <= rounds[v.round].generation
    BY DEF Changeable, LatestRound
  <2>2. ~Active(q)
    BY <1>1, <1>2, <2>1 DEF OneRunning, ActiveRounds, RoundTypeOK
  <2> QED  BY <2>2 DEF OneActivity
<1> QED  BY <1>2

\* What is eligible stays so when another task changes.
LEMMA EligibleElsewhere ==
  ASSUME NEW t \in Tasks, NEW a \in Eligible, a[1] # t, outcome' = outcome,
         \A u \in Tasks \ {t} : /\ latest'[u] = latest[u] /\ deferral'[u] = deferral[u]
                                /\ stop'[u] = stop[u]
  PROVE  a \in Eligible'
<1>1. a \in Attempts /\ a[1] \in Tasks \ {t}
  BY DEF Eligible, Attempts
<1> QED  BY <1>1 DEF Eligible, LatestOf

\* When tasks change beside the current customer, it stays current.
LEMMA TasksChange ==
  ASSUME RoundTypeOK, OneActivity, UNCHANGED <<ownership, activity>>,
         \A r \in Rounds : admitted[r] \subseteq admitted'[r],
         \A r \in Rounds : \A a \in Underway(r) : a \in Eligible'
  PROVE  OneActivity'
<1>1. \A r \in Rounds : Underway(r)' = Underway(r) /\ Active(r)' = Active(r)
  BY DEF Underway, Active, activity, ownership
<1>2. target' = target /\ visit' = visit
  BY DEF activity
<1> QED  BY <1>1, <1>2 DEF OneActivity

\* Nobody is current after this step.
LEMMA NobodyCurrent ==
  ASSUME \A r \in Rounds : Underway(r)' = {}
  PROVE  OneActivity'
  BY DEF OneActivity

\* A pause without an arrived customer leaves none.
LEMMA PauseEmpties ==
  ASSUME RoundTypeOK, NEW r \in Rounds, \A a \in Underway(r) : stage[r][a] # "arrived",
         stage' = [stage EXCEPT ![r] = PauseHeading(stage[r])]
  PROVE  Underway(r)' = {} /\ \A q \in Rounds \ {r} : Underway(q)' = Underway(q)
<1>1. stage'[r] = PauseHeading(stage[r]) /\ \A q \in Rounds \ {r} : stage'[q] = stage[q]
  BY DEF RoundTypeOK
<1>2. \A a \in Attempts : stage'[r][a] \notin {"heading", "arrived"}
  BY <1>1 DEF PauseHeading, Underway
<1> QED  BY <1>1, <1>2 DEF Underway

\* Selecting, arriving and settling keep one current customer.
LEMMA CustomerActivity ==
  ASSUME RoundTypeOK, OneRunning, OneActivity, NEW v \in views, NEW a \in Attempts,
         \/ SelectHeading(v, a) \/ RecordArrival(v, a)
         \/ \E result \in {"delivered", "undelivered"} : RecordOutcome(v, a, result)
  PROVE  OneActivity'
<1> DEFINE r == v.round
<1>1. /\ r \in Rounds /\ stage \in [Rounds -> [Attempts -> {"none", "heading", "paused",
                                                          "arrived", "resolved"}]]
  BY ViewTypes DEF RoundTypeOK
<1>2. /\ Active(r) /\ AdmitActiveWork /\ UNCHANGED <<ownership, visit>>
      /\ a \in Eligible /\ a \in admitted[r] /\ visit = NoVisit
  BY DEF SelectHeading, MaySelectHeading, RecordArrival, MayRecordArrival, RecordOutcome,
         MayRecordOutcome, Executable, Running
<1>3. Active(r)'
  BY <1>2 DEF Active, ownership
<1>4. \A q \in Rounds \ {r} : Underway(q) = {}
  BY <1>1, <1>2, IdleOthers
<1>5. CASE SelectHeading(v, a)
  <2>1. /\ stage' = [stage EXCEPT ![r] = Head(r, a)] /\ target' = {a} /\ UNCHANGED work
        /\ \A b \in Underway(r) : stage[r][b] # "arrived"
    BY <1>5 DEF SelectHeading, MaySelectHeading
  <2>2. /\ stage'[r] = [PauseHeading(stage[r]) EXCEPT ![a] = "heading"]
        /\ \A q \in Rounds \ {r} : stage'[q] = stage[q]
    BY <1>1, <2>1 DEF Head
  <2>3. stage'[r][a] = "heading"
    BY <2>2 DEF PauseHeading
  <2>4. \A b \in Attempts \ {a} : stage'[r][b] \notin {"heading", "arrived"}
    BY <1>1, <2>1, <2>2 DEF PauseHeading, Underway
  <2>5. Underway(r)' = {a} /\ \A q \in Rounds \ {r} : Underway(q)' = {}
    BY <1>4, <2>2, <2>3, <2>4 DEF Underway
  <2>6. a \in Eligible'
    BY <1>2, <2>1 DEF Eligible, LatestOf, work
  <2> QED  BY <1>1, <1>2, <1>3, <2>1, <2>5, <2>6, AdmitGrows DEF OneActivity
<1>6. CASE RecordArrival(v, a)
  <2>1. /\ stage' = [stage EXCEPT ![r][a] = "arrived"] /\ target' = {a} /\ UNCHANGED work
        /\ stage[r][a] = "heading"
    BY <1>6 DEF RecordArrival, MayRecordArrival
  <2>2. Underway(r) = {a}
    BY <1>1, <2>1 DEF OneActivity, Underway
  <2>3. /\ stage'[r][a] = "arrived"
        /\ \A b \in Attempts \ {a} : stage'[r][b] = stage[r][b]
        /\ \A q \in Rounds \ {r} : stage'[q] = stage[q]
    BY <1>1, <2>1
  <2>4. Underway(r)' = {a} /\ \A q \in Rounds \ {r} : Underway(q)' = {}
    BY <1>4, <2>2, <2>3 DEF Underway
  <2>5. a \in Eligible'
    BY <1>2, <2>1 DEF Eligible, LatestOf, work
  <2> QED  BY <1>1, <1>2, <1>3, <2>1, <2>4, <2>5, AdmitGrows DEF OneActivity
<1>7. CASE \E result \in {"delivered", "undelivered"} : RecordOutcome(v, a, result)
  <2>1. /\ stage' = [stage EXCEPT ![r][a] = "resolved"]
        /\ \A b \in Underway(r) : b = a
    BY <1>7 DEF RecordOutcome, MayRecordOutcome
  <2>2. /\ stage'[r][a] = "resolved"
        /\ \A b \in Attempts \ {a} : stage'[r][b] = stage[r][b]
        /\ \A q \in Rounds \ {r} : stage'[q] = stage[q]
    BY <1>1, <2>1
  <2>3. Underway(r)' = {} /\ \A q \in Rounds \ {r} : Underway(q)' = {}
    BY <1>4, <2>1, <2>2 DEF Underway
  <2> QED  BY <2>3, NobodyCurrent
<1> QED  BY <1>5, <1>6, <1>7

\* Closures and branch visits leave no current customer.
LEMMA NoCustomer ==
  ASSUME RoundTypeOK, OneRunning, OneActivity, NEW v \in views,
         \/ EndRound(v) \/ EndWorkday(v) \/ BranchArrive(v) \/ BranchResume(v)
         \/ \E claims \in SUBSET Tasks : Interrupt(v, claims)
  PROVE  OneActivity'
<1> DEFINE r == v.round
<1>1. r \in Rounds
  BY ViewTypes
<1>2. CASE EndRound(v) \/ EndWorkday(v)
  <2>1. StopActivity(r) /\ \A a \in Underway(r) : stage[r][a] # "arrived"
    BY <1>2 DEF EndRound, MayEndRound, EndWorkday, MayEndWorkday, Closable
  <2>2. \A q \in Rounds \ {r} : Underway(q) = {}
    <3>1. CASE Active(r)
      BY <1>1, <3>1, IdleOthers
    <3>2. CASE ActiveRounds \subseteq {r}
      BY <3>2 DEF OneActivity, ActiveRounds
    <3> QED  BY <1>2, <3>1, <3>2 DEF EndRound, MayEndRound, EndWorkday, MayEndWorkday
  <2>3. Underway(r)' = {} /\ \A q \in Rounds \ {r} : Underway(q)' = Underway(q)
    BY <1>1, <2>1, PauseEmpties DEF StopActivity, Underway
  <2> QED  BY <2>2, <2>3, NobodyCurrent
<1>3. CASE \E claims \in SUBSET Tasks : Interrupt(v, claims)
  <2>1. /\ Active(r) /\ stage' = [stage EXCEPT ![r] = PauseHeading(stage[r])]
        /\ \A a \in Underway(r) : stage[r][a] # "arrived"
    BY <1>3 DEF Interrupt, MayInterrupt
  <2>2. \A q \in Rounds \ {r} : Underway(q) = {}
    BY <1>1, <2>1, IdleOthers
  <2> QED  BY <1>1, <2>1, <2>2, PauseEmpties, NobodyCurrent
<1>4. CASE BranchArrive(v) \/ BranchResume(v)
  <2>1. visit # NoVisit /\ stage' = stage
    BY <1>4 DEF BranchArrive, MayBranchArrive, BranchResume, MayBranchResume, NoVisit
  <2> QED  BY <2>1, NobodyCurrent DEF OneActivity, Underway
<1> QED  BY <1>2, <1>3, <1>4

\* Every step keeps at most one current customer.
LEMMA ActivityKept ==
  ASSUME RoundTypeOK, OneRunning, OneActivity, ExecutionAssumption, [RoundNext]_roundVars
  PROVE  OneActivity'
<1>0. \A r \in Rounds : \A a \in Underway(r) : a \in Eligible
  BY DEF OneActivity
<1>1. ASSUME UNCHANGED <<ownership, activity, work, admitted>>
      PROVE  OneActivity'
  BY <1>0, <1>1, TasksChange DEF Eligible, LatestOf, work
<1>2. ASSUME NEW t \in Tasks, ReceiveTask(t)
      PROVE  OneActivity'
  <2>1. \A a \in Eligible : a[1] # t
    BY <1>2 DEF ReceiveTask, Eligible, LatestOf, Attempts
  <2>2. /\ UNCHANGED <<ownership, activity>> /\ outcome' = outcome
        /\ \A u \in Tasks \ {t} : /\ latest'[u] = latest[u] /\ deferral'[u] = deferral[u]
                                  /\ stop'[u] = stop[u]
        /\ AdmitActiveWork
    BY <1>2 DEF ReceiveTask, RoundTypeOK
  <2>3. \A r \in Rounds : \A a \in Underway(r) : a \in Eligible'
    BY <1>0, <2>1, <2>2, EligibleElsewhere
  <2> QED  BY <2>2, <2>3, AdmitGrows, TasksChange
<1>3. ASSUME NEW t \in Tasks, Elapse(t)
      PROVE  OneActivity'
  BY <1>0, <1>3, ElapseEligible, TasksChange DEF Elapse
<1>4. ASSUME NEW t \in Tasks, ReceivePieces(t)
      PROVE  OneActivity'
  <2>1. Eligible' = Eligible /\ AdmitActiveWork /\ UNCHANGED <<ownership, activity>>
    BY <1>4 DEF ReceivePieces, Eligible, LatestOf
  <2> QED  BY <1>0, <2>1, AdmitGrows, TasksChange
<1>5. ASSUME NEW v \in views, NEW t \in Tasks, Retry(v, t) \/ Defer(v, t) \/ Activate(v, t)
      PROVE  OneActivity'
  <2>1. Changing(v, t) /\ AdmitActiveWork
    BY <1>5 DEF Retry, MayRetry, Defer, Activate, MayActivate
  <2>2. \A r \in Rounds : LatestOf(t) \notin Underway(r)
    BY <2>1, CurrentStays DEF Changing
  <2>3. /\ UNCHANGED <<ownership, activity>> /\ outcome' = outcome
        /\ \A u \in Tasks \ {t} : /\ latest'[u] = latest[u] /\ deferral'[u] = deferral[u]
                                  /\ stop'[u] = stop[u]
    BY <1>5 DEF Retry, Defer, Activate, RoundTypeOK
  <2>4. ASSUME NEW r \in Rounds, NEW a \in Underway(r) PROVE a \in Eligible'
    <3>1. a \in Eligible /\ a[1] # t
      BY <1>0, <2>2, <2>4 DEF Eligible
    <3> QED  BY <2>3, <3>1, EligibleElsewhere
  <2> QED  BY <2>1, <2>3, <2>4, AdmitGrows, TasksChange
<1>6. ASSUME NEW d \in Devices, Start(d)
      PROVE  OneActivity'
  <2>1. ActiveRounds = {} /\ stage' = stage
    BY <1>6 DEF Start, activity
  <2>2. \A r \in Rounds : Underway(r)' = {}
    BY <2>1 DEF OneActivity, ActiveRounds, Underway
  <2> QED  BY <2>2, NobodyCurrent
<1>7. ASSUME NEW v \in views, TakeOver(v)
      PROVE  OneActivity'
  <2>1. UNCHANGED <<activity, work, admitted>>
    BY <1>7 DEF TakeOver
  <2>2. \A r \in Rounds : Active(r) => Active(r)'
    BY <1>7, TakeOverEffect DEF Active
  <2>3. \A r \in Rounds : Underway(r)' = Underway(r)
    BY <2>1 DEF Underway, activity
  <2>4. Eligible' = Eligible /\ target' = target /\ visit' = visit
    BY <2>1 DEF Eligible, LatestOf, activity, work
  <2> QED  BY <2>1, <2>2, <2>3, <2>4 DEF OneActivity
<1>8. CASE DeviceNext
  BY <1>1, <1>6, <1>8 DEF DeviceNext, Prepare, ObserveDay, StartNothing, Download
<1>9. CASE CommandNext
  BY <1>5, <1>7, <1>9, CustomerActivity, NoCustomer DEF CommandNext
<1>10. CASE UNCHANGED roundVars
  BY <1>1, <1>10 DEF roundVars
<1> QED  BY <1>2, <1>3, <1>4, <1>8, <1>9, <1>10 DEF RoundNext

-----------------------------------------------------------------------------
\* Only a recorded outcome settles an attempt.
LEMMA ResolutionSteps ==
  ASSUME RoundTypeOK, ResolvedOnce, [RoundNext]_roundVars
  PROVE  \/ /\ outcome' = outcome
            /\ \A r \in Rounds, a \in Attempts :
                 stage'[r][a] = "resolved" <=> stage[r][a] = "resolved"
         \/ \E v \in views, a \in Attempts, result \in {"delivered", "undelivered"} :
              RecordOutcome(v, a, result)
<1> DEFINE Same == /\ outcome' = outcome
                   /\ \A r \in Rounds, a \in Attempts :
                        stage'[r][a] = "resolved" <=> stage[r][a] = "resolved"
<1>0. stage \in [Rounds -> [Attempts -> {"none", "heading", "paused", "arrived", "resolved"}]]
  BY DEF RoundTypeOK
<1>1. ASSUME UNCHANGED <<stage, outcome>> PROVE Same
  BY <1>1
<1>2. ASSUME NEW r \in Rounds, stage' = [stage EXCEPT ![r] = PauseHeading(stage[r])],
             outcome' = outcome
      PROVE  Same
  <2>1. \A a \in Attempts : stage'[r][a] = "resolved" <=> stage[r][a] = "resolved"
    BY <1>0, <1>2 DEF PauseHeading
  <2>2. \A q \in Rounds \ {r} : stage'[q] = stage[q]
    BY <1>0, <1>2
  <2> QED  BY <1>2, <2>1, <2>2
<1>3. ASSUME NEW v \in views, NEW a \in Attempts,
             SelectHeading(v, a) \/ RecordArrival(v, a)
      PROVE  Same
  <2>1. v.round \in Rounds
    BY ViewTypes
  <2>2. /\ outcome' = outcome /\ outcome[a] = "none"
        /\ \/ stage' = [stage EXCEPT ![v.round] = Head(v.round, a)]
           \/ stage' = [stage EXCEPT ![v.round][a] = "arrived"]
    BY <1>3 DEF SelectHeading, MaySelectHeading, RecordArrival, MayRecordArrival,
                Executable, Eligible, work
  <2>3. stage[v.round][a] # "resolved"
    BY <2>1, <2>2 DEF ResolvedOnce
  <2>4. \A b \in Attempts : stage'[v.round][b] = "resolved" <=> stage[v.round][b] = "resolved"
    <3>1. CASE stage' = [stage EXCEPT ![v.round] = Head(v.round, a)]
      <4>1. stage'[v.round] = [PauseHeading(stage[v.round]) EXCEPT ![a] = "heading"]
        BY <1>0, <2>1, <3>1 DEF Head
      <4>2. stage'[v.round][a] = "heading"
        BY <4>1 DEF PauseHeading
      <4>3. \A b \in Attempts \ {a} :
              stage'[v.round][b] = "resolved" <=> stage[v.round][b] = "resolved"
        BY <1>0, <2>1, <4>1 DEF PauseHeading
      <4> QED  BY <2>3, <4>2, <4>3
    <3>2. CASE stage' = [stage EXCEPT ![v.round][a] = "arrived"]
      BY <1>0, <2>1, <2>3, <3>2
    <3> QED  BY <2>2, <3>1, <3>2
  <2>5. \A q \in Rounds \ {v.round} : stage'[q] = stage[q]
    BY <1>0, <2>2
  <2> QED  BY <2>2, <2>4, <2>5
<1>4. ASSUME NEW v \in views, EndRound(v) \/ EndWorkday(v)
      PROVE  Same
  <2>1. v.round \in Rounds
    BY ViewTypes
  <2>2. StopActivity(v.round) /\ outcome' = outcome
    BY <1>4 DEF EndRound, EndWorkday, work
  <2> QED  BY <1>1, <1>2, <2>1, <2>2 DEF StopActivity
<1>5. ASSUME NEW v \in views, NEW claims \in SUBSET Tasks, Interrupt(v, claims)
      PROVE  Same
  <2>1. /\ v.round \in Rounds /\ outcome' = outcome
        /\ stage' = [stage EXCEPT ![v.round] = PauseHeading(stage[v.round])]
    BY <1>5, ViewTypes DEF Interrupt, work
  <2> QED  BY <1>2, <2>1
<1>6. ASSUME NEW v \in views,
             \/ TakeOver(v) \/ BranchArrive(v) \/ BranchResume(v)
             \/ \E t \in Tasks : Retry(v, t) \/ Defer(v, t) \/ Activate(v, t)
      PROVE  Same
  BY <1>1, <1>6 DEF TakeOver, BranchArrive, BranchResume, Retry, Defer, Activate, activity,
     work
<1>7. CASE DeviceNext
  <2>1. UNCHANGED <<work, activity>>
    BY <1>7, StartEffect DEF DeviceNext, Prepare, ObserveDay, StartNothing, Download
  <2> QED  BY <1>1, <2>1 DEF work, activity
<1>8. CASE \E t \in Tasks : ReceiveTask(t) \/ Elapse(t) \/ ReceivePieces(t)
  BY <1>1, <1>8 DEF ReceiveTask, Elapse, ReceivePieces, activity
<1>9. CASE UNCHANGED roundVars
  BY <1>1, <1>9 DEF roundVars, activity, work
<1>10. ASSUME CommandNext
       PROVE  Same \/ \E v \in views, a \in Attempts, result \in {"delivered", "undelivered"} :
                        RecordOutcome(v, a, result)
  <2> HIDE DEF Same
  <2> QED  BY <1>3, <1>4, <1>5, <1>6, <1>10 DEF CommandNext
<1> HIDE DEF Same
<1> QED  BY <1>7, <1>8, <1>9, <1>10 DEF RoundNext, Same

\* An attempt is resolved in the one round that settled it.
LEMMA ResolvedKept ==
  ASSUME RoundTypeOK, ResolvedOnce, [RoundNext]_roundVars
  PROVE  ResolvedOnce'
<1>1. ASSUME outcome' = outcome,
             \A r \in Rounds, a \in Attempts :
               stage'[r][a] = "resolved" <=> stage[r][a] = "resolved"
      PROVE  ResolvedOnce'
  BY <1>1 DEF ResolvedOnce
<1>2. ASSUME NEW v \in views, NEW a \in Attempts, NEW result \in {"delivered", "undelivered"},
             RecordOutcome(v, a, result)
      PROVE  ResolvedOnce'
  <2>1. /\ v.round \in Rounds /\ outcome[a] = "none"
        /\ stage' = [stage EXCEPT ![v.round][a] = "resolved"]
        /\ outcome' = [outcome EXCEPT ![a] = result]
    BY <1>2, ViewTypes DEF RecordOutcome, MayRecordOutcome, Executable, Eligible
  <2>2. /\ stage'[v.round][a] = "resolved" /\ outcome'[a] = result
        /\ \A b \in Attempts \ {a} : outcome'[b] = outcome[b]
        /\ \A r \in Rounds, b \in Attempts :
             r # v.round \/ b # a => stage'[r][b] = stage[r][b]
    BY <2>1 DEF RoundTypeOK
  <2>3. \A r \in Rounds : stage'[r][a] = "resolved" <=> r = v.round
    BY <2>1, <2>2 DEF ResolvedOnce
  <2>4. ASSUME NEW b \in Attempts
        PROVE  IF outcome'[b] = "none"
               THEN \A r \in Rounds : stage'[r][b] # "resolved"
               ELSE \E r \in Rounds : \A q \in Rounds : stage'[q][b] = "resolved" <=> q = r
    <3>1. CASE b = a
      BY <2>1, <2>2, <2>3, <3>1
    <3>2. CASE b # a
      BY <2>2, <3>2 DEF ResolvedOnce
    <3> QED  BY <3>1, <3>2
  <2> QED  BY <2>4 DEF ResolvedOnce
<1> QED  BY <1>1, <1>2, ResolutionSteps

\* Attempts, outcomes and receipts change in four ways.
LEMMA HistorySteps ==
  ASSUME RoundTypeOK, [RoundNext]_roundVars
  PROVE  \/ UNCHANGED <<latest, outcome, received>>
         \/ \E t \in Tasks : ReceiveTask(t) \/ ReceivePieces(t)
         \/ \E v \in views, t \in Tasks : Retry(v, t)
         \/ \E v \in views, a \in Attempts, result \in {"delivered", "undelivered"} :
              RecordOutcome(v, a, result)
<1> DEFINE Same == UNCHANGED <<latest, outcome, received>>
<1>1. ASSUME NEW v \in views,
             \/ TakeOver(v) \/ EndRound(v) \/ EndWorkday(v) \/ BranchArrive(v) \/ BranchResume(v)
             \/ \E t \in Tasks : Defer(v, t) \/ Activate(v, t)
             \/ \E claims \in SUBSET Tasks : Interrupt(v, claims)
             \/ \E a \in Attempts : SelectHeading(v, a) \/ RecordArrival(v, a)
      PROVE  Same
  BY <1>1 DEF TakeOver, EndRound, EndWorkday, BranchArrive, BranchResume, Defer, Activate,
     Interrupt, SelectHeading, RecordArrival, work
<1>2. ASSUME DeviceNext PROVE Same
  <2>1. UNCHANGED work
    BY <1>2, StartEffect DEF DeviceNext, Prepare, ObserveDay, StartNothing, Download
  <2> QED  BY <2>1 DEF work
<1>3. ASSUME NEW t \in Tasks, Elapse(t) PROVE Same
  BY <1>3 DEF Elapse
<1>4. ASSUME UNCHANGED roundVars PROVE Same
  BY <1>4 DEF roundVars, work
<1>5. ASSUME CommandNext
      PROVE  \/ Same
             \/ \E v \in views, t \in Tasks : Retry(v, t)
             \/ \E v \in views, a \in Attempts, result \in {"delivered", "undelivered"} :
                  RecordOutcome(v, a, result)
  <2> HIDE DEF Same
  <2> QED  BY <1>1, <1>5 DEF CommandNext
<1> HIDE DEF Same
<1>6. \/ Same
      \/ \E t \in Tasks : ReceiveTask(t) \/ ReceivePieces(t)
      \/ \E v \in views, t \in Tasks : Retry(v, t)
      \/ \E v \in views, a \in Attempts, result \in {"delivered", "undelivered"} :
           RecordOutcome(v, a, result)
  BY <1>2, <1>3, <1>4, <1>5 DEF RoundNext
<1> QED  BY <1>6 DEF Same

\* Only the latest attempt is open, and receipts follow a failed one.
LEMMA HistoryKept ==
  ASSUME RoundTypeOK, LatestOpen, ExecutionAssumption, [RoundNext]_roundVars
  PROVE  LatestOpen'
<1>0. /\ \A a \in Attempts : /\ a[1] \in Tasks /\ a[2] \in Nat /\ a[2] >= 1
                             /\ a = <<a[1], a[2]>>
      /\ \A t \in Tasks : latest[t] \in Nat
  BY DEF Attempts, RoundTypeOK, ExecutionAssumption
<1>1. CASE UNCHANGED <<latest, outcome, received>>
  BY <1>1 DEF LatestOpen, LatestOf
<1>2. ASSUME NEW t \in Tasks, ReceiveTask(t)
      PROVE  LatestOpen'
  <2>1. /\ latest[t] = 0 /\ latest'[t] = 1
        /\ \A u \in Tasks \ {t} : latest'[u] = latest[u]
        /\ UNCHANGED <<outcome, received>> /\ t \notin received
    BY <1>2 DEF ReceiveTask, RoundTypeOK, LatestOpen
  <2>2. ASSUME NEW a \in Attempts
        PROVE  /\ a[2] < latest'[a[1]] => outcome'[a] = "undelivered"
               /\ a[2] > latest'[a[1]] => outcome'[a] = "none"
    BY <1>0, <2>1 DEF LatestOpen
  <2>3. ASSUME NEW u \in received'
        PROVE  latest'[u] > 0 /\ outcome'[<<u, latest'[u]>>] = "undelivered"
    BY <2>1 DEF LatestOpen, LatestOf, RoundTypeOK
  <2> QED  BY <2>2, <2>3 DEF LatestOpen, LatestOf
<1>3. ASSUME NEW t \in Tasks, ReceivePieces(t)
      PROVE  LatestOpen'
  BY <1>3 DEF ReceivePieces, LatestOpen, LatestOf
<1>4. ASSUME NEW v \in views, NEW t \in Tasks, Retry(v, t)
      PROVE  LatestOpen'
  <2>1. /\ latest'[t] = latest[t] + 1 /\ t \notin received /\ latest[t] > 0
        /\ outcome[<<t, latest[t]>>] = "undelivered"
        /\ \A u \in Tasks \ {t} : latest'[u] = latest[u]
        /\ UNCHANGED <<outcome, received>>
    BY <1>4 DEF Retry, MayRetry, Changing, LatestOf, RoundTypeOK
  <2>2. ASSUME NEW a \in Attempts
        PROVE  /\ a[2] < latest'[a[1]] => outcome'[a] = "undelivered"
               /\ a[2] > latest'[a[1]] => outcome'[a] = "none"
    <3>1. CASE a[1] = t
      <4>1. a[2] < latest'[t] => a[2] < latest[t] \/ a[2] = latest[t]
        BY <1>0, <2>1
      <4>2. a[2] = latest[t] => outcome'[a] = "undelivered"
        BY <1>0, <2>1, <3>1
      <4> QED  BY <1>0, <2>1, <3>1, <4>1, <4>2 DEF LatestOpen
    <3>2. CASE a[1] # t
      BY <1>0, <2>1, <3>2 DEF LatestOpen
    <3> QED  BY <3>1, <3>2
  <2>3. ASSUME NEW u \in received'
        PROVE  latest'[u] > 0 /\ outcome'[<<u, latest'[u]>>] = "undelivered"
    BY <2>1 DEF LatestOpen, LatestOf, RoundTypeOK
  <2> QED  BY <2>2, <2>3 DEF LatestOpen, LatestOf
<1>5. ASSUME NEW v \in views, NEW a \in Attempts, NEW result \in {"delivered", "undelivered"},
             RecordOutcome(v, a, result)
      PROVE  LatestOpen'
  <2>1. /\ a[2] = latest[a[1]] /\ a[1] \notin received
        /\ UNCHANGED <<latest, received>>
        /\ \A b \in Attempts \ {a} : outcome'[b] = outcome[b]
    <3>1. a = LatestOf(a[1]) /\ a[1] \notin received
      BY <1>5 DEF RecordOutcome, MayRecordOutcome, Executable, Eligible
    <3> QED  BY <1>0, <1>5, <3>1 DEF RecordOutcome, LatestOf, RoundTypeOK
  <2>2. ASSUME NEW b \in Attempts
        PROVE  /\ b[2] < latest'[b[1]] => outcome'[b] = "undelivered"
               /\ b[2] > latest'[b[1]] => outcome'[b] = "none"
    BY <1>0, <2>1 DEF LatestOpen
  <2>3. ASSUME NEW u \in received'
        PROVE  latest'[u] > 0 /\ outcome'[<<u, latest'[u]>>] = "undelivered"
    <3>1. u \in Tasks /\ u \in received /\ u # a[1]
      BY <2>1, <2>3 DEF RoundTypeOK
    <3>2. latest[u] \in 1..MaxAttempts
      BY <3>1 DEF LatestOpen, RoundTypeOK, ExecutionAssumption
    <3>3. <<u, latest[u]>> \in Attempts \ {a}
      BY <1>0, <3>1, <3>2 DEF Attempts
    <3> QED  BY <2>1, <3>1, <3>3 DEF LatestOpen, LatestOf
  <2> QED  BY <2>2, <2>3 DEF LatestOpen, LatestOf
<1> QED  BY <1>1, <1>2, <1>3, <1>4, <1>5, HistorySteps

-----------------------------------------------------------------------------
\* The customers among the remaining stops.
Customers == {t \in Tasks : stop[t] = "remaining"}

\* Fewer customers and branch ends are fewer stops.
LEMMA FewerStops ==
  ASSUME RoundTypeOK, ExecutionAssumption, CapacityKept,
         Customers' \subseteq Customers, endpoint' \subseteq endpoint
  PROVE  CapacityKept'
<1>1. IsFiniteSet(Customers) /\ IsFiniteSet(endpoint)
  BY FS_Subset DEF RoundTypeOK, ExecutionAssumption, Customers
<1>2. /\ Cardinality(Customers') <= Cardinality(Customers)
      /\ Cardinality(endpoint') <= Cardinality(endpoint)
      /\ IsFiniteSet(Customers') /\ IsFiniteSet(endpoint')
  BY <1>1, FS_Subset
<1>3. /\ Cardinality(Customers) \in Nat /\ Cardinality(Customers') \in Nat
      /\ Cardinality(endpoint) \in Nat /\ Cardinality(endpoint') \in Nat
  BY <1>1, <1>2, FS_CardinalityType
<1>4. Cardinality(Customers) + Cardinality(endpoint) <= Capacity
  BY DEF CapacityKept, Customers
<1>5. Cardinality(Customers') + Cardinality(endpoint') <= Capacity
  BY <1>2, <1>3, <1>4 DEF ExecutionAssumption
<1> QED  BY <1>5 DEF CapacityKept, Customers

\* One more customer fits where there was room.
LEMMA OneMoreStop ==
  ASSUME RoundTypeOK, ExecutionAssumption, Room, NEW t \in Tasks,
         stop' = [stop EXCEPT ![t] = "remaining"], endpoint' = endpoint
  PROVE  CapacityKept'
<1>1. IsFiniteSet(Customers) /\ IsFiniteSet(endpoint)
  BY FS_Subset DEF RoundTypeOK, ExecutionAssumption, Customers
<1>2. Customers' = Customers \cup {t}
  BY DEF Customers, RoundTypeOK
<1>3. /\ Cardinality(Customers') <= Cardinality(Customers) + 1
      /\ Cardinality(Customers') \in Nat /\ Cardinality(Customers) \in Nat
      /\ Cardinality(endpoint) \in Nat
  <2>1. /\ Cardinality(Customers) \in Nat /\ Cardinality(endpoint) \in Nat
    BY <1>1, FS_CardinalityType
  <2>2. Cardinality(Customers \cup {t}) =
          IF t \in Customers THEN Cardinality(Customers) ELSE Cardinality(Customers) + 1
    BY <1>1, FS_AddElement
  <2> QED  BY <1>2, <2>1, <2>2
<1>4. Cardinality(Customers) + Cardinality(endpoint) < Capacity
  BY DEF Room, Remaining, Customers
<1>5. Cardinality(Customers') + Cardinality(endpoint') <= Capacity
  BY <1>3, <1>4 DEF ExecutionAssumption
<1> QED  BY <1>5 DEF CapacityKept, Customers

\* No command exceeds the stops a driver can have.
LEMMA CapacityStays ==
  ASSUME RoundTypeOK, ExecutionAssumption, CapacityKept, [RoundNext]_roundVars
  PROVE  CapacityKept'
<1>1. ASSUME UNCHANGED <<stop, endpoint>> PROVE CapacityKept'
  BY <1>1, FewerStops DEF Customers
<1>2. ASSUME Remaining' <= Capacity PROVE CapacityKept'
  BY <1>2 DEF Remaining, CapacityKept
<1>3. ASSUME NEW v \in views, NEW t \in Tasks, Retry(v, t) \/ Defer(v, t) \/ Activate(v, t)
      PROVE  CapacityKept'
  <2>1. CASE Defer(v, t)
    <3>1. stop' = [stop EXCEPT ![t] = stop'[t]] /\ stop'[t] # "remaining"
      BY <2>1 DEF Defer, RoundTypeOK
    <3>2. Customers' \subseteq Customers /\ endpoint' = endpoint
      BY <2>1, <3>1 DEF Defer, Customers, RoundTypeOK
    <3> QED  BY <3>2, FewerStops
  <2>2. CASE Retry(v, t) \/ Activate(v, t)
    BY <2>2, OneMoreStop DEF Retry, MayRetry, Activate, MayActivate
  <2> QED  BY <1>3, <2>1, <2>2
<1>4. ASSUME NEW v \in views, NEW a \in Attempts, NEW result \in {"delivered", "undelivered"},
             RecordOutcome(v, a, result)
      PROVE  CapacityKept'
  <2>1. stop' = [stop EXCEPT ![a[1]] = "completed"] /\ endpoint' = endpoint
    BY <1>4 DEF RecordOutcome
  <2>2. Customers' \subseteq Customers
    BY <2>1 DEF Customers, RoundTypeOK
  <2> QED  BY <2>1, <2>2, FewerStops
<1>5. ASSUME NEW v \in views, EndRound(v) \/ EndWorkday(v)
      PROVE  CapacityKept'
  <2>1. stop' = stop /\ endpoint' \subseteq endpoint
    BY <1>5 DEF EndRound, EndWorkday, work
  <2> QED  BY <2>1, FewerStops DEF Customers
<1>6. ASSUME NEW v \in views,
             \/ TakeOver(v) \/ BranchArrive(v) \/ BranchResume(v)
             \/ \E claims \in SUBSET Tasks : Interrupt(v, claims)
             \/ \E a \in Attempts : SelectHeading(v, a) \/ RecordArrival(v, a)
      PROVE  CapacityKept'
  <2>1. UNCHANGED <<stop, endpoint>>
    BY <1>6 DEF TakeOver, BranchArrive, BranchResume, Interrupt, SelectHeading,
       RecordArrival, work
  <2> QED  BY <1>1, <2>1
<1>7. CASE DeviceNext
  <2>1. UNCHANGED <<stop, endpoint>> \/ Remaining' <= Capacity
    BY <1>7, StartEffect DEF DeviceNext, Prepare, ObserveDay, StartNothing, Download, work
  <2> QED  BY <1>1, <1>2, <2>1
<1>8. CASE CommandNext
  BY <1>3, <1>4, <1>5, <1>6, <1>8 DEF CommandNext
<1>9. CASE \E t \in Tasks : ReceiveTask(t) \/ Elapse(t) \/ ReceivePieces(t)
  <2>1. UNCHANGED <<stop, endpoint>> \/ Remaining' <= Capacity
    BY <1>9 DEF ReceiveTask, Elapse, ReceivePieces
  <2> QED  BY <1>1, <1>2, <2>1
<1>10. CASE UNCHANGED roundVars
  BY <1>1, <1>10 DEF roundVars, work
<1> QED  BY <1>7, <1>8, <1>9, <1>10 DEF RoundNext

-----------------------------------------------------------------------------
\* The invariant holds before the first task.
LEMMA InitInv ==
  ASSUME RoundInit, ExecutionAssumption
  PROVE  RoundInv
<1> USE DEF RoundInit
<1>1. RoundTypeOK
  BY DEF RoundTypeOK, Unused, NotStarting, ExecutionAssumption
<1>2. OneRunning /\ ViewsTrue /\ WorkIsAdmitted
  BY DEF OneRunning, ViewsTrue, WorkIsAdmitted, OpenDays, ActiveRounds, Active, Unused
<1>3. OneActivity /\ ResolvedOnce
  BY DEF OneActivity, Underway, ResolvedOnce
<1>4. LatestOpen
  BY DEF LatestOpen, Attempts, ExecutionAssumption
<1>5. CapacityKept
  <2>1. {t \in Tasks : stop[t] = "remaining"} = {} /\ endpoint = {}
    OBVIOUS
  <2>2. Cardinality({}) = 0
    BY FS_EmptySet
  <2>3. CapacityKept <=> Cardinality({}) + Cardinality({}) <= Capacity
    BY <2>1 DEF CapacityKept
  <2> QED  BY <2>2, <2>3 DEF ExecutionAssumption
<1> QED  BY <1>1, <1>2, <1>3, <1>4, <1>5 DEF RoundInv

\* The execution of a driver's work keeps its invariant.
THEOREM RoundInvariant == RoundSpec => []RoundInv
<1> USE ExecutionAssumption
<1>1. RoundInit => RoundInv
  BY InitInv
<1>2. RoundInv /\ [RoundNext]_roundVars => RoundInv'
  <2> SUFFICES ASSUME RoundInv, [RoundNext]_roundVars PROVE RoundInv'
    OBVIOUS
  <2>1. /\ RoundTypeOK /\ OneRunning /\ ViewsTrue /\ OneActivity /\ WorkIsAdmitted
        /\ ResolvedOnce /\ LatestOpen /\ CapacityKept
    BY DEF RoundInv
  <2>2. RoundTypeOK'
    BY <2>1, TypesKept
  <2>3. OneRunning' /\ ViewsTrue'
    BY <2>1, <2>2, OneRunningKept, ViewsTrueKept
  <2>4. OneActivity' /\ WorkIsAdmitted'
    BY <2>1, ActivityKept, AdmittedKept
  <2>5. ResolvedOnce' /\ LatestOpen'
    BY <2>1, ResolvedKept, HistoryKept
  <2>6. CapacityKept'
    BY <2>1, CapacityStays
  <2> QED  BY <2>2, <2>3, <2>4, <2>5, <2>6 DEF RoundInv
<1> QED  BY <1>1, <1>2, PTL DEF RoundSpec

\* Types of the driver's tables.
THEOREM RoundTypes == RoundSpec => []RoundTypeOK
<1>1. RoundInv => RoundTypeOK
  BY DEF RoundInv
<1> QED  BY <1>1, RoundInvariant, PTL

\* However commands interleave, there is at most one current customer.
THEOREM ActivityIsSingle == RoundSpec => []OneActivity
<1>1. RoundInv => OneActivity
  BY DEF RoundInv
<1> QED  BY <1>1, RoundInvariant, PTL

\* Nothing available is left out of a running round.
THEOREM AdmissionIsComplete == RoundSpec => []WorkIsAdmitted
<1>1. RoundInv => WorkIsAdmitted
  BY DEF RoundInv
<1> QED  BY <1>1, RoundInvariant, PTL

\* A driver never has more stops than fit.
THEOREM CapacityIsKept == RoundSpec => []CapacityKept
<1>1. RoundInv => CapacityKept
  BY DEF RoundInv
<1> QED  BY <1>1, RoundInvariant, PTL

\* A set without two members has at most one.
LEMMA AtMostOne ==
  ASSUME NEW S, \A x, y \in S : x = y
  PROVE  IsFiniteSet(S) /\ Cardinality(S) <= 1
<1>1. CASE S = {}
  BY <1>1, FS_EmptySet
<1>2. CASE S # {}
  <2>1. PICK x \in S : S = {x}
    BY <1>2
  <2>2. IsFiniteSet({x}) /\ Cardinality({x}) = 1
    BY FS_Singleton
  <2> QED  BY <2>1, <2>2
<1> QED  BY <1>1, <1>2

\* An attempt is settled once, and its successors only after a failure.
THEOREM SettledOnce == RoundSpec => []AttemptsSettleOnce
<1>1. RoundInv => AttemptsSettleOnce
  <2> SUFFICES ASSUME RoundInv PROVE AttemptsSettleOnce
    OBVIOUS
  <2>1. ResolvedOnce /\ LatestOpen
    BY DEF RoundInv
  <2>2. ASSUME NEW a \in Attempts
        PROVE  Cardinality({r \in Rounds : stage[r][a] = "resolved"}) =
                 IF outcome[a] = "none" THEN 0 ELSE 1
    <3>1. CASE outcome[a] = "none"
      <4>1. {r \in Rounds : stage[r][a] = "resolved"} = {}
        BY <2>1, <3>1 DEF ResolvedOnce
      <4> QED  BY <3>1, <4>1, FS_EmptySet
    <3>2. CASE outcome[a] # "none"
      <4>1. PICK r \in Rounds : \A q \in Rounds : stage[q][a] = "resolved" <=> q = r
        BY <2>1, <3>2 DEF ResolvedOnce
      <4>2. {q \in Rounds : stage[q][a] = "resolved"} = {r}
        BY <4>1
      <4> QED  BY <3>2, <4>2, FS_Singleton
    <3> QED  BY <3>1, <3>2
  <2> QED  BY <2>1, <2>2 DEF AttemptsSettleOnce, LatestOpen
<1> QED  BY <1>1, RoundInvariant, PTL

\* One open day, one running round, and the round is of the day.
THEOREM DayCoversRounds == RoundSpec => []DayCoversRound
<1>1. RoundInv => DayCoversRound
  <2> SUFFICES ASSUME RoundInv PROVE DayCoversRound
    OBVIOUS
  <2>1. RoundTypeOK /\ OneRunning
    BY DEF RoundInv
  <2>2. \A q, r \in ActiveRounds : q = r
    <3> SUFFICES ASSUME NEW q \in ActiveRounds, NEW r \in ActiveRounds, q # r PROVE FALSE
      OBVIOUS
    <3>1. /\ rounds[q].generation < rounds[r].generation
          /\ rounds[r].generation < rounds[q].generation
      BY <2>1 DEF OneRunning, ActiveRounds
    <3> QED  BY <2>1, <3>1 DEF RoundTypeOK, ActiveRounds
  <2>3. \A d, e \in OpenDays : d = e
    BY <2>1 DEF OneRunning
  <2> QED  BY <2>1, <2>2, <2>3, AtMostOne DEF DayCoversRound, OneRunning
<1> QED  BY <1>1, RoundInvariant, PTL

-----------------------------------------------------------------------------
\* Whatever changes the activity of a round does so for the owner of the round,
\* who knows its revision and current customer.
LEMMA ActivitySteps ==
  ASSUME RoundTypeOK, [RoundNext]_roundVars, NEW r \in Rounds,
         ~UNCHANGED <<stage[r], revision[r]>>
  PROVE  \E v \in views :
           /\ v.round = r /\ Fence(v) /\ Fresh(v)
           /\ Active(r) \/ (v.active = Active(r) /\ Underway(r) # {})
<1> DEFINE Moves(v) == /\ v.round = r /\ Fence(v) /\ Fresh(v)
                       /\ Active(r) \/ (v.active = Active(r) /\ Underway(r) # {})
<1>1. ASSUME UNCHANGED <<stage, revision>> PROVE FALSE
  BY <1>1
<1>2. ASSUME NEW v \in views, Bump(v.round),
             stage' = stage \/ (\E s : stage' = [stage EXCEPT ![v.round] = s])
      PROVE  v.round = r
  BY <1>2, ViewTypes DEF Bump, RoundTypeOK
<1>3. ASSUME NEW v \in views, NEW a \in Attempts,
             \/ SelectHeading(v, a) \/ RecordArrival(v, a)
             \/ \E result \in {"delivered", "undelivered"} : RecordOutcome(v, a, result)
      PROVE  Moves(v)
  <2>1. Bump(v.round) /\ Fence(v) /\ Fresh(v) /\ Active(v.round)
    BY <1>3 DEF SelectHeading, MaySelectHeading, RecordArrival, MayRecordArrival,
                RecordOutcome, MayRecordOutcome, Running
  <2>2. \E s : stage' = [stage EXCEPT ![v.round] = s]
    BY <1>3 DEF SelectHeading, RecordArrival, RecordOutcome
  <2> QED  BY <1>2, <2>1, <2>2
<1>4. ASSUME NEW v \in views, EndRound(v) \/ EndWorkday(v)
      PROVE  Moves(v)
  <2>1. /\ StopActivity(v.round) /\ Fence(v) /\ Fresh(v) /\ v.active = Active(v.round)
    BY <1>4 DEF EndRound, MayEndRound, EndWorkday, MayEndWorkday, Closable
  <2>2. Underway(v.round) # {}
    BY <1>1, <2>1 DEF StopActivity
  <2>3. Bump(v.round) /\ \E s : stage' = [stage EXCEPT ![v.round] = s]
    BY <2>1, <2>2 DEF StopActivity
  <2> QED  BY <1>2, <2>1, <2>2, <2>3
<1>5. ASSUME NEW v \in views,
             \/ BranchArrive(v) \/ BranchResume(v)
             \/ \E claims \in SUBSET Tasks : Interrupt(v, claims)
      PROVE  Moves(v)
  <2>1. Bump(v.round) /\ Fence(v) /\ Fresh(v) /\ Active(v.round)
    BY <1>5 DEF BranchArrive, MayBranchArrive, BranchResume, MayBranchResume, Interrupt,
                MayInterrupt
  <2>2. stage' = stage \/ \E s : stage' = [stage EXCEPT ![v.round] = s]
    BY <1>5 DEF BranchArrive, BranchResume, Interrupt
  <2> QED  BY <1>2, <2>1, <2>2
<1>6. ASSUME NEW v \in views,
             \/ TakeOver(v)
             \/ \E t \in Tasks : Retry(v, t) \/ Defer(v, t) \/ Activate(v, t)
      PROVE  FALSE
  BY <1>1, <1>6 DEF TakeOver, Retry, Defer, Activate, activity
<1>7. ASSUME DeviceNext PROVE FALSE
  <2>1. UNCHANGED activity
    BY <1>7, StartEffect DEF DeviceNext, Prepare, ObserveDay, StartNothing, Download
  <2> QED  BY <1>1, <2>1 DEF activity
<1>8. ASSUME \E t \in Tasks : ReceiveTask(t) \/ Elapse(t) \/ ReceivePieces(t) PROVE FALSE
  BY <1>1, <1>8 DEF ReceiveTask, Elapse, ReceivePieces, activity
<1>9. ASSUME UNCHANGED roundVars PROVE FALSE
  BY <1>1, <1>9 DEF roundVars, activity
<1>10. ASSUME CommandNext PROVE \E v \in views : Moves(v)
  <2> HIDE DEF Moves
  <2> QED  BY <1>3, <1>4, <1>5, <1>6, <1>10 DEF CommandNext
<1> QED  BY <1>7, <1>8, <1>9, <1>10 DEF RoundNext

\* The owner knows the present state: its view is the snapshot it would download.
THEOREM OnlyTheInformedOwner == RoundSpec => NothingFromBeforeTakeover
<1>1. RoundInv /\ [RoundNext]_roundVars
        => [\A r \in Rounds : revision'[r] # revision[r] =>
              \E v \in views : v = Snapshot(rounds[r].device, r)]_roundVars
  <2> SUFFICES ASSUME RoundInv, [RoundNext]_roundVars, NEW r \in Rounds,
                      revision'[r] # revision[r]
               PROVE  \E v \in views : v = Snapshot(rounds[r].device, r)
    OBVIOUS
  <2>1. RoundTypeOK /\ ViewsTrue /\ OneActivity
    BY DEF RoundInv
  <2>2. PICK v \in views :
          /\ v.round = r /\ Fence(v) /\ Fresh(v)
          /\ Active(r) \/ (v.active = Active(r) /\ Underway(r) # {})
    BY <2>1, ActivitySteps
  <2>3. Active(r)
    BY <2>1, <2>2 DEF OneActivity
  <2>4. v.active = TRUE
    BY <2>1, <2>2, <2>3, ViewTypes DEF ViewsTrue, Active
  <2>5. /\ v.device = rounds[r].device /\ v.generation = rounds[r].generation
        /\ v.basis = rounds[r].generation
    BY <2>1, <2>2 DEF Fence, ViewsTrue
  <2>6. v.revision = revision[r] /\ v.current = Underway(r)
    BY <2>2 DEF Fresh
  <2>7. v \in View
    BY <2>1, ViewTypes
  <2>8. v = [device |-> v.device, round |-> v.round, generation |-> v.generation,
             basis |-> v.basis, active |-> v.active, revision |-> v.revision,
             current |-> v.current]
    BY <2>7 DEF View
  <2>9. Active(r) = TRUE
    BY <2>3 DEF Active
  <2> QED  BY <2>2, <2>4, <2>5, <2>6, <2>8, <2>9 DEF Snapshot
<1> QED  BY <1>1, RoundInvariant, PTL DEF RoundSpec, NothingFromBeforeTakeover

\* A start never belongs to an ended day.
LEMMA EndedDayStart ==
  ASSUME RoundTypeOK, OneRunning, NEW d \in Devices, Start(d),
         NEW e \in Days, day[e] = "ended"
  PROVE  day'[e] = "ended" /\ \A q \in Rounds : rounds'[q].day = e <=> rounds[q].day = e
<1>1. PICK r \in Rounds, n \in StartDay(d), last \in Generations, branchEnd \in BOOLEAN :
        /\ \A g \in Generations : g <= last
        /\ rounds[r].status = "unused"
        /\ rounds' = [rounds EXCEPT ![r] =
                        [status |-> "active", day |-> n, device |-> d,
                         generation |-> last + 1, transferred |-> FALSE]]
        /\ day' = [day EXCEPT ![n] = IF @ = "none" THEN "open" ELSE @]
        /\ endpoint' = IF branchEnd THEN endpoint \cup {r} ELSE endpoint
        /\ UNCHANGED work /\ Remaining' <= Capacity
        /\ admitted' = [admitted EXCEPT ![r] = Eligible]
        /\ Remember([device |-> d, round |-> r, generation |-> last + 1,
                     basis |-> last + 1, active |-> TRUE, revision |-> 0, current |-> {}])
  BY DEF Start
<1>2. n # e
  BY DEF StartDay, OpenDays, FreshDays
<1>3. /\ day'[e] = day[e] /\ rounds'[r].day = n
      /\ \A q \in Rounds \ {r} : rounds'[q] = rounds[q]
  BY <1>1, <1>2 DEF RoundTypeOK
<1>4. NoDay \notin Days
  <2>1. Cardinality(Days) \in Nat
    BY ExecutionAssumption, FS_CardinalityType DEF ExecutionAssumption
  <2> QED  BY <2>1, ExecutionAssumption DEF ExecutionAssumption, NoDay
<1>5. rounds[r].day = NoDay
  BY <1>1 DEF OneRunning
<1> QED  BY <1>2, <1>3, <1>4, <1>5

\* An ended round and an ended day never change again.
THEOREM ClosedStaysFrozen == RoundSpec => ClosedIsFrozen
<1> DEFINE RoundsFrozen == \A r \in Rounds : rounds[r].status = "ended" =>
                        UNCHANGED <<rounds[r], stage[r], revision[r], admitted[r]>>
           DaysFrozen == \A n \in Days : day[n] = "ended" =>
                      /\ day'[n] = "ended"
                      /\ {r \in Rounds : rounds'[r].day = n} = {r \in Rounds : rounds[r].day = n}
<1>1. RoundInv /\ [RoundNext]_roundVars => RoundsFrozen
  <2> SUFFICES ASSUME RoundInv, [RoundNext]_roundVars, NEW r \in Rounds,
                      rounds[r].status = "ended"
               PROVE  UNCHANGED <<rounds[r], stage[r], revision[r], admitted[r]>>
    OBVIOUS
  <2>1. RoundTypeOK /\ OneActivity /\ ExecutionAssumption
    BY ExecutionAssumption DEF RoundInv
  <2>2. ~Active(r) /\ Underway(r) = {}
    BY <2>1 DEF Active, OneActivity
  <2>3. UNCHANGED <<stage[r], revision[r]>>
    BY <2>1, <2>2, ActivitySteps
  <2>4. rounds'[r] = rounds[r]
    <3>1. CASE UNCHANGED ownership
      BY <3>1 DEF ownership
    <3>2. ASSUME NEW d \in Devices, Start(d) PROVE rounds'[r] = rounds[r]
      BY <2>1, <3>2, StartEffect
    <3>3. ASSUME NEW v \in views, TakeOver(v) PROVE rounds'[r] = rounds[r]
      BY <2>1, <2>2, <3>3, TakeOverEffect
    <3>4. ASSUME NEW v \in views, EndRound(v) \/ EndWorkday(v) PROVE rounds'[r] = rounds[r]
      <4>1. CASE v.round # r
        BY <2>1, <3>4, <4>1, ClosureEffect
      <4>2. CASE v.round = r
        <5>1. rounds[r] \in RoundRow
          BY <2>1 DEF RoundTypeOK, RoundRow
        <5>2. rounds'[r] \in RoundRow
          BY <2>1, TypesKept DEF RoundTypeOK, RoundRow
        <5>3. /\ rounds'[r].status = rounds[r].status /\ rounds'[r].day = rounds[r].day
              /\ rounds'[r].device = rounds[r].device
              /\ rounds'[r].generation = rounds[r].generation
              /\ rounds'[r].transferred = rounds[r].transferred
          BY <2>1, <3>4, <4>2, ClosureEffect
        <5> QED  BY <5>1, <5>2, <5>3 DEF RoundRow
      <4> QED  BY <4>1, <4>2
    <3> QED  BY <3>1, <3>2, <3>3, <3>4, OwnershipSteps
  <2>5. admitted'[r] = admitted[r]
    <3>1. CASE AdmitActiveWork
      BY <2>1, <2>2, <2>4, <3>1, AdmitGrows DEF Active
    <3>2. ASSUME NEW d \in Devices, Start(d) PROVE admitted'[r] = admitted[r]
      BY <2>1, <3>2, StartEffect
    <3> QED  BY <3>1, <3>2, AdmissionSteps DEF Elapse, TakeOver
  <2> QED  BY <2>3, <2>4, <2>5
<1>2. RoundInv /\ [RoundNext]_roundVars => DaysFrozen
  <2> SUFFICES ASSUME RoundInv, [RoundNext]_roundVars, NEW n \in Days, day[n] = "ended"
               PROVE  day'[n] = "ended" /\ \A r \in Rounds : rounds'[r].day = n <=> rounds[r].day = n
    OBVIOUS
  <2>1. RoundTypeOK /\ OneRunning
    BY DEF RoundInv
  <2>2. CASE UNCHANGED ownership
    BY <2>2 DEF ownership
  <2>3. ASSUME NEW d \in Devices, Start(d)
        PROVE  day'[n] = "ended" /\ \A r \in Rounds : rounds'[r].day = n <=> rounds[r].day = n
    BY <2>1, <2>3, EndedDayStart
  <2>4. ASSUME NEW v \in views, TakeOver(v)
        PROVE  day'[n] = "ended" /\ \A r \in Rounds : rounds'[r].day = n <=> rounds[r].day = n
    BY <2>1, <2>4, TakeOverEffect
  <2>5. ASSUME NEW v \in views, EndRound(v) \/ EndWorkday(v)
        PROVE  day'[n] = "ended" /\ \A r \in Rounds : rounds'[r].day = n <=> rounds[r].day = n
    BY <2>1, <2>5, ClosureEffect DEF RoundTypeOK
  <2> QED  BY <2>2, <2>3, <2>4, <2>5, OwnershipSteps
<1>3. RoundInv /\ [RoundNext]_roundVars
        => [/\ \A r \in Rounds : rounds[r].status = "ended" =>
                 UNCHANGED <<rounds[r], stage[r], revision[r], admitted[r]>>
            /\ \A n \in Days : day[n] = "ended" =>
                 /\ day'[n] = "ended"
                 /\ {r \in Rounds : rounds'[r].day = n}
                      = {r \in Rounds : rounds[r].day = n}]_roundVars
  BY <1>1, <1>2
<1> QED  BY <1>3, RoundInvariant, PTL DEF RoundSpec, ClosedIsFrozen
-----------------------------------------------------------------------------
(* The reads of DriverReads agree.                                          *)

\* A step admits only what has become available, to running rounds, and takes
\* nothing back from a round that has started.
LEMMA AdmissionGrowth ==
  ASSUME RoundTypeOK, [RoundNext]_roundVars, NEW r \in Rounds
  PROVE  /\ rounds[r].status # "unused" => admitted[r] \subseteq admitted'[r]
         /\ \A a \in admitted'[r] \ admitted[r] : a \in Eligible' /\ Active(r)'
<1>1. CASE AdmitActiveWork
  BY <1>1 DEF AdmitActiveWork, RoundTypeOK, Active
<1>2. CASE UNCHANGED <<rounds, admitted, work>>
  BY <1>2
<1>3. ASSUME NEW t \in Tasks, Elapse(t)
      PROVE  admitted' = admitted
  BY <1>3 DEF Elapse
<1>4. ASSUME NEW d \in Devices, Start(d)
      PROVE  /\ rounds[r].status # "unused" => admitted[r] \subseteq admitted'[r]
             /\ \A a \in admitted'[r] \ admitted[r] : a \in Eligible' /\ Active(r)'
  <2>1. PICK q \in Rounds, n \in Days, g \in Nat :
          /\ rounds[q].status = "unused"
          /\ rounds'[q] = [status |-> "active", day |-> n, device |-> d,
                           generation |-> g, transferred |-> FALSE]
          /\ admitted'[q] = Eligible /\ \A p \in Rounds \ {q} : admitted'[p] = admitted[p]
          /\ UNCHANGED work
    BY <1>4, StartEffect
  <2>2. Eligible' = Eligible
    BY <2>1 DEF Eligible, LatestOf, work
  <2>3. rounds'[q].status = "active"
    BY <2>1
  <2> QED  BY <2>1, <2>2, <2>3 DEF Active
<1>5. ASSUME NEW v \in views, TakeOver(v)
      PROVE  admitted' = admitted
  BY <1>5 DEF TakeOver
<1> QED  BY <1>1, <1>2, <1>3, <1>4, <1>5, AdmissionSteps

\* What is available is the latest attempt of its task, without an outcome.
LEMMA EligibleIsLatest ==
  ASSUME NEW a \in Eligible
  PROVE  a \in Attempts /\ a[2] = latest[a[1]] /\ outcome[a] = "none"
  BY DEF Eligible, LatestOf

\* Attempts are numbered upwards, and no outcome is taken back.
LEMMA HistoryGrows ==
  ASSUME RoundTypeOK, OneRunning, ResolvedOnce, [RoundNext]_roundVars
  PROVE  /\ \A t \in Tasks : latest[t] <= latest'[t]
         /\ \A a \in Attempts, r \in Rounds :
              stage[r][a] = "resolved" => stage'[r][a] = "resolved"
         /\ \A a \in Attempts, r \in Rounds :
              stage'[r][a] = "resolved" => stage[r][a] = "resolved" \/ a \in admitted[r]
         /\ \A a \in Attempts : outcome'[a] # outcome[a] =>
              \E r \in ActiveRounds : /\ stage'[r][a] = "resolved"
                                      /\ rounds[r].day \in OpenDays /\ rounds' = rounds
<1>1. ASSUME NEW t \in Tasks
      PROVE  latest[t] <= latest'[t]
  <2>1. latest \in [Tasks -> 0..MaxAttempts]
    BY DEF RoundTypeOK
  <2>2. CASE UNCHANGED latest
    BY <2>1, <2>2
  <2>3. ASSUME NEW u \in Tasks, ReceiveTask(u) \/ ReceivePieces(u)
        PROVE  latest[t] <= latest'[t]
    BY <2>1, <2>3 DEF ReceiveTask, ReceivePieces
  <2>4. ASSUME NEW v \in views, NEW u \in Tasks, Retry(v, u)
        PROVE  latest[t] <= latest'[t]
    BY <2>1, <2>4 DEF Retry
  <2>5. ASSUME NEW v \in views, NEW a \in Attempts,
               NEW result \in {"delivered", "undelivered"}, RecordOutcome(v, a, result)
        PROVE  latest[t] <= latest'[t]
    BY <2>1, <2>5 DEF RecordOutcome
  <2> QED  BY <2>2, <2>3, <2>4, <2>5, HistorySteps
<1>2. ASSUME outcome' = outcome,
             \A r \in Rounds, a \in Attempts :
               stage'[r][a] = "resolved" <=> stage[r][a] = "resolved"
      PROVE  /\ \A a \in Attempts, r \in Rounds :
                  stage[r][a] = "resolved" => stage'[r][a] = "resolved"
             /\ \A a \in Attempts, r \in Rounds :
                  stage'[r][a] = "resolved" => stage[r][a] = "resolved" \/ a \in admitted[r]
             /\ \A a \in Attempts : outcome'[a] = outcome[a]
  BY <1>2
<1>3. ASSUME NEW v \in views, NEW a \in Attempts, NEW result \in {"delivered", "undelivered"},
             RecordOutcome(v, a, result)
      PROVE  /\ \A b \in Attempts, r \in Rounds :
                  stage[r][b] = "resolved" => stage'[r][b] = "resolved"
             /\ \A b \in Attempts, r \in Rounds :
                  stage'[r][b] = "resolved" => stage[r][b] = "resolved" \/ b \in admitted[r]
             /\ \A b \in Attempts : outcome'[b] # outcome[b] =>
                  \E r \in ActiveRounds : /\ stage'[r][b] = "resolved"
                                          /\ rounds[r].day \in OpenDays /\ rounds' = rounds
  <2>1. /\ v.round \in Rounds /\ Active(v.round) /\ day[rounds[v.round].day] = "open"
        /\ a \in admitted[v.round] /\ rounds' = rounds
        /\ stage' = [stage EXCEPT ![v.round][a] = "resolved"]
        /\ outcome' = [outcome EXCEPT ![a] = result]
    BY <1>3, ViewTypes DEF RecordOutcome, MayRecordOutcome, Running, Executable, ownership
  <2>2. /\ stage'[v.round][a] = "resolved"
        /\ \A b \in Attempts, r \in Rounds :
             r # v.round \/ b # a => stage'[r][b] = stage[r][b]
        /\ \A b \in Attempts : b # a => outcome'[b] = outcome[b]
    BY <2>1 DEF RoundTypeOK
  <2>3. v.round \in ActiveRounds /\ rounds[v.round].day \in OpenDays
    BY <2>1 DEF OneRunning, ActiveRounds
  <2> QED  BY <2>1, <2>2, <2>3
<1> QED  BY <1>1, <1>2, <1>3, ResolutionSteps

\* Beside a start, no round changes its day, runs again or opens a day.
LEMMA DaysStay ==
  ASSUME RoundTypeOK, [RoundNext]_roundVars, \A d \in Devices : ~Start(d)
  PROVE  /\ \A r \in Rounds : /\ rounds'[r].day = rounds[r].day
                              /\ rounds'[r].status = "unused" => rounds[r].status = "unused"
                              /\ Active(r)' => Active(r)
         /\ \A n \in Days : /\ day'[n] = "open" => day[n] = "open"
                            /\ day[n] # "none" => day'[n] # "none"
<1>1. CASE UNCHANGED ownership
  BY <1>1 DEF ownership, Active
<1>2. ASSUME NEW v \in views, TakeOver(v)
      PROVE  /\ \A r \in Rounds : /\ rounds'[r].day = rounds[r].day
                                  /\ rounds'[r].status = "unused" => rounds[r].status = "unused"
                                  /\ Active(r)' => Active(r)
             /\ day' = day
  BY <1>2, TakeOverEffect DEF Active
<1>3. ASSUME NEW v \in views, EndRound(v) \/ EndWorkday(v)
      PROVE  /\ \A r \in Rounds : /\ rounds'[r].day = rounds[r].day
                                  /\ rounds'[r].status = "unused" => rounds[r].status = "unused"
                                  /\ Active(r)' => Active(r)
             /\ \A n \in Days : /\ day'[n] = "open" => day[n] = "open"
                                /\ day[n] # "none" => day'[n] # "none"
  <2>1. \A r \in Rounds : /\ rounds'[r].day = rounds[r].day
                          /\ rounds'[r].status \in {rounds[r].status, "ended"}
    BY <1>3, ClosureEffect
  <2>2. \A n \in Days : day'[n] \in {day[n], "ended"}
    BY <1>3, ClosureEffect DEF RoundTypeOK
  <2> QED  BY <2>1, <2>2 DEF Active
<1> QED  BY <1>1, <1>2, <1>3, OwnershipSteps

\* A start writes one row and opens its day.
LEMMA StartRows ==
  ASSUME RoundTypeOK, NEW d \in Devices, Start(d)
  PROVE  \E q \in Rounds, n \in Days, g \in Nat :
           /\ rounds'[q] = [status |-> "active", day |-> n, device |-> d,
                            generation |-> g, transferred |-> FALSE]
           /\ \A p \in Rounds \ {q} : rounds'[p] = rounds[p]
           /\ \A m \in Days \ {n} : day'[m] = day[m]
           /\ day'[n] = "open"
  BY StartEffect, ZenonT(30)

\* Settled attempts are admitted, and admissions lie in rounds of days begun.
LEMMA AdmittedFirstKept ==
  ASSUME RoundInv, RoundInv', AdmittedFirst, [RoundNext]_roundVars
  PROVE  AdmittedFirst'
<1>0. RoundTypeOK /\ OneRunning /\ ResolvedOnce /\ RoundTypeOK'
  BY DEF RoundInv
<1>1. ASSUME NEW r \in Rounds
      PROVE  admitted[r] \subseteq admitted'[r]
  <2>1. rounds[r].status = "unused" => admitted[r] = {}
    BY DEF AdmittedFirst
  <2> QED  BY <1>0, <2>1, AdmissionGrowth
<1>2. ASSUME NEW r \in Rounds, NEW a \in Attempts, stage'[r][a] = "resolved"
      PROVE  a \in admitted'[r]
  <2>1. a \in admitted[r]
    BY <1>0, <1>2, HistoryGrows DEF AdmittedFirst
  <2> QED  BY <1>1, <2>1
<1>3. ASSUME NEW r \in Rounds, NEW a \in admitted'[r]
      PROVE  a[2] <= latest'[a[1]]
  <2>1. a \in Attempts /\ a[1] \in Tasks /\ a[2] \in Nat
    BY <1>0, ExecutionAssumption DEF RoundTypeOK, Attempts
  <2>2. latest[a[1]] \in Nat /\ latest'[a[1]] \in Nat /\ latest[a[1]] <= latest'[a[1]]
    BY <1>0, <2>1, HistoryGrows DEF RoundTypeOK
  <2>3. CASE a \in admitted[r]
    BY <2>1, <2>2, <2>3 DEF AdmittedFirst
  <2>4. CASE a \in Eligible'
    BY <2>1, <2>2, <2>4 DEF Eligible, LatestOf
  <2> QED  BY <1>0, <2>3, <2>4, AdmissionGrowth
<1>4. ASSUME NEW r \in Rounds, rounds'[r].status = "unused"
      PROVE  admitted'[r] = {}
  <2>1. rounds[r].status = "unused"
    BY <1>0, <1>4, DaysStay, StartEffect
  <2>2. ~Active(r)'
    BY <1>4 DEF Active
  <2> QED  BY <1>0, <2>1, <2>2, AdmissionGrowth DEF AdmittedFirst
<1>5. ASSUME NEW r \in Rounds, rounds'[r].day \in Days
      PROVE  day'[rounds'[r].day] # "none"
  <2>1. CASE \A d \in Devices : ~Start(d)
    BY <1>0, <1>5, <2>1, DaysStay DEF AdmittedFirst
  <2>2. ASSUME NEW d \in Devices, Start(d)
        PROVE  day'[rounds'[r].day] # "none"
    <3>1. PICK q \in Rounds, n \in Days, g \in Nat :
            /\ rounds'[q] = [status |-> "active", day |-> n, device |-> d,
                             generation |-> g, transferred |-> FALSE]
            /\ \A p \in Rounds \ {q} : rounds'[p] = rounds[p]
            /\ \A m \in Days \ {n} : day'[m] = day[m]
            /\ day'[n] = "open"
      BY <1>0, <2>2, StartRows
    <3>2. rounds'[q].day = n
      BY <3>1
    <3>3. rounds[r].day \in Days => day[rounds[r].day] # "none"
      BY DEF AdmittedFirst
    <3> QED  BY <1>5, <3>1, <3>2, <3>3
  <2> QED  BY <2>1, <2>2
<1> QED  BY <1>2, <1>3, <1>4, <1>5 DEF AdmittedFirst

\* A retry in a running round is admitted to it at once.
LEMMA RetryIsAdmitted ==
  ASSUME RoundTypeOK, LatestOpen, NEW v \in views, NEW t \in Tasks, Retry(v, t),
         ExecutionAssumption, NEW r \in Rounds, Active(r)'
  PROVE  <<t, latest'[t]>> \in admitted'[r]
<1>1. /\ latest'[t] = latest[t] + 1 /\ latest[t] < MaxAttempts /\ latest[t] \in Nat
      /\ stop'[t] = "remaining" /\ deferral'[t] = "none" /\ outcome' = outcome
      /\ AdmitActiveWork
  BY DEF Retry, RoundTypeOK
<1>2. <<t, latest[t] + 1>> \in Attempts
  BY <1>1 DEF Attempts, ExecutionAssumption
<1>3. outcome[<<t, latest[t] + 1>>] = "none"
  BY <1>1, <1>2 DEF LatestOpen
<1>4. <<t, latest'[t]>> \in Eligible'
  BY <1>1, <1>2, <1>3 DEF Eligible, LatestOf
<1> QED  BY <1>1, <1>4, AdmitGrows

\* The latest attempt of an admitted task stays admitted while the round runs.
LEMMA LatestAdmitted ==
  ASSUME RoundTypeOK, LatestOpen, AdmittedFirst, ExecutionAssumption, [RoundNext]_roundVars,
         NEW r \in Rounds, Active(r)', NEW a \in admitted[r],
         <<a[1], latest[a[1]]>> \in admitted[r], admitted[r] \subseteq admitted'[r]
  PROVE  <<a[1], latest'[a[1]]>> \in admitted'[r]
<1>1. a[1] \in Tasks /\ a[2] \in 1..MaxAttempts /\ a[2] <= latest[a[1]]
  <2>1. a \in Attempts
    BY DEF RoundTypeOK
  <2> QED  BY <2>1 DEF Attempts, AdmittedFirst
<1>2. CASE UNCHANGED latest
  BY <1>2
<1>3. ASSUME NEW t \in Tasks, ReceiveTask(t)
      PROVE  latest'[a[1]] = latest[a[1]]
  BY <1>1, <1>3 DEF ReceiveTask, RoundTypeOK, ExecutionAssumption
<1>4. ASSUME NEW t \in Tasks, ReceivePieces(t)
      PROVE  UNCHANGED latest
  BY <1>4 DEF ReceivePieces
<1>5. ASSUME NEW v \in views, NEW b \in Attempts, NEW result \in {"delivered", "undelivered"},
             RecordOutcome(v, b, result)
      PROVE  UNCHANGED latest
  BY <1>5 DEF RecordOutcome
<1>6. ASSUME NEW v \in views, NEW t \in Tasks, Retry(v, t)
      PROVE  <<a[1], latest'[a[1]]>> \in admitted'[r]
  <2>1. CASE t = a[1]
    BY <1>6, <2>1, RetryIsAdmitted
  <2>2. CASE t # a[1]
    BY <1>1, <1>6, <2>2 DEF Retry, RoundTypeOK
  <2> QED  BY <2>1, <2>2
<1> QED  BY <1>2, <1>3, <1>4, <1>5, <1>6, HistorySteps

\* What the running round admitted stays settled in it, and retried.
LEMMA RunningSettlesKept ==
  ASSUME RoundInv, RoundInv', AdmittedFirst, RunningSettles, [RoundNext]_roundVars
  PROVE  RunningSettles'
<1>0. /\ RoundTypeOK /\ OneRunning /\ ResolvedOnce /\ LatestOpen
      /\ RoundTypeOK' /\ OneRunning'
  BY DEF RoundInv
<1> SUFFICES ASSUME NEW r \in ActiveRounds', NEW a \in admitted'[r]
             PROVE  /\ outcome'[a] # "none" => stage'[r][a] = "resolved"
                    /\ <<a[1], latest'[a[1]]>> \in admitted'[r]
  BY DEF RunningSettles, LatestOf
<1>1. r \in Rounds /\ Active(r)' /\ a \in Attempts
  BY <1>0 DEF ActiveRounds, RoundTypeOK
<1>2. CASE a \in Eligible'
  BY <1>2 DEF Eligible, LatestOf
<1>3. CASE a \notin Eligible'
  <2>1. a \in admitted[r] /\ rounds[r].status # "unused"
    BY <1>0, <1>1, <1>3, AdmissionGrowth DEF AdmittedFirst
  <2>2. Active(r)
    <3>1. ASSUME NEW d \in Devices, Start(d)
          PROVE  Active(r)
      <4>1. PICK q \in Rounds : /\ rounds[q].status = "unused"
                                /\ \A p \in Rounds \ {q} : rounds'[p] = rounds[p]
        BY <1>0, <3>1, StartEffect
      <4> QED  BY <1>1, <2>1, <4>1 DEF Active
    <3> QED  BY <1>0, <1>1, <3>1, DaysStay
  <2>3. /\ outcome[a] # "none" => stage[r][a] = "resolved"
        /\ <<a[1], latest[a[1]]>> \in admitted[r]
    BY <1>1, <2>1, <2>2 DEF RunningSettles, ActiveRounds, LatestOf
  <2>4. admitted[r] \subseteq admitted'[r]
    BY <1>0, <1>1, <2>1, AdmissionGrowth
  <2>5. <<a[1], latest'[a[1]]>> \in admitted'[r]
    BY <1>0, <1>1, <2>1, <2>3, <2>4, LatestAdmitted, ExecutionAssumption
  <2>6. CASE outcome[a] # "none"
    <3>1. stage'[r][a] = "resolved"
      BY <1>0, <1>1, <2>3, <2>6, HistoryGrows
    <3> QED  BY <2>5, <3>1
  <2>7. CASE outcome'[a] # outcome[a]
    <3>1. PICK q \in ActiveRounds : stage'[q][a] = "resolved" /\ rounds' = rounds
      BY <1>0, <1>1, <2>7, HistoryGrows
    <3>2. q \in Rounds /\ q \in ActiveRounds'
      BY <3>1 DEF ActiveRounds, Active
    <3>3. q = r
      <4> SUFFICES ASSUME q # r PROVE FALSE
        OBVIOUS
      <4>1. /\ rounds'[q].generation < rounds'[r].generation
            /\ rounds'[r].generation < rounds'[q].generation
        BY <1>0, <1>1, <3>2 DEF OneRunning
      <4> QED  BY <1>0, <1>1, <3>2, <4>1 DEF RoundTypeOK
    <3> QED  BY <2>5, <3>1, <3>3
  <2> QED  BY <2>5, <2>6, <2>7
<1> QED  BY <1>2, <1>3

\* A start adds its round to the open day, or opens a day without rounds.
LEMMA DayOfStart ==
  ASSUME RoundInv, AdmittedFirst, NEW d \in Devices, Start(d)
  PROVE  \E r \in Rounds, n \in Days :
           /\ OpenDays' = {n} /\ admitted'[r] = Eligible /\ Eligible' = Eligible
           /\ \A q \in Rounds \ {r} : admitted'[q] = admitted[q]
           /\ DayRounds(n)' = DayRounds(n) \cup {r}
           /\ DayRounds(n) # {} => n \in OpenDays
           /\ UNCHANGED <<work, activity>>
<1>0. RoundTypeOK /\ OneRunning
  BY DEF RoundInv
<1>1. PICK r \in Rounds, n \in Days, g \in Nat :
        /\ rounds'[r] = [status |-> "active", day |-> n, device |-> d,
                         generation |-> g, transferred |-> FALSE]
        /\ \A q \in Rounds \ {r} : rounds'[q] = rounds[q]
        /\ OpenDays' = {n} \cup OpenDays /\ (OpenDays # {} => n \in OpenDays)
        /\ day[n] # "ended"
        /\ admitted'[r] = Eligible /\ \A q \in Rounds \ {r} : admitted'[q] = admitted[q]
        /\ UNCHANGED <<work, activity>>
  BY <1>0, StartEffect
<1>2. OpenDays' = {n}
  BY <1>0, <1>1 DEF OneRunning
<1>3. Eligible' = Eligible
  BY <1>1 DEF Eligible, LatestOf, work
<1>4. rounds'[r].day = n
  BY <1>1
<1>5. DayRounds(n)' = DayRounds(n) \cup {r}
  BY <1>1, <1>4 DEF DayRounds
<1>6. ASSUME DayRounds(n) # {}
      PROVE  n \in OpenDays
  <2>1. PICK q \in Rounds : rounds[q].day = n
    BY <1>6 DEF DayRounds
  <2>2. day[n] # "none"
    BY <2>1 DEF AdmittedFirst
  <2> QED  BY <1>0, <1>1, <2>2 DEF OpenDays, RoundTypeOK
<1> QED  BY <1>1, <1>2, <1>3, <1>5, <1>6

\* The open day has the last attempts, and settles its own.
LEMMA OpenDayKept ==
  ASSUME RoundInv, RoundInv', AdmittedFirst, AdmittedFirst', OpenDayIsLast,
         [RoundNext]_roundVars
  PROVE  OpenDayIsLast'
<1>0. RoundTypeOK /\ OneRunning /\ ResolvedOnce /\ RoundTypeOK' /\ OneRunning'
  BY DEF RoundInv
<1>a. \A p \in Rounds : admitted'[p] \subseteq Attempts
  BY <1>0 DEF RoundTypeOK
<1> SUFFICES ASSUME NEW n \in OpenDays', NEW r \in DayRounds(n)', NEW a \in admitted'[r]
             PROVE  /\ outcome'[a] # "none" => a \in RecordedIn(DayRounds(n))'
                    /\ \A q \in Rounds \ DayRounds(n)' : \A b \in admitted'[q] :
                         b[1] = a[1] => b[2] <= a[2]
  BY DEF OpenDayIsLast
<1>1. n \in Days /\ r \in Rounds /\ a \in Attempts /\ rounds'[r].day = n
  BY <1>a DEF OpenDays, DayRounds
<1>2. CASE a \in Eligible'
  <2>1. outcome'[a] = "none" /\ a[2] = latest'[a[1]]
    BY <1>2 DEF Eligible, LatestOf
  <2>2. \A q \in Rounds : \A b \in admitted'[q] : b[1] = a[1] => b[2] <= a[2]
    BY <2>1 DEF AdmittedFirst
  <2> QED  BY <2>1, <2>2
<1>3. CASE a \notin Eligible'
  <2>1. a \in admitted[r] /\ rounds[r].status # "unused"
    BY <1>0, <1>1, <1>3, AdmissionGrowth DEF AdmittedFirst
  <2>2. r \in DayRounds(n) /\ n \in OpenDays /\ DayRounds(n) \subseteq DayRounds(n)'
    <3>1. CASE \A d \in Devices : ~Start(d)
      <4>1. DayRounds(n)' = DayRounds(n)
        BY <1>0, <3>1, DaysStay DEF DayRounds
      <4>2. n \in OpenDays
        BY <1>0, <1>1, <3>1, DaysStay DEF OpenDays
      <4> QED  BY <4>1, <4>2
    <3>2. ASSUME NEW d \in Devices, Start(d)
          PROVE  r \in DayRounds(n) /\ n \in OpenDays /\ DayRounds(n) \subseteq DayRounds(n)'
      <4>1. PICK p \in Rounds, m \in Days :
              /\ OpenDays' = {m} /\ admitted'[p] = Eligible /\ Eligible' = Eligible
              /\ DayRounds(m)' = DayRounds(m) \cup {p}
              /\ DayRounds(m) # {} => m \in OpenDays
        BY <3>2, DayOfStart
      <4>2. m = n /\ r # p
        BY <1>3, <4>1
      <4>3. r \in DayRounds(n)
        BY <4>1, <4>2
      <4> QED  BY <4>1, <4>2, <4>3
    <3> QED  BY <3>1, <3>2
  <2>3. ASSUME outcome'[a] # "none"
        PROVE  a \in RecordedIn(DayRounds(n))'
    <3>1. CASE outcome[a] # "none"
      <4>1. PICK q \in DayRounds(n) : stage[q][a] = "resolved"
        BY <1>1, <2>1, <2>2, <3>1 DEF OpenDayIsLast, RecordedIn
      <4>2. q \in Rounds /\ stage'[q][a] = "resolved"
        BY <1>0, <1>1, <4>1, HistoryGrows DEF DayRounds
      <4> QED  BY <1>1, <2>2, <4>1, <4>2 DEF RecordedIn
    <3>2. CASE outcome[a] = "none"
      <4>1. outcome'[a] # outcome[a]
        BY <2>3, <3>2
      <4>2. PICK q \in ActiveRounds : stage'[q][a] = "resolved" /\ rounds[q].day \in OpenDays
        BY <1>0, <1>1, <4>1, HistoryGrows
      <4>3. rounds[q].day = n /\ q \in Rounds
        BY <1>0, <2>2, <4>2 DEF OneRunning, ActiveRounds
      <4>4. q \in DayRounds(n)'
        BY <2>2, <4>3 DEF DayRounds
      <4> QED  BY <1>1, <4>2, <4>4 DEF RecordedIn
    <3> QED  BY <3>1, <3>2
  <2>4. ASSUME NEW q \in Rounds \ DayRounds(n)', NEW b \in admitted'[q], b[1] = a[1]
        PROVE  b[2] <= a[2]
    <3>1. ~Active(q)'
      <4>1. rounds'[q].day # n
        BY <2>4 DEF DayRounds
      <4> QED  BY <1>0, <4>1 DEF OneRunning, ActiveRounds
    <3>2. b \in admitted[q]
      BY <1>0, <3>1, AdmissionGrowth
    <3>3. q \in Rounds \ DayRounds(n)
      BY <2>2
    <3> QED  BY <2>1, <2>2, <2>4, <3>2, <3>3 DEF OpenDayIsLast
  <2> QED  BY <2>3, <2>4
<1> QED  BY <1>2, <1>3

\* The reads of a driver's work keep their invariant.
THEOREM ReadsInvariant == RoundSpec => []ReadsInv
<1> USE ExecutionAssumption
<1>1. RoundInit => ReadsInv
  <2> SUFFICES ASSUME RoundInit PROVE ReadsInv
    OBVIOUS
  <2>1. RoundInv
    BY InitInv
  <2>2. AdmittedFirst
    <3>1. NoDay \notin Days
      BY FS_CardinalityType DEF NoDay, ExecutionAssumption
    <3> QED  BY <3>1 DEF RoundInit, AdmittedFirst, Unused
  <2>3. RunningSettles /\ OpenDayIsLast
    BY DEF RoundInit, RunningSettles, OpenDayIsLast, ActiveRounds, Active, Unused, OpenDays
  <2> QED  BY <2>1, <2>2, <2>3 DEF ReadsInv
<1>2. ReadsInv /\ RoundInv' /\ [RoundNext]_roundVars => ReadsInv'
  <2> SUFFICES ASSUME ReadsInv, RoundInv', [RoundNext]_roundVars PROVE ReadsInv'
    OBVIOUS
  <2>1. RoundInv /\ AdmittedFirst /\ RunningSettles /\ OpenDayIsLast
    BY DEF ReadsInv
  <2>2. AdmittedFirst'
    BY <2>1, AdmittedFirstKept
  <2>3. RunningSettles' /\ OpenDayIsLast'
    BY <2>1, <2>2, RunningSettlesKept, OpenDayKept
  <2> QED  BY <2>2, <2>3 DEF ReadsInv
<1> QED  BY <1>1, <1>2, RoundInvariant, PTL DEF RoundSpec

-----------------------------------------------------------------------------
\* Under the invariant, the report and the summary count the same.
LEMMA SameDays ==
  ASSUME RoundTypeOK, AdmittedFirst
  PROVE  DaysAgree
<1> SUFFICES ASSUME NEW n \in Days PROVE Report(DayRounds(n)) = Summary(n)
  BY DEF DaysAgree
<1> DEFINE R == DayRounds(n)
<1>1. R \subseteq Rounds
  BY DEF DayRounds
<1>2. ASSUME NEW a \in Attempts, NEW r \in R, stage[r][a] = "resolved"
      PROVE  a \in admitted[r] /\ admitted[r] # {}
  BY <1>1, <1>2 DEF AdmittedFirst
<1> HIDE DEF R
<1>3. Outcomes(AdmittedIn(R), R) = RecordedIn(R)
  BY <1>2 DEF Outcomes, RecordedIn, AdmittedIn
<1>4. Report(R) = Counts(AdmittedIn(R), RecordedIn(R))
  BY <1>3 DEF Report
<1> QED  BY <1>4 DEF Summary, R

\* A settled attempt has an outcome, and an outcome comes from a settlement.
LEMMA SettledHasOutcome ==
  ASSUME ResolvedOnce, NEW a \in Attempts
  PROVE  /\ \A r \in Rounds : stage[r][a] = "resolved" => outcome[a] # "none"
         /\ outcome[a] # "none" => \E r \in Rounds : stage[r][a] = "resolved"
  BY DEF ResolvedOnce

\* While a round runs, what it admitted has its outcomes there.
LEMMA SameRound ==
  ASSUME RoundTypeOK, ResolvedOnce, LatestOpen, AdmittedFirst, RunningSettles,
         NEW r \in ActiveRounds
  PROVE  {a \in admitted[r] : outcome[a] # "none"} = RecordedIn({r})
<1>1. r \in Rounds /\ admitted[r] \subseteq Attempts
  BY DEF ActiveRounds, RoundTypeOK
<1>2. ASSUME NEW a \in Attempts
      PROVE  stage[r][a] = "resolved" <=> a \in admitted[r] /\ outcome[a] # "none"
  BY <1>1, SettledHasOutcome DEF AdmittedFirst, RunningSettles
<1> QED  BY <1>1, <1>2 DEF RecordedIn

\* The results the driver sees are the last of the round, which are the latest.
LEMMA ItemsAreProgress ==
  ASSUME RoundTypeOK, ResolvedOnce, AdmittedFirst, RunningSettles, ExecutionAssumption,
         NEW r \in ActiveRounds,
         {a \in admitted[r] : outcome[a] # "none"} = RecordedIn({r})
  PROVE  OutcomeItems(r) = Progress(r).full \cup Progress(r).failed
<1>0. /\ \A a \in Attempts : a[1] \in Tasks /\ a[2] \in Nat /\ a = <<a[1], a[2]>>
      /\ \A t \in Tasks : latest[t] \in Nat
  BY DEF RoundTypeOK, Attempts, ExecutionAssumption
<1>1. r \in Rounds /\ admitted[r] \subseteq Attempts /\ RecordedIn({r}) \subseteq admitted[r]
  BY DEF ActiveRounds, RoundTypeOK
<1>2. Progress(r).full \cup Progress(r).failed = LastAttempts(admitted[r]) \cap RecordedIn({r})
  <2>1. /\ Progress(r).full = {a \in LastAttempts(admitted[r]) \cap RecordedIn({r}) :
                                 outcome[a] = "delivered"}
        /\ Progress(r).failed = {a \in LastAttempts(admitted[r]) \cap RecordedIn({r}) :
                                 outcome[a] = "undelivered"}
    BY DEF Progress, Counts
  <2>2. \A a \in RecordedIn({r}) : outcome[a] \in {"delivered", "undelivered"}
    BY <1>1 DEF RoundTypeOK
  <2> QED  BY <2>1, <2>2
<1>3. ASSUME NEW a \in RecordedIn({r})
      PROVE  a = LatestOf(a[1]) <=> a \in LastAttempts(admitted[r])
  <2>1. a \in admitted[r] /\ a \in Attempts
    BY <1>1
  <2>2. ASSUME a = LatestOf(a[1])
        PROVE  a \in LastAttempts(admitted[r])
    <3>1. a[2] = latest[a[1]]
      BY <2>2 DEF LatestOf
    <3> QED  BY <1>1, <2>1, <3>1 DEF LastAttempts, AdmittedFirst
  <2>3. ASSUME a \in LastAttempts(admitted[r])
        PROVE  a = LatestOf(a[1])
    <3>1. LatestOf(a[1]) \in admitted[r]
      BY <2>1 DEF RunningSettles
    <3>2. latest[a[1]] <= a[2]
      BY <2>3, <3>1 DEF LastAttempts, LatestOf
    <3>3. a[2] <= latest[a[1]]
      BY <1>1, <2>1 DEF AdmittedFirst
    <3> QED  BY <1>0, <2>1, <3>2, <3>3 DEF LatestOf
  <2> QED  BY <2>2, <2>3
<1> QED  BY <1>1, <1>2, <1>3 DEF OutcomeItems

\* The planner, the carry-forward, monitoring and the driver's page agree on the
\* work that can be done now.
LEMMA SameWork ==
  ASSUME RoundTypeOK, LatestOpen, WorkIsAdmitted, AdmittedFirst, ExecutionAssumption
  PROVE  WorkListsAgree
<1>0. \A a \in Attempts : a[1] \in Tasks /\ a[2] \in Nat \ {0} /\ a = <<a[1], a[2]>>
  BY DEF Attempts, ExecutionAssumption
<1>1. \A a \in Eligible : a \in Attempts /\ a[1] \notin received
  <2>1. ASSUME NEW a \in Eligible
        PROVE  a \in Attempts /\ a = LatestOf(a[1]) /\ outcome[a] = "none"
    BY DEF Eligible
  <2> QED  BY <2>1 DEF LatestOpen
<1>2. EligibleNow = Eligible
  <2>1. ASSUME NEW a \in Eligible
        PROVE  a \in EligibleNow
    <3>1. a[1] \in Tasks /\ a = LatestOf(a[1]) /\ latest[a[1]] > 0
      <4>1. a = LatestOf(a[1]) /\ a \in Attempts
        BY DEF Eligible
      <4>2. a[2] = latest[a[1]]
        BY <4>1 DEF LatestOf
      <4> QED  BY <1>0, <4>1, <4>2
    <3>2. Carried(a[1]) /\ Blocker(a[1]) = "none"
      BY <1>1, <3>1 DEF Eligible, Carried, Blocker
    <3> QED  BY <3>1, <3>2 DEF EligibleNow
  <2>2. ASSUME NEW t \in Tasks, Carried(t), Blocker(t) = "none"
        PROVE  LatestOf(t) \in Eligible
    <3>1. latest[t] \in 1..MaxAttempts
      BY <2>2 DEF Carried, RoundTypeOK, ExecutionAssumption
    <3>2. LatestOf(t) \in Attempts /\ LatestOf(t)[1] = t
      BY <3>1 DEF Attempts, LatestOf
    <3>3. outcome[LatestOf(t)] = "none" /\ deferral[t] = "none" /\ stop[t] = "remaining"
      BY <2>2 DEF Blocker
    <3> QED  BY <3>2, <3>3 DEF Eligible
  <2> QED  BY <2>1, <2>2 DEF EligibleNow
<1>3. ASSUME NEW r \in ActiveRounds
      PROVE  /\ Targets(r) = Eligible /\ MonitorEligible(r) = Eligible
             /\ MonitorNext(r) = CurrentNext(r)
             /\ visit = NoVisit => Targets(r) = {a \in Attempts : Executable(r, a)}
  <2>1. r \in Rounds /\ rounds[r].status = "active" /\ Eligible \subseteq admitted[r]
    BY DEF ActiveRounds, Active, WorkIsAdmitted
  <2>2. Targets(r) = Eligible
    BY <2>1 DEF Targets
  <2>3. MonitorEligible(r) = Eligible
    <3>1. ASSUME NEW a \in Eligible
          PROVE  a \in LastAttempts(admitted[r])
      <4>1. a[2] = latest[a[1]] /\ a \in admitted[r]
        BY <2>1, EligibleIsLatest
      <4> QED  BY <2>1, <4>1 DEF LastAttempts, AdmittedFirst
    <3>2. LastAttempts(admitted[r]) \subseteq Attempts
      BY <2>1 DEF LastAttempts, RoundTypeOK
    <3>3. MonitorEligible(r) \subseteq Eligible
      BY <3>2 DEF MonitorEligible, Eligible
    <3>4. Eligible \subseteq MonitorEligible(r)
      BY <2>1, <3>1 DEF MonitorEligible, Eligible
    <3> QED  BY <3>3, <3>4
  <2>4. Eligible \cap admitted[r] = Eligible
    BY <2>1
  <2>5. MonitorNext(r) = CurrentNext(r)
    BY <2>2, <2>4 DEF MonitorNext, CurrentNext
  <2>6. visit = NoVisit => Eligible = {a \in Attempts : Executable(r, a)}
    BY <1>1, <2>1 DEF Executable
  <2> QED  BY <2>2, <2>3, <2>5, <2>6
<1> QED  BY <1>2, <1>3 DEF WorkListsAgree

\* What an open day shows is delivered, with the branch, or carried forward.
LEMMA NothingIsLost ==
  ASSUME RoundTypeOK, ResolvedOnce, LatestOpen, AdmittedFirst, OpenDayIsLast,
         ExecutionAssumption
  PROVE  NothingFallsOut
<1> SUFFICES ASSUME NEW n \in OpenDays, NEW a \in Summary(n).shipments
             PROVE  /\ a \in Summary(n).full \/ a[1] \in received \/ Carried(a[1])
                    /\ a \in Summary(n).unfinished => a = LatestOf(a[1]) /\ Carried(a[1])
  BY DEF NothingFallsOut
<1> DEFINE Day == DayRounds(n)
           Shown == LastAttempts(AdmittedIn(Day))
<1>1. /\ Summary(n).shipments = Shown
      /\ Summary(n).full = {b \in Shown \cap RecordedIn(Day) : outcome[b] = "delivered"}
      /\ Summary(n).unfinished = Shown \ RecordedIn(Day)
  BY DEF Summary, Counts
<1>2. PICK r \in Day : a \in admitted[r]
  BY <1>1 DEF LastAttempts, AdmittedIn
<1>3. r \in Rounds /\ a \in Attempts
  BY <1>2 DEF DayRounds, RoundTypeOK
<1>4. /\ a[1] \in Tasks /\ a[2] \in 1..MaxAttempts /\ a = <<a[1], a[2]>>
      /\ latest[a[1]] \in 0..MaxAttempts /\ a[2] <= latest[a[1]]
  <2>1. a[1] \in Tasks /\ a[2] \in 1..MaxAttempts /\ a = <<a[1], a[2]>>
    BY <1>3 DEF Attempts
  <2>2. a[2] <= latest[a[1]]
    BY <1>2, <1>3 DEF AdmittedFirst
  <2> QED  BY <2>1, <2>2 DEF RoundTypeOK
<1>5. latest[a[1]] > 0 /\ LatestOf(a[1]) \in Attempts
  BY <1>4 DEF LatestOf, Attempts, ExecutionAssumption
<1>6. CASE outcome[a] = "none"
  <2>1. ~(a[2] < latest[a[1]])
    BY <1>3, <1>6 DEF LatestOpen
  <2>2. a = LatestOf(a[1])
    BY <1>4, <2>1 DEF LatestOf, ExecutionAssumption
  <2> QED  BY <1>5, <1>6, <2>2 DEF Carried
<1>7. CASE outcome[a] # "none"
  <2>1. a \in RecordedIn(Day)
    BY <1>2, <1>7 DEF OpenDayIsLast
  <2>2. CASE outcome[a] = "delivered"
    BY <1>1, <2>1, <2>2
  <2>3. CASE outcome[a] = "undelivered"
    <3>1. outcome[LatestOf(a[1])] # "delivered"
      <4> SUFFICES ASSUME outcome[LatestOf(a[1])] = "delivered" PROVE FALSE
        OBVIOUS
      <4>1. PICK q \in Rounds : LatestOf(a[1]) \in admitted[q]
        BY <1>5, SettledHasOutcome DEF AdmittedFirst
      <4>2. LatestOf(a[1])[1] = a[1] /\ LatestOf(a[1])[2] = latest[a[1]]
        BY DEF LatestOf
      <4>3. latest[a[1]] <= a[2]
        <5>1. CASE q \in Day
          <6>1. LatestOf(a[1]) \in AdmittedIn(Day)
            BY <4>1, <5>1 DEF AdmittedIn
          <6> QED  BY <1>1, <4>2, <6>1 DEF LastAttempts
        <5>2. CASE q \notin Day
          BY <1>2, <4>1, <4>2, <5>2 DEF OpenDayIsLast
        <5> QED  BY <5>1, <5>2
      <4>4. a = LatestOf(a[1])
        BY <1>4, <4>3 DEF LatestOf, ExecutionAssumption
      <4> QED  BY <2>3, <4>4
    <3>2. outcome[LatestOf(a[1])] \in {"none", "undelivered"}
      BY <1>5, <3>1 DEF RoundTypeOK
    <3>3. a[1] \in received \/ Carried(a[1])
      BY <1>5, <3>2 DEF Carried
    <3> QED  BY <1>1, <2>1, <3>3
  <2> QED  BY <1>3, <1>7, <2>2, <2>3 DEF RoundTypeOK
<1> QED  BY <1>6, <1>7

\* The reads of the driver, the planner, monitoring and reporting agree.
THEOREM DriverReadsHold == RoundSpec => []DriverReadsAgree
<1>1. ReadsInv => DriverReadsAgree
  <2> SUFFICES ASSUME ReadsInv PROVE DriverReadsAgree
    OBVIOUS
  <2>1. /\ RoundTypeOK /\ ResolvedOnce /\ LatestOpen /\ WorkIsAdmitted
        /\ AdmittedFirst /\ RunningSettles /\ OpenDayIsLast
    BY DEF ReadsInv, RoundInv
  <2>2. DaysAgree
    BY <2>1, SameDays
  <2>3. RoundsAgree
    <3> SUFFICES ASSUME NEW r \in ActiveRounds
                 PROVE  /\ Progress(r) = Report({r})
                        /\ OutcomeItems(r) = Progress(r).full \cup Progress(r).failed
      BY DEF RoundsAgree
    <3>1. {a \in admitted[r] : outcome[a] # "none"} = RecordedIn({r})
      BY <2>1, SameRound
    <3>2. Progress(r) = Counts(admitted[r], RecordedIn({r}))
      BY <3>1 DEF Progress
    <3>3. AdmittedIn({r}) = admitted[r]
      BY DEF AdmittedIn
    <3>4. Report({r}) = Counts(admitted[r], Outcomes(admitted[r], {r}))
      BY <3>3 DEF Report
    <3>5. Outcomes(admitted[r], {r}) = RecordedIn({r})
      BY <3>1 DEF Outcomes, RecordedIn
    <3>6. OutcomeItems(r) = Progress(r).full \cup Progress(r).failed
      BY <2>1, <3>1, ItemsAreProgress, ExecutionAssumption
    <3> QED  BY <3>2, <3>4, <3>5, <3>6
  <2>4. WorkListsAgree
    BY <2>1, SameWork, ExecutionAssumption
  <2>5. NothingFallsOut
    BY <2>1, NothingIsLost, ExecutionAssumption
  <2> QED  BY <2>2, <2>3, <2>4, <2>5 DEF DriverReadsAgree
<1> QED  BY <1>1, ReadsInvariant, PTL
-----------------------------------------------------------------------------
(* What the pages of a driver offer.                                        *)

\* A task keeps what its stop follows from when nothing of it changes.
LEMMA StopStays ==
  ASSUME StopsFollow, NEW t \in Tasks,
         /\ latest'[t] = latest[t] /\ deferral'[t] = deferral[t] /\ stop'[t] = stop[t]
         /\ outcome'[LatestOf(t)] = outcome[LatestOf(t)]
  PROVE  /\ latest'[t] = 0 => deferral'[t] = "none"
         /\ latest'[t] > 0 /\ outcome'[<<t, latest'[t]>>] = "none" =>
              stop'[t] = IF deferral'[t] = "none" THEN "remaining" ELSE "paused"
  BY DEF StopsFollow, LatestOf

\* The stops of tasks change in seven ways.
LEMMA StopSteps ==
  ASSUME RoundTypeOK, [RoundNext]_roundVars
  PROVE  \/ UNCHANGED <<latest, outcome, stop, deferral>>
         \/ \E t \in Tasks : ReceiveTask(t) \/ Elapse(t)
         \/ \E v \in views : \E t \in Tasks : Retry(v, t) \/ Defer(v, t) \/ Activate(v, t)
         \/ \E v \in views : \E a \in Attempts : \E result \in {"delivered", "undelivered"} :
              RecordOutcome(v, a, result)
<1> DEFINE Same == UNCHANGED <<latest, outcome, stop, deferral>>
           Option == \E v \in views : \E t \in Tasks : Retry(v, t) \/ Defer(v, t) \/ Activate(v, t)
           Settle == \E v \in views : \E a \in Attempts :
                       \E result \in {"delivered", "undelivered"} : RecordOutcome(v, a, result)
<1>1. ASSUME NEW v \in views,
             \/ TakeOver(v) \/ EndRound(v) \/ EndWorkday(v) \/ BranchArrive(v) \/ BranchResume(v)
             \/ \E claims \in SUBSET Tasks : Interrupt(v, claims)
             \/ \E a \in Attempts : SelectHeading(v, a) \/ RecordArrival(v, a)
      PROVE  Same
  BY <1>1 DEF TakeOver, EndRound, EndWorkday, BranchArrive, BranchResume,
     Interrupt, SelectHeading, RecordArrival, work
<1>2. ASSUME DeviceNext PROVE Same
  <2>1. UNCHANGED work
    BY <1>2, StartEffect DEF DeviceNext, Prepare, ObserveDay, StartNothing, Download
  <2> QED  BY <2>1 DEF work
<1>3. ASSUME NEW t \in Tasks, ReceivePieces(t) PROVE Same
  BY <1>3 DEF ReceivePieces
<1>4. ASSUME UNCHANGED roundVars PROVE Same
  BY <1>4 DEF roundVars, work
<1> HIDE DEF Same
<1>5. ASSUME CommandNext PROVE Same \/ Option \/ Settle
  BY <1>1, <1>5 DEF CommandNext
<1> HIDE DEF Option, Settle
<1>6. \/ Same \/ Option \/ Settle
      \/ \E t \in Tasks : ReceiveTask(t) \/ Elapse(t)
  BY <1>2, <1>3, <1>4, <1>5 DEF RoundNext
<1> QED  BY <1>6 DEF Same, Option, Settle

\* Every step keeps the stops of the tasks in line with their attempts.
LEMMA StopsFollowKept ==
  ASSUME RoundTypeOK, LatestOpen, StopsFollow, ExecutionAssumption, [RoundNext]_roundVars
  PROVE  StopsFollow'
<1> SUFFICES ASSUME NEW u \in Tasks
             PROVE  /\ latest'[u] = 0 => deferral'[u] = "none"
                    /\ latest'[u] > 0 /\ outcome'[<<u, latest'[u]>>] = "none" =>
                         stop'[u] = IF deferral'[u] = "none" THEN "remaining" ELSE "paused"
  BY DEF StopsFollow, LatestOf
<1>1. ASSUME NEW t \in Tasks, ReceiveTask(t)
      PROVE  stop'[t] = "remaining" /\ deferral'[t] = "none" /\ latest'[t] = 1
  BY <1>1 DEF ReceiveTask, RoundTypeOK, StopsFollow
<1>2. ASSUME NEW v \in views, NEW t \in Tasks, Retry(v, t) \/ Defer(v, t) \/ Activate(v, t)
      PROVE  /\ latest'[t] > 0
             /\ outcome'[<<t, latest'[t]>>] = "none" =>
                  stop'[t] = IF deferral'[t] = "none" THEN "remaining" ELSE "paused"
  <2>1. CASE Retry(v, t) \/ Activate(v, t)
    BY <2>1 DEF Retry, Activate, MayRetry, MayActivate, Changing, RoundTypeOK
  <2>2. CASE Defer(v, t)
    BY <2>2 DEF Defer, Changing, LatestOf, RoundTypeOK
  <2> QED  BY <1>2, <2>1, <2>2
<1>3. ASSUME NEW t \in Tasks, Elapse(t)
      PROVE  /\ latest'[t] = 0 => deferral'[t] = "none"
             /\ latest'[t] > 0 /\ outcome'[<<t, latest'[t]>>] = "none" =>
                  stop'[t] = IF deferral'[t] = "none" THEN "remaining" ELSE "paused"
  BY <1>3 DEF Elapse, StopsFollow, RoundTypeOK, LatestOf
<1>4. ASSUME NEW v \in views, NEW a \in Attempts, NEW result \in {"delivered", "undelivered"},
             RecordOutcome(v, a, result)
      PROVE  /\ latest' = latest /\ deferral' = deferral
             /\ outcome'[<<a[1], latest[a[1]]>>] # "none" /\ latest[a[1]] > 0
             /\ \A t \in Tasks \ {a[1]} :
                  stop'[t] = stop[t] /\ outcome'[LatestOf(t)] = outcome[LatestOf(t)]
  <2>1. /\ a = <<a[1], latest[a[1]]>> /\ a[1] \in Tasks /\ a[2] \in 1..MaxAttempts
    BY <1>4 DEF RecordOutcome, MayRecordOutcome, Executable, Eligible, LatestOf, Attempts
  <2>2. /\ latest' = latest /\ deferral' = deferral
        /\ outcome' = [outcome EXCEPT ![a] = result]
        /\ stop' = [stop EXCEPT ![a[1]] = "completed"]
    BY <1>4 DEF RecordOutcome
  <2>3. outcome'[a] = result /\ \A b \in Attempts \ {a} : outcome'[b] = outcome[b]
    BY <2>2 DEF RoundTypeOK
  <2>4. latest[a[1]] > 0
    BY <2>1 DEF ExecutionAssumption
  <2>5. ASSUME NEW t \in Tasks \ {a[1]}
        PROVE  stop'[t] = stop[t] /\ outcome'[LatestOf(t)] = outcome[LatestOf(t)]
    <3>1. LatestOf(t) # a
      BY <2>1, <2>5 DEF LatestOf
    <3> QED  BY <2>2, <3>1 DEF RoundTypeOK
  <2> QED  BY <2>1, <2>2, <2>3, <2>4, <2>5
<1>5. CASE UNCHANGED <<latest, outcome, stop, deferral>>
  BY <1>5, StopStays
<1>6. CASE \E t \in Tasks : ReceiveTask(t) \/ Elapse(t)
  <2>1. PICK t \in Tasks : ReceiveTask(t) \/ Elapse(t)
    BY <1>6
  <2>2. CASE u = t
    BY <1>1, <1>3, <2>1, <2>2
  <2>3. CASE u # t
    <3>1. /\ latest'[u] = latest[u] /\ deferral'[u] = deferral[u] /\ stop'[u] = stop[u]
          /\ outcome'[LatestOf(u)] = outcome[LatestOf(u)]
      BY <2>1, <2>3 DEF ReceiveTask, Elapse, RoundTypeOK
    <3> QED  BY <3>1, StopStays
  <2> QED  BY <2>2, <2>3
<1>7. CASE \E v \in views : \E t \in Tasks : Retry(v, t) \/ Defer(v, t) \/ Activate(v, t)
  <2>1. PICK v \in views, t \in Tasks : Retry(v, t) \/ Defer(v, t) \/ Activate(v, t)
    BY <1>7
  <2>2. CASE u = t
    BY <1>2, <2>1, <2>2
  <2>3. CASE u # t
    <3>1. /\ latest'[u] = latest[u] /\ deferral'[u] = deferral[u] /\ stop'[u] = stop[u]
          /\ outcome'[LatestOf(u)] = outcome[LatestOf(u)]
      BY <2>1, <2>3 DEF Retry, Defer, Activate, RoundTypeOK
    <3> QED  BY <3>1, StopStays
  <2> QED  BY <2>2, <2>3
<1>8. CASE \E v \in views : \E a \in Attempts : \E result \in {"delivered", "undelivered"} :
             RecordOutcome(v, a, result)
  <2>1. PICK v \in views, a \in Attempts, result \in {"delivered", "undelivered"} :
          RecordOutcome(v, a, result)
    BY <1>8
  <2>2. CASE u = a[1]
    <3>1. latest'[u] > 0 /\ outcome'[<<u, latest'[u]>>] # "none"
      BY <1>4, <2>1, <2>2
    <3> QED  BY <3>1 DEF RoundTypeOK
  <2>3. CASE u # a[1]
    <3>1. /\ latest'[u] = latest[u] /\ deferral'[u] = deferral[u] /\ stop'[u] = stop[u]
          /\ outcome'[LatestOf(u)] = outcome[LatestOf(u)]
      BY <1>4, <2>1, <2>3
    <3> QED  BY <3>1, StopStays
  <2> QED  BY <2>2, <2>3
<1> QED  BY <1>5, <1>6, <1>7, <1>8, StopSteps

\* The visit of a branch changes by its own commands alone.
LEMMA VisitSteps ==
  ASSUME RoundTypeOK, [RoundNext]_roundVars
  PROVE  \/ UNCHANGED visit
         \/ \E v \in views : BranchArrive(v) \/ BranchResume(v)
         \/ \E v \in views : \E claims \in SUBSET Tasks : Interrupt(v, claims)
<1>1. ASSUME NEW v \in views,
             \/ TakeOver(v) \/ EndRound(v) \/ EndWorkday(v)
             \/ \E t \in Tasks : Retry(v, t) \/ Defer(v, t) \/ Activate(v, t)
             \/ \E a \in Attempts : SelectHeading(v, a) \/ RecordArrival(v, a)
      PROVE  UNCHANGED visit
  BY <1>1 DEF TakeOver, EndRound, EndWorkday, Retry, Defer, Activate, SelectHeading,
     RecordArrival, activity
<1>2. ASSUME NEW v \in views, NEW a \in Attempts, NEW result \in {"delivered", "undelivered"},
             RecordOutcome(v, a, result)
      PROVE  UNCHANGED visit
  BY <1>2 DEF RecordOutcome
<1>3. ASSUME DeviceNext PROVE UNCHANGED visit
  <2>1. UNCHANGED activity
    BY <1>3, StartEffect DEF DeviceNext, Prepare, ObserveDay, StartNothing, Download
  <2> QED  BY <2>1 DEF activity
<1>4. ASSUME NEW t \in Tasks, ReceiveTask(t) \/ Elapse(t) \/ ReceivePieces(t)
      PROVE  UNCHANGED visit
  BY <1>4 DEF ReceiveTask, Elapse, ReceivePieces, activity
<1>5. ASSUME UNCHANGED roundVars PROVE UNCHANGED visit
  BY <1>5 DEF roundVars, activity
<1> DEFINE Branch == \/ \E v \in views : BranchArrive(v) \/ BranchResume(v)
                     \/ \E v \in views : \E claims \in SUBSET Tasks : Interrupt(v, claims)
<1>6. ASSUME CommandNext PROVE UNCHANGED visit \/ Branch
  BY <1>1, <1>2, <1>6 DEF CommandNext
<1> HIDE DEF Branch
<1>7. UNCHANGED visit \/ Branch
  BY <1>3, <1>4, <1>5, <1>6 DEF RoundNext
<1> QED  BY <1>7 DEF Branch

\* A visit that goes on keeps its running round and its claims.
LEMMA VisitHoldsKept ==
  ASSUME RoundTypeOK, VisitHolds, ExecutionAssumption, [RoundNext]_roundVars
  PROVE  VisitHolds'
<1> SUFFICES ASSUME visit' # NoVisit
             PROVE  /\ ActiveRounds' # {}
                    /\ \A t \in visit'.claims :
                         latest'[t] > 0 /\ outcome'[<<t, latest'[t]>>] = "undelivered"
  BY DEF VisitHolds, LatestOf, NoVisit
<1>1. CASE visit' = visit
  <2>1. ActiveRounds # {}
    BY <1>1 DEF VisitHolds
  <2>2. ActiveRounds' # {}
    <3>1. CASE UNCHANGED ownership
      BY <2>1, <3>1 DEF ownership, ActiveRounds, Active
    <3>2. ASSUME NEW d \in Devices, Start(d) PROVE FALSE
      BY <2>1, <3>2 DEF Start
    <3>3. ASSUME NEW v \in views, TakeOver(v) PROVE ActiveRounds' # {}
      BY <3>3, TakeOverEffect DEF ActiveRounds, Active
    <3>4. ASSUME NEW v \in views, EndRound(v) \/ EndWorkday(v) PROVE FALSE
      BY <1>1, <3>4 DEF EndRound, MayEndRound, EndWorkday, MayEndWorkday, Closable
    <3> QED  BY <3>1, <3>2, <3>3, <3>4, OwnershipSteps
  <2>3. ASSUME NEW t \in visit.claims
        PROVE  latest'[t] > 0 /\ outcome'[<<t, latest'[t]>>] = "undelivered"
    <3>1. /\ t \in Tasks /\ latest[t] > 0 /\ outcome[<<t, latest[t]>>] = "undelivered"
      BY <1>1 DEF VisitHolds, LatestOf, RoundTypeOK, NoVisit
    <3>2. CASE UNCHANGED <<latest, outcome, received>>
      BY <3>1, <3>2
    <3>3. ASSUME NEW u \in Tasks, ReceiveTask(u) \/ ReceivePieces(u)
          PROVE  latest'[t] = latest[t] /\ outcome' = outcome
      BY <3>1, <3>3 DEF ReceiveTask, ReceivePieces, RoundTypeOK
    <3>4. ASSUME NEW v \in views, NEW u \in Tasks, Retry(v, u) PROVE FALSE
      BY <1>1, <3>4 DEF Retry, MayRetry, Changing
    <3>5. ASSUME NEW v \in views, NEW a \in Attempts, NEW result \in {"delivered", "undelivered"},
                 RecordOutcome(v, a, result)
          PROVE  FALSE
      BY <1>1, <3>5 DEF RecordOutcome, MayRecordOutcome, Executable
    <3> QED  BY <3>1, <3>2, <3>3, <3>4, <3>5, HistorySteps
  <2> QED  BY <1>1, <2>2, <2>3
<1>2. ASSUME NEW v \in views, BranchArrive(v)
      PROVE  /\ ActiveRounds' # {}
             /\ \A t \in visit'.claims :
                  latest'[t] > 0 /\ outcome'[<<t, latest'[t]>>] = "undelivered"
  <2>1. visit.stage = "heading" /\ visit' = [visit EXCEPT !.stage = "arrived"]
        /\ UNCHANGED <<ownership, work>>
    BY <1>2 DEF BranchArrive, MayBranchArrive
  <2>2. visit # NoVisit /\ visit'.claims = visit.claims
    BY <2>1 DEF RoundTypeOK, NoVisit
  <2>3. ActiveRounds' = ActiveRounds /\ latest' = latest /\ outcome' = outcome
    BY <2>1 DEF ownership, work, ActiveRounds, Active
  <2> QED  BY <2>2, <2>3 DEF VisitHolds, LatestOf
<1>3. ASSUME NEW v \in views, BranchResume(v) PROVE FALSE
  BY <1>3 DEF BranchResume
<1>4. ASSUME NEW v \in views, NEW claims \in SUBSET Tasks, Interrupt(v, claims)
      PROVE  /\ ActiveRounds' # {}
             /\ \A t \in visit'.claims :
                  latest'[t] > 0 /\ outcome'[<<t, latest'[t]>>] = "undelivered"
  <2>1. /\ Active(v.round) /\ v.round \in Rounds
        /\ \A t \in claims : latest[t] > 0 /\ outcome[<<t, latest[t]>>] = "undelivered"
    BY <1>4, ViewTypes DEF Interrupt, MayInterrupt, LatestOf
  <2>2. visit'.claims = claims /\ UNCHANGED <<rounds, latest, outcome>>
    BY <1>4 DEF Interrupt, ownership, work
  <2> QED  BY <2>1, <2>2 DEF ActiveRounds, Active
<1> QED  BY <1>1, <1>2, <1>3, <1>4, VisitSteps

\* Every round that starts has an owner, and gives its day a round.
LEMMA RoundsOwnedKept ==
  ASSUME RoundTypeOK, OneRunning, ViewsTrue, RoundsOwned, ExecutionAssumption,
         [RoundNext]_roundVars
  PROVE  RoundsOwned'
<1> DEFINE Owned == \A r \in Rounds : rounds'[r].status # "unused" =>
                      rounds'[r].device \in Devices /\ rounds'[r].generation <= MaxGeneration
           Covered == \A n \in Days : day'[n] = "open" =>
                        \E r \in Rounds : rounds'[r].day = n
<1> SUFFICES Owned /\ Covered
  BY DEF RoundsOwned, OpenDays, DayRounds
<1>0. /\ \A r \in Rounds : rounds[r].status # "unused" =>
           rounds[r].device \in Devices /\ rounds[r].generation <= MaxGeneration
      /\ \A n \in Days : day[n] = "open" => \E r \in Rounds : rounds[r].day = n
  BY DEF RoundsOwned, OpenDays, DayRounds
<1>1. CASE UNCHANGED ownership
  BY <1>0, <1>1 DEF ownership
<1>2. ASSUME NEW d \in Devices, Start(d) PROVE Owned /\ Covered
  <2>1. PICK r \in Rounds, n \in Days, g \in Nat :
          /\ rounds[r].status = "unused" /\ g <= MaxGeneration
          /\ rounds'[r] = [status |-> "active", day |-> n, device |-> d,
                           generation |-> g, transferred |-> FALSE]
          /\ \A q \in Rounds \ {r} : rounds'[q] = rounds[q]
          /\ \A m \in Days \ {n} : day'[m] = day[m]
    <3> HIDE DEF Owned, Covered
    <3> QED  BY <1>2, StartEffect, ZenonT(30)
  <2>2. Owned
    BY <1>0, <2>1
  <2>3. ASSUME NEW m \in Days, day'[m] = "open"
        PROVE  \E q \in Rounds : rounds'[q].day = m
    <3>1. CASE m = n
      BY <2>1, <3>1
    <3>2. CASE m # n
      <4>1. PICK q \in Rounds : rounds[q].day = m
        BY <1>0, <2>1, <2>3, <3>2
      <4>2. q # r
        <5>1. 0 \notin Days
          BY FS_CardinalityType DEF ExecutionAssumption
        <5> QED  BY <2>1, <4>1, <5>1 DEF OneRunning, NoDay
      <4> QED  BY <2>1, <4>1, <4>2
    <3> QED  BY <3>1, <3>2
  <2> QED  BY <2>2, <2>3
<1>3. ASSUME NEW v \in views, TakeOver(v) PROVE Owned /\ Covered
  <2>1. v.device \in Devices /\ rounds[v.round].generation + 1 <= MaxGeneration
    <3>1. v.device \in Devices
      BY ViewTypes
    <3> QED  BY <1>3, <3>1 DEF TakeOver
  <2>2. /\ v.round \in Rounds /\ day' = day
        /\ rounds'[v.round].device = v.device /\ rounds'[v.round].day = rounds[v.round].day
        /\ rounds'[v.round].generation = rounds[v.round].generation + 1
        /\ \A q \in Rounds \ {v.round} : rounds'[q] = rounds[q]
    BY <1>3, TakeOverEffect
  <2>3. Owned
    BY <1>0, <2>1, <2>2
  <2>4. \A q \in Rounds : rounds'[q].day = rounds[q].day
    BY <2>2
  <2> QED  BY <1>0, <2>2, <2>3, <2>4
<1>4. ASSUME NEW v \in views, EndRound(v) \/ EndWorkday(v) PROVE Owned /\ Covered
  <2>1. /\ v.round \in Rounds /\ rounds[v.round].status # "unused"
        /\ rounds'[v.round].device = rounds[v.round].device
        /\ rounds'[v.round].generation = rounds[v.round].generation
        /\ rounds'[v.round].day = rounds[v.round].day
        /\ \A q \in Rounds \ {v.round} : rounds'[q] = rounds[q]
    BY <1>4, ClosureEffect DEF ViewsTrue
  <2>2. \A n \in Days : day'[n] = "open" => day[n] = "open"
    BY <1>4, ClosureEffect DEF RoundTypeOK
  <2>3. Owned
    BY <1>0, <2>1
  <2>4. \A q \in Rounds : rounds'[q].day = rounds[q].day
    BY <2>1
  <2> QED  BY <1>0, <2>2, <2>3, <2>4
<1> QED  BY <1>1, <1>2, <1>3, <1>4, OwnershipSteps

\* What the pages rest on holds throughout.
THEOREM ScreensInvariant == RoundSpec => []ScreensInv
<1> USE ExecutionAssumption
<1>1. RoundInit => ScreensInv
  <2> SUFFICES ASSUME RoundInit PROVE ScreensInv
    OBVIOUS
  <2>1. RoundInv
    BY InitInv
  <2>2. StopsFollow /\ VisitHolds
    BY DEF RoundInit, StopsFollow, VisitHolds, LatestOf
  <2>3. RoundsOwned
    BY DEF RoundInit, RoundsOwned, OpenDays, Unused
  <2> QED  BY <2>1, <2>2, <2>3 DEF ScreensInv
<1>2. ScreensInv /\ RoundInv' /\ [RoundNext]_roundVars => ScreensInv'
  <2> SUFFICES ASSUME ScreensInv, RoundInv', [RoundNext]_roundVars PROVE ScreensInv'
    OBVIOUS
  <2>1. RoundTypeOK /\ OneRunning /\ ViewsTrue /\ LatestOpen
    BY DEF ScreensInv, RoundInv
  <2>2. StopsFollow /\ VisitHolds /\ RoundsOwned
    BY DEF ScreensInv
  <2>3. StopsFollow' /\ VisitHolds' /\ RoundsOwned'
    BY <2>1, <2>2, StopsFollowKept, VisitHoldsKept, RoundsOwnedKept
  <2> QED  BY <2>3 DEF ScreensInv
<1> QED  BY <1>1, <1>2, RoundInvariant, PTL DEF RoundSpec

\* Among rounds with bounded generations one has the largest.
LEMMA LargestGeneration ==
  ASSUME NEW R \in SUBSET Rounds, R # {}, MaxGeneration \in Nat,
         \A r \in R : rounds[r].generation \in Nat /\ rounds[r].generation <= MaxGeneration
  PROVE  \E r \in R : \A q \in R : rounds[q].generation <= rounds[r].generation
<1> DEFINE Missing == {MaxGeneration - rounds[r].generation : r \in R}
           Less == OpToRel(<, Nat)
<1>1. Missing \subseteq Nat /\ Missing # {}
  OBVIOUS
<1> HIDE DEF Missing
<1>2. PICK m \in Missing : \A x \in Missing : m <= x
  <2>1. IsWellFoundedOn(Less, Nat)
    BY NatLessThanWellFounded
  <2> HIDE DEF Less
  <2>2. PICK m \in Missing : \A x \in Missing : ~(<<x, m>> \in Less)
    BY <1>1, <2>1, WFMin
  <2>3. \A x \in Missing : x \in Nat /\ m \in Nat /\ ~(x < m)
    BY <1>1, <2>2 DEF Less, OpToRel
  <2>4. \A x \in Missing : m <= x
    BY <2>3
  <2> QED  BY <2>4
<1>3. PICK r \in R : m = MaxGeneration - rounds[r].generation
  BY <1>2 DEF Missing
<1>4. ASSUME NEW q \in R PROVE rounds[q].generation <= rounds[r].generation
  <2>1. MaxGeneration - rounds[r].generation <= MaxGeneration - rounds[q].generation
    BY <1>2, <1>3 DEF Missing
  <2> QED  BY <2>1
<1> QED  BY <1>4

\* The page of the owner of a round knows the round as it is.
LEMMA PagesKnow ==
  ASSUME RoundTypeOK, NEW r \in Rounds, NEW v \in Pages(r)
  PROVE  /\ v.device \in Devices /\ OwnerMode(v.device, r) /\ v.round = r
         /\ v.active = Active(r) /\ Fence(v) /\ Fresh(v)
<1>1. PICK d \in Owners(r) : v = Snapshot(d, r)
  BY DEF Pages
<1>2. /\ v.device = d /\ v.round = r /\ v.generation = rounds[r].generation
      /\ v.basis = rounds[r].generation /\ v.active = Active(r)
      /\ v.revision = revision[r] /\ v.current = Underway(r)
  BY <1>1 DEF Snapshot
<1>3. d \in Devices /\ OwnerMode(d, r)
  BY DEF Owners
<1> QED  BY <1>2, <1>3 DEF OwnerMode, Fence, Fresh

\* The running round is the last of its open day.
LEMMA RunningIsAnchor ==
  ASSUME RoundTypeOK, OneRunning, NEW n \in OpenDays, NEW r \in Anchor(n), NEW q \in ActiveRounds
  PROVE  q = r
<1>1. q \in Rounds /\ rounds[q].day = n
  BY DEF OneRunning, ActiveRounds
<1>2. r \in Rounds /\ rounds[q].generation <= rounds[r].generation
  BY <1>1 DEF Anchor, DayRounds
<1>3. q # r => rounds[r].generation < rounds[q].generation
  BY <1>2 DEF OneRunning
<1>4. rounds[q].generation \in Nat /\ rounds[r].generation \in Nat
  BY <1>1, <1>2 DEF RoundTypeOK
<1> QED  BY <1>2, <1>3, <1>4

\* The closure page: the last round of an open day can be ended, and the day.
LEMMA ClosureHolds ==
  ASSUME ScreensInv
  PROVE  ClosureOffersStand
<1>0. RoundTypeOK /\ OneRunning /\ OneActivity /\ VisitHolds
  BY DEF ScreensInv, RoundInv
<1> SUFFICES ASSUME NEW n \in OpenDays, NEW r \in Anchor(n), NEW v \in Pages(r),
                    r \in Closing(v.device, n)
             PROVE  MayEndWorkday(v) /\ (ActiveRounds \cap DayRounds(n) # {} => MayEndRound(v))
  BY DEF ClosureOffersStand
<1>1. r \in Rounds /\ rounds[r].day = n /\ n \in Days /\ day[n] = "open"
      /\ \A q \in Rounds : rounds[q].day = n => rounds[q].generation <= rounds[r].generation
  BY DEF Anchor, DayRounds, OpenDays
<1>2. v.round = r /\ v.active = Active(r) /\ Fence(v) /\ Fresh(v)
  BY <1>0, <1>1, PagesKnow
<1>3. ActiveRounds \subseteq {r}
  BY <1>0, RunningIsAnchor
<1>4. Active(r) => r \in ActiveRounds \cap DayRounds(n)
  BY <1>1 DEF ActiveRounds, DayRounds
<1>5. visit = NoVisit /\ ~Arrived(r)
  <2>1. CASE Active(r)
    BY <1>4, <2>1 DEF Closing
  <2>2. CASE ~Active(r)
    <3>1. ActiveRounds = {} /\ Underway(r) = {}
      BY <1>0, <1>1, <1>3, <2>2 DEF ActiveRounds, OneActivity
    <3> QED  BY <1>0, <3>1 DEF VisitHolds, Arrived
  <2> QED  BY <2>1, <2>2
<1>6. Closable(v)
  BY <1>2, <1>5 DEF Closable, Arrived
<1>7. MayEndWorkday(v)
  BY <1>1, <1>2, <1>3, <1>6 DEF MayEndWorkday
<1>8. ActiveRounds # {} => MayEndRound(v)
  BY <1>2, <1>3, <1>6 DEF MayEndRound, ActiveRounds
<1> QED  BY <1>7, <1>8

\* The branch page: a visit can be set out for, arrived at and left.
LEMMA VisitHoldsOffers ==
  ASSUME ScreensInv
  PROVE  VisitOffersStand
<1> SUFFICES ASSUME NEW r \in ActiveRounds, NEW v \in Pages(r)
             PROVE  /\ OffersVisit(v.device, r) =>
                         \A claims \in (SUBSET Tasks) \ {{}} :
                            (\A t \in claims : latest[t] > 0 /\ outcome[LatestOf(t)] = "undelivered")
                              => MayInterrupt(v, claims)
                    /\ OffersBranchArrival(v.device, r) => MayBranchArrive(v)
                    /\ OffersResumption(v.device, r) => MayBranchResume(v)
  BY DEF VisitOffersStand
<1>0. RoundTypeOK
  BY DEF ScreensInv, RoundInv
<1>1. r \in Rounds /\ Active(r) /\ v.round = r /\ Fence(v) /\ Fresh(v)
  BY <1>0, PagesKnow DEF ActiveRounds
<1>2. ASSUME OffersVisit(v.device, r), NEW claims \in (SUBSET Tasks) \ {{}},
             \A t \in claims : latest[t] > 0 /\ outcome[LatestOf(t)] = "undelivered"
      PROVE  MayInterrupt(v, claims)
  <2>1. visit = NoVisit /\ \A a \in Underway(r) : stage[r][a] # "arrived"
    BY <1>2 DEF OffersVisit, Arrived
  <2> QED  BY <1>1, <1>2, <2>1 DEF MayInterrupt
<1>3. OffersBranchArrival(v.device, r) => MayBranchArrive(v)
  BY <1>1 DEF OffersBranchArrival, MayBranchArrive
<1>4. OffersResumption(v.device, r) => MayBranchResume(v)
  BY <1>1 DEF OffersResumption, MayBranchResume
<1> QED  BY <1>2, <1>3, <1>4

\* The page of the current customer: its targets can be headed for and settled.
LEMMA CustomerHoldsOffers ==
  ASSUME ScreensInv, ExecutionAssumption
  PROVE  CustomerOffersStand
<1>0. /\ RoundTypeOK /\ OneRunning /\ OneActivity /\ WorkIsAdmitted /\ LatestOpen
  BY DEF ScreensInv, RoundInv
<1> SUFFICES ASSUME NEW r \in ActiveRounds, NEW v \in Pages(r), NEW a \in Targets(r)
             PROVE  /\ OffersMove(v.device, r, a) /\ ~Arrived(r) => MaySelectHeading(v, a)
                    /\ OffersArrival(v.device, r, a) => MayRecordArrival(v, a)
                    /\ OffersDelivery(v.device, r, a) => MayRecordOutcome(v, a)
                    /\ \/ OffersNoAnswer(v.device, r, a)
                       \/ OffersException(v.device, r, a) /\ Underway(r) \subseteq {a}
                       => MayRecordOutcome(v, a)
  BY DEF CustomerOffersStand
<1>1. r \in Rounds /\ Active(r) /\ v.round = r /\ Fence(v) /\ Fresh(v)
  BY <1>0, PagesKnow DEF ActiveRounds
<1>2. a \in Eligible /\ a \in Attempts /\ a \in admitted[r]
  BY <1>0, EligibleAttempts DEF Targets, WorkIsAdmitted
<1>3. a[1] \notin received
  BY <1>0, <1>2 DEF Eligible, LatestOpen
<1>4. visit = NoVisit => Executable(r, a)
  BY <1>2, <1>3 DEF Executable
<1>5. Running(r)
  BY <1>0, <1>1 DEF Running, OneRunning, OpenDays
<1>6. \A b \in Underway(r) : Underway(r) = {b}
  BY <1>0, <1>1 DEF OneActivity
<1>7. stage[r][a] \in {"heading", "arrived"} <=> a \in Underway(r)
  BY <1>2 DEF Underway
<1>8. visit = NoVisit /\ a \in Underway(r) => MayRecordOutcome(v, a)
  BY <1>1, <1>4, <1>5, <1>6 DEF MayRecordOutcome
<1>9. visit = NoVisit /\ Underway(r) \subseteq {a} => MayRecordOutcome(v, a)
  BY <1>1, <1>4, <1>5 DEF MayRecordOutcome
<1>10. OffersMove(v.device, r, a) /\ ~Arrived(r) => MaySelectHeading(v, a)
  BY <1>1, <1>4 DEF OffersMove, Writable, Arrived, MaySelectHeading
<1>11. OffersArrival(v.device, r, a) => MayRecordArrival(v, a)
  BY <1>1, <1>4 DEF OffersArrival, Writable, MayRecordArrival
<1>12. OffersDelivery(v.device, r, a) => MayRecordOutcome(v, a)
  BY <1>7, <1>8 DEF OffersDelivery, Writable
<1> QED  BY <1>8, <1>9, <1>10, <1>11, <1>12 DEF OffersNoAnswer, OffersException, Writable
\* One more stop fits where there is room for it.
LEMMA OneMoreFits ==
  ASSUME RoundTypeOK, ExecutionAssumption, Room, NEW t \in Tasks
  PROVE  StopsWith(t) <= Capacity
<1>1. IsFiniteSet(Customers) /\ IsFiniteSet(endpoint)
  BY FS_Subset DEF RoundTypeOK, ExecutionAssumption, Customers
<1>2. Cardinality(Customers) \in Nat /\ Cardinality(endpoint) \in Nat
  BY <1>1, FS_CardinalityType
<1>3. Cardinality(Customers \cup {t}) =
        IF t \in Customers THEN Cardinality(Customers) ELSE Cardinality(Customers) + 1
  BY <1>1, FS_AddElement
<1>4. Cardinality(Customers) + Cardinality(endpoint) < Capacity
  BY DEF Room, Remaining, Customers
<1>5. Cardinality(Customers \cup {t}) + Cardinality(endpoint) <= Capacity
  BY <1>2, <1>3, <1>4 DEF ExecutionAssumption
<1> QED  BY <1>5 DEF StopsWith, Customers

\* The options page: a deferral, a retry and an activation are as the server has them.
LEMMA OptionHoldsOffers ==
  ASSUME ScreensInv, ExecutionAssumption
  PROVE  OptionOffersStand
<1>0. RoundTypeOK /\ LatestOpen /\ CapacityKept
  BY DEF ScreensInv, RoundInv
<1> SUFFICES ASSUME visit = NoVisit, NEW r \in Rounds, NEW v \in Pages(r), NEW t \in Tasks
             PROVE  /\ OffersOption(v.device, r, t, "defer") => Changing(v, t)
                    /\ OffersOption(v.device, r, t, "retry") =>
                         MayRetry(v, t) /\ StopsWith(t) <= Capacity
                    /\ OffersOption(v.device, r, t, "activate") =>
                         MayActivate(v, t) /\ StopsWith(t) <= Capacity
  BY DEF OptionOffersStand
<1>1. v.round = r /\ Fence(v) /\ Fresh(v)
  BY <1>0, PagesKnow
<1>2. ASSUME NEW choice, OffersOption(v.device, r, t, choice) PROVE Changing(v, t)
  BY <1>1, <1>2 DEF OffersOption, OptionAllowed, Denied, Changing, Changeable
<1>3. Room => StopsWith(t) <= Capacity
  BY <1>0, OneMoreFits
<1>4. /\ outcome[LatestOf(t)] \in {"none", "delivered", "undelivered"} \/ latest[t] = 0
      /\ deferral[t] \in {"none", "waiting", "due"}
  <2>1. latest[t] \in 1..MaxAttempts => LatestOf(t) \in Attempts
    BY DEF LatestOf, Attempts
  <2>2. latest[t] \in 0..MaxAttempts
    BY <1>0 DEF RoundTypeOK
  <2>3. latest[t] = 0 \/ latest[t] \in 1..MaxAttempts
    BY <2>2 DEF ExecutionAssumption
  <2> QED  BY <1>0, <2>1, <2>3 DEF RoundTypeOK
<1>5. ASSUME OffersOption(v.device, r, t, "retry")
      PROVE  MayRetry(v, t) /\ StopsWith(t) <= Capacity
  <2>1. /\ outcome[LatestOf(t)] # "none" /\ deferral[t] # "waiting" /\ Room
        /\ latest[t] > 0 /\ outcome[LatestOf(t)] # "delivered"
    BY <1>5 DEF OffersOption, OptionAllowed, Denied
  <2>2. outcome[LatestOf(t)] = "undelivered"
    BY <1>4, <2>1
  <2> QED  BY <1>2, <1>3, <1>5, <2>1, <2>2 DEF MayRetry
<1>6. ASSUME OffersOption(v.device, r, t, "activate")
      PROVE  MayActivate(v, t) /\ StopsWith(t) <= Capacity
  <2>1. /\ latest[t] > 0 /\ outcome[LatestOf(t)] = "none" /\ deferral[t] # "waiting" /\ Room
        /\ deferral[t] # "none" \/ stop[t] # "remaining"
    BY <1>6 DEF OffersOption, OptionAllowed
  <2> QED  BY <1>2, <1>3, <1>6, <2>1 DEF MayActivate
<1> QED  BY <1>2, <1>5, <1>6

\* Another device can take the running round over.
LEMMA TakeoverHoldsOffers ==
  ASSUME ScreensInv
  PROVE  TakeoverOffersStand
<1> SUFFICES ASSUME NEW r \in ActiveRounds, NEW d \in Devices, OffersTakeover(d, r)
             PROVE  MayTakeOver(Snapshot(d, r))
  BY DEF TakeoverOffersStand
<1>1. r \in Rounds /\ Active(r) /\ rounds[r].device # d
  BY DEF OffersTakeover, OwnerMode, ActiveRounds, Active
<1>2. day[rounds[r].day] = "open"
  BY DEF ScreensInv, RoundInv, OneRunning, OpenDays
<1>3. /\ Snapshot(d, r).round = r /\ Snapshot(d, r).device = d
      /\ Snapshot(d, r).generation = rounds[r].generation
  BY DEF Snapshot
<1> QED  BY <1>1, <1>2, <1>3 DEF MayTakeOver

\* On an open day its last round can be closed, or its customer settled, or its
\* visit goes on, with the branch if pieces are missing.
LEMMA AlwaysAWayOn ==
  ASSUME ScreensInv, ExecutionAssumption
  PROVE  WayOn
<1>0. /\ RoundTypeOK /\ OneRunning /\ OneActivity /\ VisitHolds /\ RoundsOwned
  BY DEF ScreensInv, RoundInv
<1> SUFFICES ASSUME NEW n \in OpenDays
             PROVE  \E r \in Anchor(n) : \E d \in Owners(r) :
                      \/ r \in Closing(d, n)
                      \/ \E a \in Targets(r) : OffersDelivery(d, r, a)
                      \/ OffersBranchArrival(d, r) \/ OffersResumption(d, r)
                      \/ /\ visit.stage = "arrived"
                         /\ \E t \in visit.claims \ received : outcome[LatestOf(t)] = "undelivered"
  BY DEF WayOn
<1>1. n \in Days /\ day[n] = "open" /\ DayRounds(n) # {} /\ DayRounds(n) \subseteq Rounds
  BY <1>0 DEF OpenDays, RoundsOwned, DayRounds
<1>2. ASSUME NEW r \in DayRounds(n)
      PROVE  /\ rounds[r].status # "unused" /\ rounds[r].device \in Devices
             /\ rounds[r].generation \in Nat /\ rounds[r].generation <= MaxGeneration
  <2>1. r \in Rounds /\ rounds[r].day = n
    BY DEF DayRounds
  <2>2. n # NoDay
    BY <1>1, FS_CardinalityType DEF NoDay, ExecutionAssumption
  <2>3. rounds[r].status # "unused"
    BY <1>0, <2>1, <2>2 DEF OneRunning
  <2> QED  BY <1>0, <2>1, <2>3 DEF RoundsOwned, RoundTypeOK
<1>3. PICK r \in DayRounds(n) : \A q \in DayRounds(n) :
        rounds[q].generation <= rounds[r].generation
  BY <1>1, <1>2, LargestGeneration DEF ExecutionAssumption
<1>4. r \in Anchor(n) /\ r \in Rounds
  BY <1>1, <1>3 DEF Anchor
<1> DEFINE d == rounds[r].device
<1>5. d \in Owners(r) /\ OwnerMode(d, r)
  BY <1>2 DEF Owners, OwnerMode
<1>6. ActiveRounds \subseteq {r}
  BY <1>0, <1>4, RunningIsAnchor
<1> HIDE DEF d
<1>7. CASE visit = NoVisit /\ ~Arrived(r)
  <2>1. r \in Closing(d, n)
    BY <1>1, <1>4, <1>5, <1>6, <1>7 DEF Closing
  <2> QED  BY <1>4, <1>5, <2>1
<1>8. CASE visit = NoVisit /\ Arrived(r)
  <2>1. PICK a \in Underway(r) : stage[r][a] = "arrived"
    BY <1>8 DEF Arrived
  <2>2. Active(r) /\ a \in admitted[r] /\ a \in Eligible
    BY <1>0, <1>4 DEF OneActivity
  <2>3. a \in Targets(r) /\ OffersDelivery(d, r, a)
    BY <1>5, <1>8, <2>1, <2>2 DEF Targets, OffersDelivery, Writable
  <2> QED  BY <1>4, <1>5, <2>3
<1>9. CASE visit # NoVisit
  <2>1. Active(r) /\ \A t \in visit.claims : outcome[LatestOf(t)] = "undelivered"
    BY <1>0, <1>6, <1>9 DEF VisitHolds, ActiveRounds
  <2>2. visit.stage \in {"heading", "arrived"}
    BY <1>0, <1>9 DEF RoundTypeOK
  <2>3. CASE visit.stage = "heading"
    BY <1>4, <1>5, <2>1, <2>3 DEF OffersBranchArrival
  <2>4. CASE visit.stage = "arrived" /\ visit.claims \subseteq received
    BY <1>4, <1>5, <2>1, <2>4 DEF OffersResumption
  <2>5. CASE visit.stage = "arrived" /\ ~(visit.claims \subseteq received)
    BY <1>4, <1>5, <2>1, <2>5
  <2> QED  BY <2>2, <2>3, <2>4, <2>5
<1> QED  BY <1>7, <1>8, <1>9

\* Whatever a page offers when it has just loaded the server does, and no driver of
\* an open day is left without a step.
THEOREM OffersAreAccepted == RoundSpec => []OffersAccepted
<1>1. ScreensInv => OffersAccepted
  BY ExecutionAssumption, ClosureHolds, VisitHoldsOffers, CustomerHoldsOffers,
     OptionHoldsOffers, TakeoverHoldsOffers, AlwaysAWayOn DEF OffersAccepted
<1> QED  BY <1>1, ScreensInvariant, PTL
=============================================================================
