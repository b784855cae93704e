--------------------------- MODULE Services_proofs ----------------------------
(*****************************************************************************)
(* Proofs about the workers and screens around the work: the lane of a       *)
(* reference system, the planning worker, the monitoring view and the files  *)
(* of reports, for every number of workers, clerks, jobs, readers and faults. *)
(*****************************************************************************)
EXTENDS SourceLane, PlanningJobs, MonitorView, ReportExports, FiniteSetTheorems,
        WellFoundedInduction, TLAPS

-----------------------------------------------------------------------------
(* The lane of the reference system (SourceLane).                            *)
LEMMA LaneInitial == LaneInit => LaneInv
  BY DEF LaneInit, LaneInv, LaneTypeOK, DecidedInTurn, SettledWasDecided, ClaimsAreHeads,
         RevisionsGrow, NoForm, NoCommand

(* A step that changes the lane only in status, time and lease, and unsettles *)
(* nothing.                                                                   *)
SameCommands ==
  /\ lane' \in Seq(Entries) /\ Len(lane') = Len(lane)
  /\ \A d \in DOMAIN lane :
       /\ lane'[d].record = lane[d].record /\ lane'[d].revision = lane[d].revision
       /\ lane[d].status = "settled" => lane'[d].status = "settled"

LEMMA RevisionsStay ==
  ASSUME LaneInv, SameCommands, UNCHANGED records
  PROVE  RevisionsGrow'
<1>1. DOMAIN lane' = DOMAIN lane
  BY DEF SameCommands, LaneInv, LaneTypeOK
<1> QED BY <1>1 DEF SameCommands, LaneInv, RevisionsGrow

LEMMA ClaimsStay ==
  ASSUME LaneInv, SameCommands, UNCHANGED received,
         NEW w \in Senders, sending'[w] = sending[w], sending[w] # NoCommand
  PROVE  /\ sending'[w].command \in DOMAIN lane'
         /\ \A d \in 1..sending'[w].command - 1 : lane'[d].status = "settled"
         /\ sending'[w].answer = "decided" => sending'[w].command \in DOMAIN received'
<1>1. DOMAIN lane' = 1..Len(lane) /\ DOMAIN lane = 1..Len(lane) /\ Len(lane) \in Nat
  BY DEF SameCommands, LaneInv, LaneTypeOK
<1>2. sending[w].command \in 1..Len(lane)
  BY <1>1 DEF LaneInv, ClaimsAreHeads
<1>3. \A d \in 1..sending[w].command - 1 : d \in DOMAIN lane /\ lane[d].status = "settled"
  BY <1>1, <1>2 DEF LaneInv, ClaimsAreHeads
<1> QED BY <1>1, <1>2, <1>3 DEF SameCommands, LaneInv, ClaimsAreHeads

(* One entry changes its status, time or lease.                              *)
LEMMA EntryChanges ==
  ASSUME LaneInv, NEW c \in DOMAIN lane, NEW e \in Entries, lane' = [lane EXCEPT ![c] = e],
         e.record = lane[c].record, e.revision = lane[c].revision,
         lane[c].status = "settled" => e.status = "settled"
  PROVE  SameCommands
<1>1. lane \in Seq(Entries)
  BY DEF LaneInv, LaneTypeOK
<1>2. \A d \in DOMAIN lane : lane'[d] = IF d = c THEN e ELSE lane[d]
  OBVIOUS
<1>3. lane' \in Seq(Entries) /\ Len(lane') = Len(lane)
  BY <1>1
<1> QED BY <1>2, <1>3 DEF SameCommands

LEMMA SaveKeeps ==
  ASSUME LaneInv, NEW k \in Clerks, SaveForm(k)
  PROVE  LaneInv'
<1> USE DEF LaneInv
<1>1. form' \in [Clerks -> {NoForm} \cup [record : Records, revision : Nat]]
  BY DEF SaveForm, LaneTypeOK
<1>2. CASE ~UpToDate(k)
  BY <1>1, <1>2 DEF SaveForm, LaneTypeOK, DecidedInTurn, SettledWasDecided, ClaimsAreHeads,
                   RevisionsGrow
<1>3. CASE UpToDate(k)
  <2> DEFINE r == form[k].record
             new == NewCommand(r, form[k].revision + 1)
  <2>1. r \in Records /\ form[k].revision = records[r] /\ records[r] \in Nat
    BY <1>3 DEF SaveForm, UpToDate, LaneTypeOK
  <2>2. lane' = Append(lane, new) /\ records' = [records EXCEPT ![r] = @ + 1]
    BY <1>3 DEF SaveForm
  <2>3. new \in Entries /\ new.record = r /\ new.revision = records[r] + 1 /\ new.status = "pending"
    BY <2>1 DEF NewCommand, Entries
  <2> HIDE DEF new
  <2>4. /\ lane' \in Seq(Entries) /\ Len(lane') = Len(lane) + 1 /\ Len(lane) \in Nat
        /\ DOMAIN lane = 1..Len(lane) /\ DOMAIN lane' = 1..Len(lane) + 1
        /\ lane'[Len(lane) + 1] = new
        /\ \A i \in 1..Len(lane) : lane'[i] = lane[i]
    BY <2>2, <2>3 DEF LaneTypeOK
  <2>5. records' \in [Records -> Nat]
    BY <2>1, <2>2 DEF LaneTypeOK
  <2>6. LaneTypeOK'
    BY <1>1, <2>4, <2>5 DEF LaneTypeOK, SaveForm
  <2>7. DecidedInTurn'
    BY <2>4 DEF DecidedInTurn, SaveForm, LaneTypeOK
  <2>8. SettledWasDecided'
    BY <2>3, <2>4 DEF SettledWasDecided, SaveForm
  <2>9. ClaimsAreHeads'
    <3> SUFFICES ASSUME NEW w \in Senders, sending[w] # NoCommand
                 PROVE  /\ sending[w].command \in DOMAIN lane'
                        /\ \A d \in 1..sending[w].command - 1 : lane'[d].status = "settled"
                        /\ sending[w].answer = "decided" => sending[w].command \in DOMAIN received
      BY DEF ClaimsAreHeads, SaveForm
    <3>1. sending[w].command \in 1..Len(lane)
      BY <2>4 DEF ClaimsAreHeads
    <3>2. \A d \in 1..sending[w].command - 1 : d \in 1..Len(lane) /\ lane[d].status = "settled"
      BY <2>4, <3>1 DEF ClaimsAreHeads
    <3> QED BY <2>4, <3>1, <3>2 DEF ClaimsAreHeads
  <2>10. RevisionsGrow'
    <3>1. \A i \in 1..Len(lane) : lane[i].record \in Records /\ lane[i].revision \in Nat
      <4>1. \A i \in 1..Len(lane) : lane[i] \in Entries
        BY <2>4 DEF LaneTypeOK
      <4> QED BY <4>1 DEF Entries
    <3>2. \A q \in Records : records'[q] = IF q = r THEN records[q] + 1 ELSE records[q]
      BY <2>2 DEF LaneTypeOK
    <3>3. \A i \in 1..Len(lane) : lane[i].revision <= records[lane[i].record]
      BY <2>4 DEF RevisionsGrow
    <3>4. \A i \in 1..Len(lane) : lane[i].record = r => lane[i].revision < new.revision
      BY <2>1, <2>3, <3>1, <3>3
    <3>5. \A i \in DOMAIN lane' : lane'[i].revision <= records'[lane'[i].record]
      <4> SUFFICES ASSUME NEW i \in 1..Len(lane) + 1
                   PROVE  lane'[i].revision <= records'[lane'[i].record]
        BY <2>4
      <4>1. CASE i = Len(lane) + 1
        BY <2>1, <2>3, <2>4, <3>2, <4>1
      <4>2. CASE i \in 1..Len(lane)
        <5>1. records[lane[i].record] \in Nat
          BY <3>1, <4>2 DEF LaneTypeOK
        <5> QED BY <2>4, <3>1, <3>2, <3>3, <4>2, <5>1
      <4> QED BY <2>4, <4>1, <4>2
    <3>6. \A i, j \in DOMAIN lane' :
            i < j /\ lane'[i].record = lane'[j].record => lane'[i].revision < lane'[j].revision
      <4> SUFFICES ASSUME NEW i \in 1..Len(lane) + 1, NEW j \in 1..Len(lane) + 1, i < j,
                          lane'[i].record = lane'[j].record
                   PROVE  lane'[i].revision < lane'[j].revision
        BY <2>4
      <4>1. i \in 1..Len(lane)
        BY <2>4
      <4>2. CASE j = Len(lane) + 1
        BY <2>3, <2>4, <3>4, <4>1, <4>2
      <4>3. CASE j \in 1..Len(lane)
        BY <2>4, <4>1, <4>3 DEF RevisionsGrow
      <4> QED BY <2>4, <4>2, <4>3
    <3> QED BY <3>5, <3>6 DEF RevisionsGrow
  <2> QED BY <2>6, <2>7, <2>8, <2>9, <2>10
<1> QED BY <1>2, <1>3

LEMMA ClaimKeeps ==
  ASSUME LaneInv, NEW w \in Senders, NEW c \in DOMAIN lane, ClaimCommand(w, c)
  PROVE  LaneInv'
<1> USE DEF LaneInv
<1> DEFINE e == [lane[c] EXCEPT !.lease = w, !.leased = TRUE]
<1>1. lane[c] \in Entries /\ c \in Nat \ {0}
  BY DEF LaneTypeOK
<1>2. lane' = [lane EXCEPT ![c] = e]
  BY DEF ClaimCommand
<1>a. /\ e \in Entries /\ e.record = lane[c].record /\ e.revision = lane[c].revision
      /\ e.status = lane[c].status
  BY <1>1 DEF Entries
<1> HIDE DEF e
<1>3. SameCommands
  BY <1>2, <1>a, EntryChanges
<1>4. sending' \in [Senders -> {NoCommand} \cup
                    [command : Nat \ {0}, answer : {"none", "decided", "unknown"}]]
  BY <1>1 DEF ClaimCommand, LaneTypeOK
<1>5. LaneTypeOK'
  BY <1>3, <1>4 DEF ClaimCommand, LaneTypeOK, SameCommands
<1>6. DecidedInTurn'
  BY <1>3 DEF DecidedInTurn, ClaimCommand, SameCommands
<1>7. \A d \in DOMAIN lane : lane'[d].status = lane[d].status
  BY <1>2, <1>a
<1>8. SettledWasDecided'
  BY <1>2, <1>7 DEF SettledWasDecided, ClaimCommand
<1>9. ClaimsAreHeads'
  <2> SUFFICES ASSUME NEW v \in Senders, sending'[v] # NoCommand
               PROVE  /\ sending'[v].command \in DOMAIN lane'
                      /\ \A d \in 1..sending'[v].command - 1 : lane'[d].status = "settled"
                      /\ sending'[v].answer = "decided" => sending'[v].command \in DOMAIN received'
    BY DEF ClaimsAreHeads
  <2>1. CASE v = w
    <3>1. sending'[v] = [command |-> c, answer |-> "none"]
      BY <2>1 DEF ClaimCommand, LaneTypeOK
    <3>2. \A d \in 1..c - 1 : d \in DOMAIN lane /\ d \notin Open
      BY <1>1 DEF ClaimCommand, ClaimableHead, LaneTypeOK
    <3>3. \A d \in 1..c - 1 : lane'[d].status = "settled"
      <4>1. \A d \in DOMAIN lane : lane[d] \in Entries
        BY DEF LaneTypeOK
      <4>2. \A d \in DOMAIN lane : lane[d].status \in {"pending", "settled"}
        BY <4>1 DEF Entries
      <4> QED BY <1>7, <3>2, <4>2 DEF Open
    <3> QED BY <1>2, <3>1, <3>3
  <2>2. CASE v # w
    <3>1. sending'[v] = sending[v]
      BY <2>2 DEF ClaimCommand, LaneTypeOK
    <3> QED BY <1>3, <3>1, ClaimsStay DEF ClaimCommand
  <2> QED BY <2>1, <2>2
<1>10. RevisionsGrow'
  BY <1>3, RevisionsStay DEF ClaimCommand
<1> QED BY <1>5, <1>6, <1>8, <1>9, <1>10

(* What a claim sends Tawsel knows already, or it is the next.               *)
LEMMA SendKeeps ==
  ASSUME LaneInv, NEW w \in Senders, Send(w)
  PROVE  LaneInv'
<1> USE DEF LaneInv
<1> DEFINE c == sending[w].command
<1>1. sending[w] # NoCommand /\ c \in DOMAIN lane /\ c \in Nat \ {0}
  BY DEF Send, NoCommand, LaneTypeOK, ClaimsAreHeads
<1>2. /\ Len(received) \in Nat /\ DOMAIN received = 1..Len(received)
      /\ Len(lane) \in Nat /\ DOMAIN lane = 1..Len(lane)
  BY DEF LaneTypeOK
<1>3. \A d \in 1..c - 1 : d \in DOMAIN received
  BY <1>1, <1>2 DEF ClaimsAreHeads, SettledWasDecided
<1>4. c <= Len(received) + 1
  <2> SUFFICES ASSUME c > Len(received) + 1 PROVE FALSE
    BY <1>1, <1>2
  <2>1. c - 1 \in 1..c - 1 /\ c - 1 > Len(received)
    BY <1>1, <1>2
  <2> QED BY <1>1, <1>2, <1>3, <2>1
<1>t. sending' \in [Senders -> {NoCommand} \cup
                       [command : Nat \ {0}, answer : {"none", "decided", "unknown"}]]
  <2> DEFINE Sent == [command : Nat \ {0}, answer : {"none", "decided", "unknown"}]
  <2>1. sending \in [Senders -> {NoCommand} \cup Sent] /\ sending[w] \in Sent
    BY <1>1 DEF LaneTypeOK
  <2>2. PICK a \in {"decided", "unknown"} : sending' = [sending EXCEPT ![w].answer = a]
    BY DEF Send
  <2>3. [sending[w] EXCEPT !.answer = a] \in Sent
    BY <2>1
  <2>4. sending' = [sending EXCEPT ![w] = [sending[w] EXCEPT !.answer = a]]
    BY <2>2
  <2> HIDE DEF Sent
  <2>5. sending' \in [Senders -> {NoCommand} \cup Sent]
    BY <2>1, <2>3, <2>4
  <2> QED BY <2>5 DEF Sent
<1>5. CASE Decide(c)
  <2>1. received' = IF c <= Len(received) THEN received ELSE Append(received, c)
    <3>1. (\E i \in DOMAIN received : received[i] = c) <=> c <= Len(received)
      BY <1>1, <1>2 DEF DecidedInTurn
    <3> QED BY <1>5, <3>1 DEF Decide
  <2>2. /\ received' \in Seq(Nat) /\ DOMAIN received' = 1..Len(received') /\ Len(received') \in Nat
        /\ Len(received') = IF c <= Len(received) THEN Len(received) ELSE Len(received) + 1
        /\ \A i \in 1..Len(received') : received'[i] = IF i <= Len(received) THEN received[i] ELSE c
    BY <1>1, <1>2, <2>1 DEF LaneTypeOK
  <2> DEFINE n == Len(received)
             m == Len(received')
  <2>b. c \in 1..Len(lane) /\ n \in Nat /\ m \in Nat /\ c <= n + 1 /\ n <= Len(lane)
        /\ (\A i \in 1..n : received[i] = i)
    BY <1>1, <1>2, <1>4, <2>2 DEF DecidedInTurn
  <2>c. (c <= n /\ m = n) \/ (c = n + 1 /\ m = n + 1)
    <3>1. c \in Nat /\ (c <= n \/ c = n + 1)
      BY <1>1, <2>b
    <3>2. IF c <= n THEN m = n ELSE m = n + 1
      BY <2>2
    <3>3. n \in Nat /\ ~(n + 1 <= n)
      BY <2>b
    <3> HIDE DEF c, m, n
    <3> QED BY <3>1, <3>2, <3>3
  <2>3. c \in DOMAIN received' /\ DOMAIN received \subseteq DOMAIN received'
    <3>1. c \in 1..m /\ 1..n \subseteq 1..m
      BY <1>2, <2>b, <2>c
    <3> QED BY <1>2, <2>2, <3>1
  <2>4. Len(received') <= Len(lane) /\ \A i \in DOMAIN received' : received'[i] = i
    <3>1. \A i \in 1..m : received'[i] = i
      <4> SUFFICES ASSUME NEW i \in 1..m PROVE received'[i] = i
        OBVIOUS
      <4>1. i <= n \/ (i = c /\ ~(i <= n))
        BY <2>b, <2>c
      <4> QED BY <2>2, <2>b, <4>1
    <3>2. m <= Len(lane)
      BY <1>2, <2>b, <2>c
    <3> QED BY <2>2, <3>1, <3>2
  <2>5. LaneTypeOK'
    BY <1>t, <2>2 DEF LaneTypeOK, Send
  <2>6. \A v \in Senders : /\ sending'[v] # NoCommand => sending[v] # NoCommand
                           /\ sending'[v].command = sending[v].command
                           /\ sending'[v].answer = "decided" =>
                                v = w \/ sending[v].answer = "decided"
    BY <1>1 DEF Send, LaneTypeOK, NoCommand
  <2>7. ClaimsAreHeads'
    BY <2>3, <2>6 DEF ClaimsAreHeads, Send
  <2>8. SettledWasDecided' /\ RevisionsGrow' /\ DecidedInTurn'
    BY <2>3, <2>4 DEF SettledWasDecided, RevisionsGrow, DecidedInTurn, Send
  <2> QED BY <2>5, <2>7, <2>8
<1>6. CASE UNCHANGED received /\ sending' = [sending EXCEPT ![w].answer = "unknown"]
  <2>1. LaneTypeOK'
    BY <1>t, <1>6 DEF LaneTypeOK, Send
  <2>2. \A v \in Senders : /\ sending'[v] # NoCommand => sending[v] # NoCommand
                           /\ sending'[v].command = sending[v].command
                           /\ sending'[v].answer = "decided" => sending[v].answer = "decided"
    BY <1>1, <1>6 DEF LaneTypeOK, NoCommand
  <2>3. ClaimsAreHeads'
    BY <1>6, <2>2 DEF ClaimsAreHeads, Send
  <2>4. SettledWasDecided' /\ RevisionsGrow' /\ DecidedInTurn'
    BY <1>6 DEF SettledWasDecided, RevisionsGrow, DecidedInTurn, Send
  <2> QED BY <2>1, <2>3, <2>4
<1> QED BY <1>5, <1>6 DEF Send

LEMMA FinishKeeps ==
  ASSUME LaneInv, NEW w \in Senders, Finish(w)
  PROVE  LaneInv'
<1> USE DEF LaneInv
<1> DEFINE c == sending[w].command
           e == Finished(lane[c], sending[w].answer)
<1>1. sending[w] # NoCommand /\ c \in DOMAIN lane
  BY DEF Finish, NoCommand, ClaimsAreHeads
<1>2. lane[c] \in Entries
  BY <1>1 DEF LaneTypeOK
<1>3. /\ e \in Entries /\ e.record = lane[c].record /\ e.revision = lane[c].revision
      /\ e.status = "settled" => sending[w].answer = "decided"
  BY <1>2 DEF Finished, Entries
<1>4. (lane' = [lane EXCEPT ![c] = e] /\ c \in Open) \/ UNCHANGED lane
  BY DEF Finish
<1> HIDE DEF e
<1>5. SameCommands /\ SettledWasDecided'
  <2>1. CASE UNCHANGED lane
    BY <2>1 DEF SameCommands, SettledWasDecided, LaneTypeOK, Finish
  <2>2. CASE lane' = [lane EXCEPT ![c] = e] /\ c \in Open
    <3>1. SameCommands
      BY <1>1, <1>3, <2>2, EntryChanges DEF Open
    <3>2. \A d \in DOMAIN lane' : d \in DOMAIN lane /\ lane'[d] = IF d = c THEN e ELSE lane[d]
      BY <2>2
    <3>3. SettledWasDecided'
      BY <1>1, <1>3, <3>2 DEF SettledWasDecided, ClaimsAreHeads, Finish
    <3> QED BY <3>1, <3>3
  <2> QED BY <1>4, <2>1, <2>2
<1>6. LaneTypeOK'
  BY <1>5 DEF LaneTypeOK, SameCommands, Finish
<1>7. DecidedInTurn'
  BY <1>5 DEF DecidedInTurn, SameCommands, Finish
<1>8. ClaimsAreHeads'
  <2> SUFFICES ASSUME NEW v \in Senders, sending'[v] # NoCommand
               PROVE  /\ sending'[v].command \in DOMAIN lane'
                      /\ \A d \in 1..sending'[v].command - 1 : lane'[d].status = "settled"
                      /\ sending'[v].answer = "decided" => sending'[v].command \in DOMAIN received'
    BY DEF ClaimsAreHeads
  <2>1. sending'[v] = sending[v]
    BY DEF Finish, LaneTypeOK
  <2> QED BY <1>5, <2>1, ClaimsStay DEF Finish
<1>9. RevisionsGrow'
  BY <1>5, RevisionsStay DEF Finish
<1> QED BY <1>5, <1>6, <1>7, <1>8, <1>9

(* Delays end, leases end, workers die: no command changes.                  *)
LEMMA ClockKeeps ==
  ASSUME LaneInv, NEW c \in DOMAIN lane, RetryDue(c) \/ ClaimExpires(c)
  PROVE  LaneInv'
<1> USE DEF LaneInv
<1> DEFINE e == IF RetryDue(c) THEN [lane[c] EXCEPT !.due = TRUE] ELSE [lane[c] EXCEPT !.leased = FALSE]
<1>1. lane[c] \in Entries
  BY DEF LaneTypeOK
<1>2. lane' = [lane EXCEPT ![c] = e]
  BY DEF RetryDue, ClaimExpires
<1>a. /\ e \in Entries /\ e.record = lane[c].record /\ e.revision = lane[c].revision
      /\ e.status = lane[c].status
  BY <1>1 DEF Entries
<1> HIDE DEF e
<1>3. SameCommands
  BY <1>2, <1>a, EntryChanges
<1>4. LaneTypeOK' /\ DecidedInTurn'
  BY <1>3 DEF LaneTypeOK, DecidedInTurn, SameCommands, RetryDue, ClaimExpires
<1>5. \A d \in DOMAIN lane : lane'[d].status = lane[d].status
  BY <1>2, <1>a
<1>6. SettledWasDecided'
  BY <1>2, <1>5 DEF SettledWasDecided, RetryDue, ClaimExpires
<1>7. ClaimsAreHeads'
  <2>1. UNCHANGED <<received, sending>>
    BY DEF RetryDue, ClaimExpires
  <2> QED BY <1>3, <2>1, ClaimsStay DEF ClaimsAreHeads
<1>8. RevisionsGrow'
  BY <1>3, RevisionsStay DEF RetryDue, ClaimExpires
<1> QED BY <1>4, <1>6, <1>7, <1>8

LEMMA OthersKeep ==
  ASSUME LaneInv,
         \/ \E k \in Clerks, r \in Records : OpenForm(k, r)
         \/ \E w \in Senders : SenderDies(w)
         \/ UNCHANGED laneVars
  PROVE  LaneInv'
<1> USE DEF LaneInv
<1>1. LaneTypeOK'
  <2>1. ASSUME NEW k \in Clerks, NEW r \in Records, OpenForm(k, r) PROVE LaneTypeOK'
    <3>1. [record |-> r, revision |-> records[r]] \in [record : Records, revision : Nat]
      BY DEF LaneTypeOK
    <3>2. form' \in [Clerks -> {NoForm} \cup [record : Records, revision : Nat]]
      BY <2>1, <3>1 DEF OpenForm, LaneTypeOK
    <3> QED BY <2>1, <3>2 DEF OpenForm, LaneTypeOK
  <2>2. ASSUME NEW w \in Senders, SenderDies(w) PROVE LaneTypeOK'
    BY <2>2 DEF SenderDies, LaneTypeOK
  <2>3. CASE UNCHANGED laneVars
    BY <2>3 DEF laneVars, LaneTypeOK
  <2> QED BY <2>1, <2>2, <2>3
<1>2. UNCHANGED <<records, lane, received>>
  BY DEF OpenForm, SenderDies, laneVars
<1>3. \A v \in Senders : sending'[v] # NoCommand => sending'[v] = sending[v]
  BY DEF OpenForm, SenderDies, laneVars, LaneTypeOK
<1>4. ClaimsAreHeads'
  BY <1>2, <1>3 DEF ClaimsAreHeads
<1> QED BY <1>1, <1>2, <1>4 DEF DecidedInTurn, SettledWasDecided, RevisionsGrow

(* Claims are heads of the lane, and Tawsel decides in turn.                 *)
THEOREM LaneInvariant == LaneSpec => []LaneInv
<1>1. LaneInv /\ [LaneNext]_laneVars => LaneInv'
  <2> SUFFICES ASSUME LaneInv, [LaneNext]_laneVars PROVE LaneInv'
    OBVIOUS
  <2> QED
    BY SaveKeeps, ClaimKeeps, SendKeeps, FinishKeeps, ClockKeeps, OthersKeep DEF LaneNext
<1> QED BY LaneInitial, <1>1, PTL DEF LaneSpec

(* Tawsel meets the commands, and the revisions of a record, in order.       *)
THEOREM LaneOrder == LaneSpec => []LaneInOrder
<1>1. LaneInv => LaneInOrder
  <2> SUFFICES ASSUME LaneInv PROVE LaneInOrder
    OBVIOUS
  <2>1. DOMAIN received \subseteq DOMAIN lane
    BY DEF LaneInv, LaneTypeOK, DecidedInTurn
  <2> QED BY <2>1 DEF LaneInv, DecidedInTurn, SettledWasDecided, RevisionsGrow, LaneInOrder
<1> QED BY LaneInvariant, <1>1, PTL

-----------------------------------------------------------------------------
(* Planning jobs and published plans (PlanningJobs).                         *)
JobRecord ==
  [input : InputRecord,
   status : {"pending", "running", "complete", "partial", "failed", "superseded"},
   attempts : Nat, live : BOOLEAN, due : BOOLEAN]
PlanTypeOK ==
  /\ input \in InputRecord
  /\ jobs \in [Jobs -> JobRecord]
  /\ plan # NoPlan => plan \in PlanRecord

(* A job is for the input its revision names; the job of the present input is  *)
(* the latest and nobody has given it up.                                      *)
JobsMatch ==
  /\ \A j \in Jobs : jobs[j].input.revision = j /\ j <= input.revision
  /\ input.revision \in Jobs =>
       /\ jobs[input.revision].input = input /\ latest = input.revision
       /\ jobs[input.revision].status # "superseded"
  /\ latest # NoJob => latest \in Jobs

OneRunning == \A i, j \in Running : i = j

(* When the plan is already for the present input no worker can publish        *)
(* another for it: its job is over, or waits for the branch visit to end, or   *)
(* there is none and nobody who could queue it.                                *)
PlanIsPast ==
  plan # NoPlan =>
    /\ plan.input.revision <= input.revision
    /\ plan.input.revision = input.revision =>
         IF input.revision \in Jobs
         THEN \/ jobs[input.revision].status \notin Unfinished
              \/ jobs[input.revision].status = "pending" /\ input.branch
         ELSE \A j \in Jobs : jobs[j].status \notin Unfinished

PlanInv == PlanTypeOK /\ JobsMatch /\ OneRunning /\ PlanIsPast /\ NewestIsQueued

-----------------------------------------------------------------------------
(* A table of jobs that may have given some up, and started none.              *)
Onward(js) ==
  /\ js \in [DOMAIN js -> JobRecord]
  /\ DOMAIN js \subseteq Jobs
  /\ \A j \in DOMAIN js : /\ js[j].input = jobs[j].input
                          /\ js[j].status = "running" => jobs[j].status = "running"

LEMMA SupersedeFacts ==
  ASSUME NEW js, js \in [DOMAIN js -> JobRecord], NEW from
  PROVE  /\ DOMAIN Supersede(js, from) = DOMAIN js
         /\ Supersede(js, from) \in [DOMAIN js -> JobRecord]
         /\ \A j \in DOMAIN js :
              /\ Supersede(js, from)[j].input = js[j].input
              /\ js[j].status \notin from => Supersede(js, from)[j] = js[j]
              /\ js[j].status \in from => Supersede(js, from)[j].status = "superseded"
<1>1. \A j \in DOMAIN js :
        /\ [js[j] EXCEPT !.status = "superseded", !.live = FALSE] \in JobRecord
        /\ [js[j] EXCEPT !.status = "superseded", !.live = FALSE].input = js[j].input
        /\ [js[j] EXCEPT !.status = "superseded", !.live = FALSE].status = "superseded"
  BY DEF JobRecord
<1> QED BY <1>1 DEF Supersede

LEMMA SaveFacts ==
  ASSUME NEW js, js \in [DOMAIN js -> JobRecord], NEW last, Save(js, last)
  PROVE  /\ latest' = last /\ Jobs' \subseteq DOMAIN js
         /\ jobs' \in [Jobs' -> JobRecord]
         /\ \A j \in Jobs' : jobs'[j] = js[j]
         /\ last \in DOMAIN js => last \in Jobs'
  BY DEF Save, Restrict, Jobs

LEMMA SupersedeOnward ==
  ASSUME PlanInv, NEW from
  PROVE  Onward(Supersede(jobs, from))
<1>1. jobs \in [DOMAIN jobs -> JobRecord]
  BY DEF PlanInv, PlanTypeOK, Jobs
<1> QED BY <1>1, SupersedeFacts DEF Onward, Jobs

LEMMA EnqueueFresh ==
  ASSUME NEW js, js \in [DOMAIN js -> JobRecord], NEW in \in InputRecord,
         in.revision \notin DOMAIN js, Enqueue(js, in)
  PROVE  /\ latest' = in.revision /\ in.revision \in Jobs'
         /\ jobs' \in [Jobs' -> JobRecord]
         /\ jobs'[in.revision] = NewJob(in)
         /\ \A j \in Jobs' \ {in.revision} :
              /\ j \in DOMAIN js /\ jobs'[j].input = js[j].input
              /\ jobs'[j].status = "running" => js[j].status = "running"
<1> DEFINE old == Supersede(js, {"pending"})
           new == Queued(old, in)
<1>1. Save(new, in.revision)
  BY DEF Enqueue
<1>2. /\ DOMAIN old = DOMAIN js /\ old \in [DOMAIN js -> JobRecord]
      /\ \A j \in DOMAIN js :
           /\ old[j].input = js[j].input
           /\ old[j].status = "running" => js[j].status = "running"
  BY SupersedeFacts
<1>3. NewJob(in) \in JobRecord
  BY DEF NewJob, JobRecord
<1> HIDE DEF old
<1>4. /\ DOMAIN new = DOMAIN js \cup {in.revision}
      /\ new[in.revision] = NewJob(in)
      /\ \A j \in DOMAIN js : new[j] = old[j]
  BY <1>2 DEF Queued
<1>5. new \in [DOMAIN new -> JobRecord]
  <2>1. new = [j \in DOMAIN new |-> new[j]]
    BY DEF Queued
  <2>2. \A j \in DOMAIN new : new[j] \in JobRecord
    BY <1>2, <1>3, <1>4
  <2> HIDE DEF new
  <2> QED BY <2>1, <2>2
<1> HIDE DEF new
<1> QED BY <1>1, <1>2, <1>4, <1>5, SaveFacts

(* The input has moved on and a job for it is queued.                          *)
LEMMA EnqueueAdvances ==
  ASSUME PlanInv, NEW js, Onward(js),
         input' \in InputRecord, input'.revision >= input.revision,
         input'.revision \notin Jobs, Enqueue(js, input'),
         plan' # NoPlan =>
           /\ plan' \in PlanRecord /\ plan'.input.revision <= input'.revision
           /\ plan'.input.revision < input'.revision \/ input'.branch
  PROVE  PlanInv'
<1> DEFINE r == input'.revision
<1>0. input.revision \in Nat /\ r \in Nat
  BY DEF PlanInv, PlanTypeOK, InputRecord
<1>1. \A j \in Jobs : j <= input.revision /\ j \in Nat /\ jobs[j].input.revision = j
  BY <1>0 DEF PlanInv, PlanTypeOK, JobsMatch, JobRecord, InputRecord
<1>2. r \notin DOMAIN js
  BY <1>0, <1>1 DEF Onward
<1>3. /\ latest' = r /\ r \in Jobs' /\ jobs' \in [Jobs' -> JobRecord]
      /\ jobs'[r] = NewJob(input')
      /\ \A j \in Jobs' \ {r} :
           /\ j \in DOMAIN js /\ jobs'[j].input = js[j].input
           /\ jobs'[j].status = "running" => js[j].status = "running"
  BY <1>2, EnqueueFresh DEF Onward
<1>4. jobs'[r].status = "pending" /\ jobs'[r].input = input'
  BY <1>3 DEF NewJob
<1>5. \A j \in Jobs' \ {r} :
        /\ j \in Jobs /\ jobs'[j].input = jobs[j].input
        /\ jobs'[j].status = "running" => jobs[j].status = "running"
  BY <1>3 DEF Onward
<1>6. JobsMatch'
  BY <1>0, <1>1, <1>3, <1>4, <1>5 DEF JobsMatch
<1>7. OneRunning'
  BY <1>4, <1>5 DEF OneRunning, Running, PlanInv
<1>8. PlanIsPast'
  <2>1. plan' # NoPlan /\ plan'.input.revision = r => input'.branch
    BY <1>0 DEF PlanRecord, InputRecord
  <2> QED BY <1>3, <1>4, <2>1 DEF PlanIsPast
<1> QED BY <1>3, <1>4, <1>6, <1>7, <1>8 DEF PlanInv, PlanTypeOK, NewestIsQueued

(* The input has moved on and everything in flight is fenced.                  *)
LEMMA FenceAdvances ==
  ASSUME PlanInv, Fence,
         input' \in InputRecord, input'.revision > input.revision,
         plan' # NoPlan => plan' \in PlanRecord /\ plan'.input.revision <= input'.revision,
         \/ plan' # NoPlan /\ plan'.input = input' /\ plan'.kind \in {"manual", "branch"}
         \/ started' = input'.revision
  PROVE  PlanInv'
<1> DEFINE r == input'.revision
           js == Supersede(jobs, Unfinished)
<1>0. input.revision \in Nat /\ r \in Nat /\ jobs \in [DOMAIN jobs -> JobRecord]
  BY DEF PlanInv, PlanTypeOK, InputRecord, Jobs
<1>1. \A j \in Jobs : j <= input.revision /\ j \in Nat /\ jobs[j].input.revision = j
  BY <1>0 DEF PlanInv, PlanTypeOK, JobsMatch, JobRecord, InputRecord
<1>2. /\ DOMAIN js = Jobs /\ js \in [DOMAIN js -> JobRecord]
      /\ \A j \in Jobs : js[j].input = jobs[j].input /\ js[j].status \notin Unfinished
  BY <1>0, SupersedeFacts DEF Jobs, Unfinished
<1>3. Save(js, latest)
  BY DEF Fence
<1> HIDE DEF js
<1>4. /\ latest' = latest /\ Jobs' \subseteq Jobs /\ jobs' \in [Jobs' -> JobRecord]
      /\ \A j \in Jobs' : jobs'[j].input = jobs[j].input /\ jobs'[j].status \notin Unfinished
      /\ latest \in Jobs => latest \in Jobs'
  BY <1>2, <1>3, SaveFacts
<1>5. r \notin Jobs'
  BY <1>0, <1>1, <1>4
<1>6. JobsMatch'
  BY <1>0, <1>1, <1>4, <1>5 DEF JobsMatch, PlanInv
<1>7. Running' = {} /\ \A j \in Jobs' : jobs'[j].status \notin Unfinished
  BY <1>4 DEF Running, Unfinished
<1> QED BY <1>4, <1>5, <1>6, <1>7
           DEF PlanInv, PlanTypeOK, OneRunning, PlanIsPast, NewestIsQueued

(* The input stays; jobs change, none but the latest starts, and the one of    *)
(* the present input is not given up.                                          *)
LEMMA JobsMove ==
  ASSUME PlanInv, UNCHANGED <<input, started>>, jobs' \in [Jobs' -> JobRecord],
         Jobs' \subseteq Jobs, \A j \in Jobs' : jobs'[j].input = jobs[j].input,
         latest' = latest, latest \in Jobs => latest \in Jobs',
         latest \in Jobs /\ latest = input.revision => jobs'[latest].status # "superseded",
         OneRunning', plan' = plan,
         plan # NoPlan /\ plan.input.revision = input.revision =>
           /\ \A j \in Jobs' : j # input.revision /\ jobs'[j].status \in Unfinished =>
                               jobs[j].status \in Unfinished
           /\ input.revision \in Jobs' =>
                \/ jobs'[input.revision].status \notin Unfinished
                \/ jobs'[input.revision].status = "pending" /\ input.branch
  PROVE  PlanInv'
<1>1. JobsMatch'
  BY DEF PlanInv, JobsMatch
<1>2. PlanIsPast'
  <2> SUFFICES ASSUME plan # NoPlan, plan.input.revision = input.revision,
                      input.revision \notin Jobs'
               PROVE  \A j \in Jobs' : jobs'[j].status \notin Unfinished
    BY DEF PlanInv, PlanIsPast
  <2>1. input.revision \notin Jobs
    BY DEF PlanInv, JobsMatch
  <2>2. \A j \in Jobs : jobs[j].status \notin Unfinished
    BY <2>1 DEF PlanInv, PlanIsPast
  <2> QED BY <2>1, <2>2
<1>3. NewestIsQueued'
  BY DEF PlanInv, NewestIsQueued, JobsMatch
<1> QED BY <1>1, <1>2, <1>3 DEF PlanInv, PlanTypeOK

-----------------------------------------------------------------------------
LEMMA PresentFacts ==
  ASSUME PlanInv
  PROVE  /\ input \in InputRecord /\ input.revision \in Nat
         /\ jobs \in [Jobs -> JobRecord]
         /\ \A j \in Jobs : /\ jobs[j] \in JobRecord /\ j \in Nat /\ j <= input.revision
                           /\ jobs[j].input.revision = j
         /\ plan # NoPlan => plan \in PlanRecord /\ plan.input.revision <= input.revision
<1>1. \A j \in Jobs : jobs[j] \in JobRecord
  BY DEF PlanInv, PlanTypeOK
<1> QED BY <1>1 DEF PlanInv, PlanTypeOK, JobsMatch, JobRecord, InputRecord, PlanIsPast

LEMMA SuccessorFacts ==
  ASSUME PlanInv, NEW to \in Successors(input)
  PROVE  to \in InputRecord /\ to.revision = input.revision /\ to.branch = input.branch
<1>0. /\ input \in InputRecord
      /\ input = [revision |-> input.revision, eligible |-> input.eligible,
                  current |-> input.current, branch |-> input.branch,
                  settings |-> input.settings]
      /\ input.revision \in Nat /\ input.eligible \subseteq Tasks
      /\ input.current \in Tasks \cup {NoTask}
      /\ input.branch \in BOOLEAN /\ input.settings \in BOOLEAN
  BY PresentFacts DEF InputRecord
<1>1. \E eligible \in SUBSET Tasks, current \in Tasks \cup {NoTask}, settings \in BOOLEAN :
        to = [revision |-> input.revision, eligible |-> eligible, current |-> current,
              branch |-> input.branch, settings |-> settings]
  <2>1. ASSUME NEW t \in Tasks, to = [input EXCEPT !.eligible = @ \cup {t}]
        PROVE  to = [revision |-> input.revision, eligible |-> input.eligible \cup {t},
                     current |-> input.current, branch |-> input.branch,
                     settings |-> input.settings]
    BY <1>0, <2>1
  <2>2. ASSUME NEW t \in Tasks,
               to = [input EXCEPT !.eligible = @ \ {t}, !.current = IF @ = t THEN NoTask ELSE @]
        PROVE  to = [revision |-> input.revision, eligible |-> input.eligible \ {t},
                     current |-> IF input.current = t THEN NoTask ELSE input.current,
                     branch |-> input.branch, settings |-> input.settings]
    BY <1>0, <2>2
  <2>3. ASSUME NEW t \in input.eligible, to = [input EXCEPT !.current = t]
        PROVE  to = [revision |-> input.revision, eligible |-> input.eligible,
                     current |-> t, branch |-> input.branch, settings |-> input.settings]
    BY <1>0, <2>3
  <2>4. ASSUME to = [input EXCEPT !.settings = TRUE]
        PROVE  to = [revision |-> input.revision, eligible |-> input.eligible,
                     current |-> input.current, branch |-> input.branch, settings |-> TRUE]
    BY <1>0, <2>4
  <2>5. \/ \E t \in Tasks : to = [input EXCEPT !.eligible = @ \cup {t}]
        \/ \E t \in Tasks : to = [input EXCEPT !.eligible = @ \ {t},
                                             !.current = IF @ = t THEN NoTask ELSE @]
        \/ \E t \in input.eligible : to = [input EXCEPT !.current = t]
        \/ to = input \/ to = [input EXCEPT !.settings = TRUE]
    BY DEF Successors
  <2>6. CASE \E t \in Tasks : to = [input EXCEPT !.eligible = @ \cup {t}]
    BY <1>0, <2>1, <2>6
  <2>7. CASE \E t \in Tasks : to = [input EXCEPT !.eligible = @ \ {t},
                                               !.current = IF @ = t THEN NoTask ELSE @]
    <3>1. PICK t \in Tasks : to = [input EXCEPT !.eligible = @ \ {t},
                                               !.current = IF @ = t THEN NoTask ELSE @]
      BY <2>7
    <3>2. /\ input.eligible \ {t} \in SUBSET Tasks
          /\ (IF input.current = t THEN NoTask ELSE input.current) \in Tasks \cup {NoTask}
      BY <1>0
    <3>3. to = [revision |-> input.revision, eligible |-> input.eligible \ {t},
                current |-> IF input.current = t THEN NoTask ELSE input.current,
                branch |-> input.branch, settings |-> input.settings]
      BY <2>2, <3>1
    <3> QED BY <1>0, <3>2, <3>3
  <2>8. CASE \E t \in input.eligible : to = [input EXCEPT !.current = t]
    BY <1>0, <2>3, <2>8
  <2>9. CASE to = input \/ to = [input EXCEPT !.settings = TRUE]
    BY <1>0, <2>4, <2>9
  <2> QED BY <2>5, <2>6, <2>7, <2>8, <2>9
<1> QED BY <1>0, <1>1 DEF InputRecord

LEMMA AcceptKeeps ==
  ASSUME PlanInv, Accept
  PROVE  PlanInv'
<1>1. PICK to \in Successors(input) :
        LET next  == [to EXCEPT !.revision = @ + 1]
            added == input.branch /\ to.eligible \ input.eligible # {}
        IN  /\ input' = next
            /\ IF added THEN Publish(next, "branch", {}) ELSE UNCHANGED plan
            /\ Enqueue(IF added THEN Supersede(jobs, Unfinished) ELSE jobs, next)
  BY DEF Accept
<1> DEFINE next  == [to EXCEPT !.revision = @ + 1]
           added == input.branch /\ to.eligible \ input.eligible # {}
           js    == IF added THEN Supersede(jobs, Unfinished) ELSE jobs
<1>2. to \in InputRecord /\ to.revision = input.revision /\ to.branch = input.branch
  BY SuccessorFacts
<1>3. /\ next \in InputRecord /\ next.revision = input.revision + 1
      /\ next.branch = input.branch
  BY <1>2 DEF InputRecord
<1>4. Onward(jobs)
  BY PresentFacts DEF Onward, Jobs
<1>5. Onward(js)
  BY <1>4, SupersedeOnward
<1>6. input' = next /\ Enqueue(js, next)
      /\ (plan' = plan \/ (input.branch /\ plan' = [input |-> next, kind |-> "branch", left |-> {}]))
  BY <1>1 DEF Publish
<1> HIDE DEF js, next
<1>7. plan' # NoPlan =>
        /\ plan' \in PlanRecord /\ plan'.input.revision <= input'.revision
        /\ plan'.input.revision < input'.revision \/ input'.branch
  <2>1. CASE plan' = plan
    <3>1. plan # NoPlan => plan.input.revision \in Nat
      BY PresentFacts DEF PlanRecord, InputRecord
    <3> QED BY <2>1, <3>1, <1>3, <1>6, PresentFacts
  <2>2. CASE input.branch /\ plan' = [input |-> next, kind |-> "branch", left |-> {}]
    <3>1. plan' \in PlanRecord /\ plan'.input = next
      BY <2>2, <1>3 DEF PlanRecord
    <3>2. plan'.input.revision <= input'.revision
      BY <3>1, <1>3, <1>6, PresentFacts
    <3>3. input' = next /\ next.branch = input.branch /\ input.branch
      BY <2>2, <1>3, <1>6
    <3>4. input'.branch
      BY <3>3
    <3> QED BY <3>1, <3>2, <3>4
  <2> QED BY <1>6, <2>1, <2>2
<1>8. input' \in InputRecord /\ input'.revision >= input.revision /\ input'.revision \notin Jobs
  BY <1>3, <1>6, PresentFacts
<1> QED BY <1>5, <1>6, <1>7, <1>8, EnqueueAdvances

LEMMA PublishedByHand ==
  ASSUME PlanInv, Fence, NEW branch \in BOOLEAN, NEW current \in Tasks \cup {NoTask},
         NEW kind \in {"manual", "branch"}, NEW next,
         next = [input EXCEPT !.revision = @ + 1, !.branch = branch, !.current = current],
         input' = next, Publish(next, kind, {})
  PROVE  PlanInv'
<1>1. next \in InputRecord /\ next.revision = input.revision + 1
  <2>1. /\ input.revision \in Nat /\ input.eligible \in SUBSET Tasks
        /\ input.settings \in BOOLEAN
    BY PresentFacts DEF InputRecord
  <2>2. next = [revision |-> input.revision + 1, eligible |-> input.eligible,
                current |-> current, branch |-> branch, settings |-> input.settings]
    BY PresentFacts DEF InputRecord
  <2> QED BY <2>1, <2>2 DEF InputRecord
<1>2. plan' = [input |-> next, kind |-> kind, left |-> {}]
  BY DEF Publish
<1>3. plan' \in PlanRecord /\ plan'.input = next /\ plan'.kind = kind
  BY <1>1, <1>2 DEF PlanRecord
<1>4. next.revision > input.revision /\ next.revision <= next.revision
  BY <1>1, PresentFacts
<1>5. plan' # NoPlan
  BY <1>3, JobsAssumption
<1> QED BY <1>1, <1>3, <1>4, <1>5, FenceAdvances

LEMMA HandKeeps ==
  ASSUME PlanInv, \/ \E order : ManualOrder(order)
                  \/ VisitBranch
  PROVE  PlanInv'
<1>0. /\ input \in InputRecord
      /\ input = [revision |-> input.revision, eligible |-> input.eligible,
                  current |-> input.current, branch |-> input.branch,
                  settings |-> input.settings]
      /\ input.branch \in BOOLEAN /\ input.current \in Tasks \cup {NoTask}
  BY PresentFacts DEF InputRecord
<1>1. CASE \E order : ManualOrder(order)
  <2> DEFINE next == [input EXCEPT !.revision = @ + 1]
  <2>1. Fence /\ input' = next /\ Publish(next, "manual", {})
    BY <1>1 DEF ManualOrder
  <2>2. next = [input EXCEPT !.revision = @ + 1, !.branch = input.branch,
                             !.current = input.current]
    BY <1>0
  <2> HIDE DEF next
  <2> QED BY <1>0, <2>1, <2>2, PublishedByHand
<1>2. CASE VisitBranch
  <2> DEFINE next == [input EXCEPT !.revision = @ + 1, !.branch = TRUE, !.current = NoTask]
  <2>1. Fence /\ input' = next /\ Publish(next, "branch", {})
    BY <1>2 DEF VisitBranch
  <2> HIDE DEF next
  <2> QED BY <2>1, PublishedByHand DEF next
<1> QED BY <1>1, <1>2

LEMMA StartKeeps ==
  ASSUME PlanInv, StartPlanned
  PROVE  PlanInv'
<1>1. Fence /\ input' = [input EXCEPT !.revision = @ + 1] /\ started' = input'.revision
      /\ plan' = plan
  BY DEF StartPlanned
<1>2. input' \in InputRecord /\ input'.revision = input.revision + 1 /\ input.revision \in Nat
  BY <1>1, PresentFacts DEF InputRecord
<1>3. plan # NoPlan => plan.input.revision \in Nat /\ plan.input.revision <= input.revision
  BY PresentFacts DEF PlanRecord, InputRecord
<1> QED BY <1>1, <1>2, <1>3, PresentFacts, FenceAdvances

LEMMA InputBranch ==
  ASSUME NEW in \in InputRecord, NEW b \in BOOLEAN
  PROVE  /\ [in EXCEPT !.revision = @ + 1, !.branch = b] \in InputRecord
         /\ [in EXCEPT !.revision = @ + 1, !.branch = b].revision = in.revision + 1
<1>1. in = [revision |-> in.revision, eligible |-> in.eligible, current |-> in.current,
            branch |-> in.branch, settings |-> in.settings]
  BY DEF InputRecord
<1>2. [in EXCEPT !.revision = @ + 1, !.branch = b] =
        [revision |-> in.revision + 1, eligible |-> in.eligible, current |-> in.current,
         branch |-> b, settings |-> in.settings]
  <2> DEFINE one == [in EXCEPT !.revision = @ + 1]
             two == [one EXCEPT !.branch = b]
  <2>1. one = [revision |-> in.revision + 1, eligible |-> in.eligible, current |-> in.current,
               branch |-> in.branch, settings |-> in.settings]
    BY <1>1
  <2> HIDE DEF one
  <2>2. two = [revision |-> in.revision + 1, eligible |-> in.eligible, current |-> in.current,
               branch |-> b, settings |-> in.settings]
    BY <2>1
  <2>3. [in EXCEPT !.revision = @ + 1, !.branch = b] = two
    BY DEF one, two
  <2> QED BY <2>2, <2>3
<1> QED BY <1>2 DEF InputRecord

Claimed(js, n) ==
  [js EXCEPT ![n].status = "running", ![n].live = TRUE, ![n].attempts = @ + 1]

LEMMA ClaimedFacts ==
  ASSUME NEW S, NEW js \in [S -> JobRecord], NEW n \in S
  PROVE  /\ Claimed(js, n) \in [S -> JobRecord]
         /\ Claimed(js, n)[n].status = "running" /\ Claimed(js, n)[n].input = js[n].input
         /\ \A j \in S \ {n} : Claimed(js, n)[j] = js[j]
<1> DEFINE one == [js EXCEPT ![n].status = "running"]
           two == [one EXCEPT ![n].live = TRUE]
           three == [two EXCEPT ![n].attempts = @ + 1]
<1>1. one \in [S -> JobRecord] /\ one[n].status = "running" /\ one[n].input = js[n].input
      /\ \A j \in S \ {n} : one[j] = js[j]
  BY DEF JobRecord
<1> HIDE DEF one
<1>2. two \in [S -> JobRecord] /\ two[n].status = "running" /\ two[n].input = js[n].input
      /\ \A j \in S \ {n} : two[j] = js[j]
  BY <1>1 DEF JobRecord
<1> HIDE DEF two
<1>3. three \in [S -> JobRecord] /\ three[n].status = "running"
      /\ three[n].input = js[n].input
      /\ \A j \in S \ {n} : three[j] = js[j]
  BY <1>2 DEF JobRecord
<1>4. Claimed(js, n) = three
  BY DEF Claimed, three, two, one
<1> HIDE DEF three
<1> QED BY <1>3, <1>4

LEMMA ResumeKeeps ==
  ASSUME PlanInv, NEW order, ResumeRound(order)
  PROVE  PlanInv'
<1> DEFINE next == [input EXCEPT !.revision = @ + 1, !.branch = FALSE]
           last == [next EXCEPT !.revision = @ + 1]
           js   == Supersede(jobs, Unfinished)
<1>1. /\ input' = last /\ Enqueue(js, last)
      /\ plan' = NoPlan \/ Publish(next, "manual", {})
  BY DEF ResumeRound
<1>2. /\ next \in InputRecord /\ next.revision = input.revision + 1
      /\ last \in InputRecord /\ last.revision = input.revision + 2
  <2>1. next \in InputRecord /\ next.revision = input.revision + 1
    BY PresentFacts, InputBranch
  <2> HIDE DEF next
  <2>2. last \in InputRecord /\ last.revision = next.revision + 1
    BY <2>1 DEF InputRecord
  <2> QED BY <2>1, <2>2, PresentFacts
<1>3. Onward(js)
  BY SupersedeOnward
<1> HIDE DEF next, last, js
<1>4. plan' # NoPlan =>
        /\ plan' \in PlanRecord /\ plan'.input.revision <= input'.revision
        /\ plan'.input.revision < input'.revision \/ input'.branch
  <2> SUFFICES ASSUME plan' # NoPlan
               PROVE  plan' \in PlanRecord /\ plan'.input.revision < input'.revision
                      /\ plan'.input.revision <= input'.revision
    OBVIOUS
  <2>1. plan' = [input |-> next, kind |-> "manual", left |-> {}]
    BY <1>1 DEF Publish
  <2>2. plan' \in PlanRecord /\ plan'.input = next
    BY <2>1, <1>2 DEF PlanRecord
  <2> QED BY <2>2, <1>1, <1>2, PresentFacts
<1>5. input' \in InputRecord /\ input'.revision >= input.revision /\ input'.revision \notin Jobs
  BY <1>1, <1>2, PresentFacts
<1> QED BY <1>1, <1>3, <1>4, <1>5, EnqueueAdvances

(* The present input has a plan already only if its job is over or waits for    *)
(* the branch visit to end.                                                    *)
LEMMA PlannedAlready ==
  ASSUME PlanInv, plan # NoPlan, plan.input.revision = input.revision,
         NEW j \in Jobs, jobs[j].status \in Unfinished
  PROVE  /\ input.revision \in Jobs
         /\ j = input.revision => jobs[j].status = "pending" /\ input.branch
  BY DEF PlanInv, PlanIsPast

LEMMA ClaimJobKeeps ==
  ASSUME PlanInv, NEW w \in Planners, ClaimJob(w)
  PROVE  PlanInv'
<1> DEFINE js == Supersede(jobs, IF latest \in Running THEN {} ELSE {"running"})
           claimed == Claimed(js, latest)
<1>0. latest \in Jobs /\ jobs \in [DOMAIN jobs -> JobRecord] /\ Jobs = DOMAIN jobs
  BY PresentFacts DEF ClaimJob, PlanInv, JobsMatch, Jobs
<1>1. /\ DOMAIN js = Jobs /\ js \in [Jobs -> JobRecord]
      /\ \A j \in Jobs : js[j].input = jobs[j].input
      /\ js[latest] = jobs[latest]
      /\ \A j \in Jobs \ {latest} : js[j].status # "running"
                                 /\ js[j].status \in {jobs[j].status, "superseded"}
  <2>1. CASE latest \in Running
    <3>1. \A j \in Jobs \ {latest} : jobs[j].status # "running"
      BY <2>1 DEF PlanInv, OneRunning, Running
    <3>2. js = Supersede(jobs, {})
      BY <2>1
    <3> QED BY <1>0, <3>1, <3>2, SupersedeFacts
  <2>2. CASE latest \notin Running
    <3>1. jobs[latest].status # "running"
      BY <1>0, <2>2 DEF Running
    <3>2. js = Supersede(jobs, {"running"})
      BY <2>2
    <3> HIDE DEF js
    <3>3. \A j \in Jobs : js[j].input = jobs[j].input
                        /\ (jobs[j].status # "running" => js[j] = jobs[j])
                        /\ (jobs[j].status = "running" => js[j].status = "superseded")
      BY <1>0, <3>2, SupersedeFacts
    <3> QED BY <1>0, <3>1, <3>2, <3>3, SupersedeFacts
  <2> QED BY <2>1, <2>2
<1>2. UNCHANGED <<input, started, plan>>
  BY DEF ClaimJob
<1>3. CASE Save(js, latest) /\ ~Claimable(jobs[latest])
  <2>1. jobs[latest].status # "running"
    BY <1>3 DEF Claimable
  <2> HIDE DEF js
  <2>2. /\ latest' = latest /\ Jobs' \subseteq Jobs /\ jobs' \in [Jobs' -> JobRecord]
        /\ \A j \in Jobs' : jobs'[j] = js[j]
        /\ latest \in Jobs'
    BY <1>0, <1>1, <1>3, SaveFacts
  <2>3. \A j \in Jobs' : jobs'[j].status # "running"
    BY <1>0, <1>1, <2>1, <2>2
  <2>4. OneRunning'
    BY <2>3 DEF OneRunning, Running
  <2>5. \A j \in Jobs' : jobs'[j].status \in Unfinished => jobs[j].status = jobs'[j].status
    BY <1>1, <2>2 DEF Unfinished
  <2>6. latest = input.revision => jobs[latest].status # "superseded"
    BY <1>0 DEF PlanInv, JobsMatch
  <2>7. plan # NoPlan /\ plan.input.revision = input.revision =>
          /\ \A j \in Jobs' : j # input.revision /\ jobs'[j].status \in Unfinished =>
                              jobs[j].status \in Unfinished
          /\ input.revision \in Jobs' =>
               \/ jobs'[input.revision].status \notin Unfinished
               \/ jobs'[input.revision].status = "pending" /\ input.branch
    BY <2>2, <2>5, PlannedAlready
  <2> QED BY <1>1, <1>2, <2>2, <2>4, <2>6, <2>7, JobsMove
<1>4. CASE Save(claimed, latest) /\ Claimable(jobs[latest])
  <2>0. jobs[latest] \in JobRecord /\ js[latest] \in JobRecord
    BY <1>0, <1>1
  <2> HIDE DEF js
  <2>1. /\ claimed \in [Jobs -> JobRecord] /\ DOMAIN claimed = Jobs
        /\ claimed[latest].status = "running" /\ claimed[latest].input = jobs[latest].input
        /\ \A j \in Jobs \ {latest} : claimed[j] = js[j]
    <3>1. /\ claimed \in [Jobs -> JobRecord]
          /\ claimed[latest].status = "running" /\ claimed[latest].input = js[latest].input
          /\ \A j \in Jobs \ {latest} : claimed[j] = js[j]
      BY <1>0, <1>1, ClaimedFacts
    <3> QED BY <3>1, <1>0, <1>1
  <2> HIDE DEF claimed
  <2>2. /\ latest' = latest /\ Jobs' \subseteq Jobs /\ jobs' \in [Jobs' -> JobRecord]
        /\ \A j \in Jobs' : jobs'[j] = claimed[j]
        /\ latest \in Jobs'
    BY <1>0, <1>4, <2>1, SaveFacts
  <2>3. \A j \in Jobs' : jobs'[j].status = "running" => j = latest
    BY <1>1, <2>1, <2>2
  <2>4. OneRunning'
    BY <2>3 DEF OneRunning, Running
  <2>5. ~(plan # NoPlan /\ plan.input.revision = input.revision)
    <3> SUFFICES ASSUME plan # NoPlan, plan.input.revision = input.revision
                 PROVE  FALSE
      OBVIOUS
    <3>1. jobs[latest].status \in Unfinished
      BY <1>4 DEF Claimable, Unfinished
    <3>2. input.revision \in Jobs
      BY <3>1, <1>0, PlannedAlready
    <3>3. latest = input.revision /\ jobs[latest].input = input
      BY <3>2 DEF PlanInv, JobsMatch
    <3>4. jobs[latest].status = "pending" /\ input.branch
      BY <3>1, <3>3, <1>0, PlannedAlready
    <3> QED BY <3>3, <3>4, <1>4 DEF Claimable, Blocked
  <2>6. \A j \in Jobs' : jobs'[j].input = jobs[j].input
    BY <1>1, <2>1, <2>2
  <2>7. jobs'[latest].status # "superseded"
    BY <2>1, <2>2
  <2> QED BY <1>2, <2>2, <2>4, <2>5, <2>6, <2>7, JobsMove
<1>5. /\ Claimable(jobs[latest]) => Save(claimed, latest)
      /\ ~Claimable(jobs[latest]) => Save(js, latest)
  BY DEF ClaimJob, Claimed
<1> HIDE DEF js, claimed
<1> QED BY <1>3, <1>4, <1>5

(* A step that only changes one job, and not for the present plan to be        *)
(* published once more.                                                       *)
LEMMA OneJobMoves ==
  ASSUME PlanInv, NEW n \in Jobs, UNCHANGED <<input, latest, plan, started>>,
         jobs' \in [Jobs -> JobRecord],
         \A j \in Jobs \ {n} : jobs'[j] = jobs[j],
         jobs'[n].input = jobs[n].input, jobs'[n].status # "superseded",
         \/ jobs'[n].status = jobs[n].status
         \/ jobs[n].status = "running" /\ jobs'[n].status # "running"
  PROVE  PlanInv'
<1>1. Jobs' = Jobs
  BY DEF Jobs
<1>2. \A j \in Jobs : jobs'[j].status = "running" => jobs[j].status = "running"
  OBVIOUS
<1>3. OneRunning'
  BY <1>1, <1>2 DEF OneRunning, Running, PlanInv
<1>4. \A j \in Jobs : jobs'[j].status \in Unfinished => jobs[j].status \in Unfinished
  BY DEF Unfinished
<1>5. latest \in Jobs /\ latest = input.revision => jobs'[latest].status # "superseded"
  BY DEF PlanInv, JobsMatch
<1>6. plan # NoPlan /\ plan.input.revision = input.revision =>
        /\ \A j \in Jobs : j # input.revision /\ jobs'[j].status \in Unfinished =>
                              jobs[j].status \in Unfinished
        /\ input.revision \in Jobs =>
             \/ jobs'[input.revision].status \notin Unfinished
             \/ jobs'[input.revision].status = "pending" /\ input.branch
  BY <1>4, PlannedAlready DEF Unfinished
<1> QED BY <1>1, <1>3, <1>4, <1>5, <1>6, JobsMove

LEMMA NothingMoves ==
  ASSUME PlanInv, UNCHANGED <<input, jobs, latest, plan, started>>
  PROVE  PlanInv'
  BY DEF PlanInv, PlanTypeOK, JobsMatch, OneRunning, PlanIsPast, NewestIsQueued, Jobs, Running

(* A result for work that is no longer the present input is dropped, and the    *)
(* present input queued.                                                       *)
LEMMA StaleKeeps ==
  ASSUME PlanInv, NEW n \in Running, Stale(n),
         Enqueue(Supersede(jobs, {"running"}), input), UNCHANGED <<input, plan, started>>
  PROVE  PlanInv'
<1> DEFINE js == Supersede(jobs, {"running"})
           r == input.revision
<1>1. n \in Jobs /\ jobs[n].status = "running"
  BY DEF Running
<1>2. n # r
  BY <1>1 DEF Stale, PlanInv, JobsMatch
<1>3. /\ DOMAIN js = Jobs /\ js \in [Jobs -> JobRecord]
      /\ \A j \in Jobs : js[j].input = jobs[j].input /\ js[j].status # "running"
      /\ \A j \in Jobs : jobs[j].status # "running" => js[j] = jobs[j]
      /\ \A j \in Jobs : js[j].status \in {jobs[j].status, "superseded"}
  <2>1. jobs \in [DOMAIN jobs -> JobRecord] /\ Jobs = DOMAIN jobs
    BY PresentFacts DEF Jobs
  <2> HIDE DEF js
  <2>2. /\ DOMAIN js = Jobs /\ js \in [Jobs -> JobRecord]
        /\ \A j \in Jobs :
             /\ js[j].input = jobs[j].input
             /\ jobs[j].status \notin {"running"} => js[j] = jobs[j]
             /\ jobs[j].status \in {"running"} => js[j].status = "superseded"
    BY <2>1, SupersedeFacts DEF js
  <2>3. \A j \in Jobs :
          /\ jobs[j].status # "running" => js[j] = jobs[j]
          /\ jobs[j].status = "running" => js[j].status = "superseded"
    BY <2>2
  <2>4. \A j \in Jobs : js[j].status # "running"
                       /\ js[j].status \in {jobs[j].status, "superseded"}
    BY <2>3
  <2> QED BY <2>2, <2>3, <2>4
<1>4. CASE r \in Jobs
  <2>1. latest = r /\ jobs[r].status # "superseded" /\ jobs[r].status # "running"
    BY <1>1, <1>2, <1>4 DEF PlanInv, JobsMatch, OneRunning, Running
  <2> HIDE DEF js
  <2>2. Save(js, r)
    BY <1>3, <1>4 DEF Enqueue, js
  <2>3. /\ latest' = latest /\ Jobs' \subseteq Jobs /\ jobs' \in [Jobs' -> JobRecord]
        /\ \A j \in Jobs' : jobs'[j] = js[j]
        /\ latest \in Jobs'
    BY <1>3, <1>4, <2>1, <2>2, SaveFacts
  <2>4. jobs'[latest] = jobs[latest]
    BY <1>3, <1>4, <2>1, <2>3
  <2>5. OneRunning'
    BY <1>3, <2>3 DEF OneRunning, Running
  <2>6. \A j \in Jobs' : jobs'[j].input = jobs[j].input /\
          (jobs'[j].status \in Unfinished => jobs[j].status \in Unfinished)
    BY <1>3, <2>3 DEF Unfinished
  <2>7. plan # NoPlan /\ plan.input.revision = input.revision =>
          /\ \A j \in Jobs' : j # input.revision /\ jobs'[j].status \in Unfinished =>
                              jobs[j].status \in Unfinished
          /\ input.revision \in Jobs' =>
               \/ jobs'[input.revision].status \notin Unfinished
               \/ jobs'[input.revision].status = "pending" /\ input.branch
    BY <1>4, <2>1, <2>4, <2>6, PlannedAlready
  <2> QED BY <2>1, <2>3, <2>4, <2>5, <2>6, <2>7, JobsMove
<1>5. CASE r \notin Jobs
  <2>1. plan # NoPlan => plan.input.revision # r
    BY <1>1, <1>5, PlannedAlready DEF Unfinished
  <2>2. plan # NoPlan => plan.input.revision < r
    BY <2>1, PresentFacts DEF PlanRecord, InputRecord
  <2>3. Onward(js)
    BY SupersedeOnward
  <2> HIDE DEF js
  <2>4. Enqueue(js, input')
    BY DEF js
  <2>5. input' \in InputRecord /\ input'.revision >= input.revision /\ input'.revision \notin Jobs
    BY <1>5, PresentFacts
  <2> QED BY <2>2, <2>3, <2>4, <2>5, PresentFacts, EnqueueAdvances
<1> QED BY <1>4, <1>5

LEMMA PersistKeeps ==
  ASSUME PlanInv, NEW w \in Planners, Persist(w)
  PROVE  PlanInv'
<1> DEFINE n == worker[w].job
           j == jobs[n]
<1>0. UNCHANGED <<input, started>>
  BY DEF Persist
<1>1. CASE ~Holds(w) /\ UNCHANGED <<jobs, latest, plan>>
  BY <1>0, <1>1, NothingMoves
<1>2. ASSUME Holds(w)
      PROVE  n \in Running /\ n \in Jobs /\ j.status = "running" /\ j \in JobRecord
  BY <1>2, PresentFacts DEF Holds, Running
<1>3. CASE Holds(w) /\ Stale(n) /\ Enqueue(Supersede(jobs, {"running"}), input) /\ UNCHANGED plan
  BY <1>0, <1>2, <1>3, StaleKeeps
<1>4. CASE Holds(w) /\ ~Stale(n) /\ UNCHANGED <<latest, plan>>
           /\ \E status \in {"pending", "failed"} :
                jobs' = [jobs EXCEPT ![n].live = FALSE, ![n].due = FALSE, ![n].status = status]
  <2>1. PICK status \in {"pending", "failed"} :
          jobs' = [jobs EXCEPT ![n].live = FALSE, ![n].due = FALSE, ![n].status = status]
    BY <1>4
  <2> DEFINE new == [j EXCEPT !.live = FALSE, !.due = FALSE, !.status = status]
  <2>2. new \in JobRecord /\ new.input = j.input /\ new.status = status
    BY <1>2, <1>4 DEF JobRecord
  <2>3. jobs \in [Jobs -> JobRecord]
    BY PresentFacts
  <2>4. jobs' = [jobs EXCEPT ![n] = new]
    BY <2>1, <2>3, <1>2, <1>4
  <2> HIDE DEF new
  <2>5. jobs' \in [Jobs -> JobRecord] /\ jobs'[n] = new
        /\ \A i \in Jobs \ {n} : jobs'[i] = jobs[i]
    BY <1>2, <1>4, <2>2, <2>3, <2>4
  <2> QED BY <1>0, <1>2, <1>4, <2>2, <2>5, OneJobMoves
<1>5. CASE Holds(w) /\ ~Stale(n) /\ UNCHANGED latest
           /\ \E left \in SUBSET Tasks, status \in {"complete", "partial"} :
                /\ Publish(j.input, "engine", left)
                /\ jobs' = [jobs EXCEPT ![n].live = FALSE, ![n].status = status]
  <2>1. PICK left \in SUBSET Tasks, status \in {"complete", "partial"} :
          /\ plan' = [input |-> j.input, kind |-> "engine", left |-> left]
          /\ jobs' = [jobs EXCEPT ![n].live = FALSE, ![n].status = status]
    BY <1>5 DEF Publish
  <2> DEFINE new == [j EXCEPT !.live = FALSE, !.status = status]
  <2>2. new \in JobRecord /\ new.input = j.input /\ new.status = status
    BY <1>2, <1>5 DEF JobRecord
  <2>3. jobs \in [Jobs -> JobRecord]
    BY PresentFacts
  <2>4. jobs' = [jobs EXCEPT ![n] = new]
    BY <2>1, <2>3, <1>2, <1>5
  <2> HIDE DEF new
  <2>5. jobs' \in [Jobs -> JobRecord] /\ jobs'[n] = new /\ Jobs' = Jobs
        /\ \A i \in Jobs \ {n} : jobs'[i] = jobs[i]
    BY <1>2, <1>5, <2>2, <2>3, <2>4 DEF Jobs
  <2>6. latest = n /\ j.input = input /\ n = input.revision
    BY <1>2, <1>5, PresentFacts DEF Stale
  <2>7. plan' \in PlanRecord /\ plan'.input = input
    BY <2>1, <2>6, PresentFacts DEF PlanRecord
  <2>8. JobsMatch'
    BY <1>0, <1>2, <1>5, <2>2, <2>5, <2>6 DEF JobsMatch, PlanInv
  <2>9. OneRunning'
    <3>1. \A i \in Jobs : jobs'[i].status = "running" => jobs[i].status = "running"
      BY <2>2, <2>5
    <3> QED BY <2>5, <3>1 DEF OneRunning, Running, PlanInv
  <2>10. PlanIsPast'
    BY <1>0, <1>2, <1>5, <2>2, <2>5, <2>6, <2>7, PresentFacts DEF PlanIsPast, Unfinished
  <2>11. NewestIsQueued'
    BY <1>0, <1>5, <2>2, <2>5, <2>6 DEF NewestIsQueued
  <2> QED BY <1>0, <2>5, <2>7, <2>8, <2>9, <2>10, <2>11, PresentFacts DEF PlanInv, PlanTypeOK
<1>6. CASE /\ Holds(w) /\ ~Stale(n) /\ UNCHANGED latest
           /\ \E outcome \in Outcomes(j.input) :
                IF outcome \notin Failures /\ ValidOrder(j.input, outcome)
                THEN /\ Publish(j.input, "engine", outcome.left)
                     /\ jobs' = [jobs EXCEPT ![n].live = FALSE,
                                   ![n].status = IF outcome.left = {} THEN "complete" ELSE "partial"]
                ELSE /\ jobs' = [jobs EXCEPT ![n].live = FALSE, ![n].due = FALSE,
                                   ![n].status = IF outcome = Unavailable /\ j.attempts < MaxAttempts
                                                 THEN "pending" ELSE "failed"]
                     /\ UNCHANGED plan
  <2>1. PICK outcome \in Outcomes(j.input) :
                IF outcome \notin Failures /\ ValidOrder(j.input, outcome)
                THEN /\ Publish(j.input, "engine", outcome.left)
                     /\ jobs' = [jobs EXCEPT ![n].live = FALSE,
                                   ![n].status = IF outcome.left = {} THEN "complete" ELSE "partial"]
                ELSE /\ jobs' = [jobs EXCEPT ![n].live = FALSE, ![n].due = FALSE,
                                   ![n].status = IF outcome = Unavailable /\ j.attempts < MaxAttempts
                                                 THEN "pending" ELSE "failed"]
                     /\ UNCHANGED plan
    BY <1>6
  <2>2. CASE outcome \notin Failures /\ ValidOrder(j.input, outcome)
    <3>1. outcome.left \in SUBSET Tasks
      <4>1. outcome \in Routes(j.input.eligible)
        BY <2>2 DEF ValidOrder
      <4>2. outcome.left \in SUBSET j.input.eligible
        BY <4>1 DEF Routes
      <4>3. j.input.eligible \in SUBSET Tasks
        BY <1>2, <1>6 DEF JobRecord, InputRecord
      <4> QED BY <4>2, <4>3
    <3>2. PICK status \in {"complete", "partial"} :
            status = IF outcome.left = {} THEN "complete" ELSE "partial"
      OBVIOUS
    <3> QED BY <1>5, <1>6, <2>1, <2>2, <3>1, <3>2
  <2>3. CASE ~(outcome \notin Failures /\ ValidOrder(j.input, outcome))
    <3>1. PICK status \in {"pending", "failed"} :
            status = IF outcome = Unavailable /\ j.attempts < MaxAttempts
                     THEN "pending" ELSE "failed"
      OBVIOUS
    <3> QED BY <1>4, <1>6, <2>1, <2>3, <3>1
  <2> QED BY <2>2, <2>3
<1> QED BY <1>1, <1>3, <1>6 DEF Persist

LEMMA PlansKept ==
  ASSUME PlanInv, NEW n \in Jobs, BecomeDue(n) \/ Expire(n)
  PROVE  PlanInv'
<1>0. jobs \in [Jobs -> JobRecord] /\ jobs[n] \in JobRecord
  BY PresentFacts
<1>1. CASE BecomeDue(n)
  <2>1. /\ jobs' \in [Jobs -> JobRecord] /\ \A j \in Jobs \ {n} : jobs'[j] = jobs[j]
        /\ jobs'[n].input = jobs[n].input /\ jobs'[n].status = jobs[n].status
        /\ jobs[n].status # "superseded"
    BY <1>0, <1>1 DEF BecomeDue, JobRecord
  <2> QED BY <1>1, <2>1, OneJobMoves DEF BecomeDue
<1>2. CASE Expire(n)
  <2>1. /\ jobs' \in [Jobs -> JobRecord] /\ \A j \in Jobs \ {n} : jobs'[j] = jobs[j]
        /\ jobs'[n].input = jobs[n].input /\ jobs'[n].status = jobs[n].status
        /\ jobs[n].status # "superseded"
    BY <1>0, <1>2 DEF Expire, JobRecord, Running
  <2> QED BY <1>2, <2>1, OneJobMoves DEF Expire
<1> QED BY <1>1, <1>2

LEMMA DieKeeps ==
  ASSUME PlanInv, NEW w \in Planners, DieAtPersist(w)
  PROVE  PlanInv'
<1> DEFINE n == worker[w].job
<1>1. CASE ~Holds(w)
  BY <1>1, NothingMoves DEF DieAtPersist
<1>2. CASE Holds(w)
  <2>0. n \in Jobs /\ jobs[n].status = "running" /\ jobs \in [Jobs -> JobRecord]
        /\ jobs[n] \in JobRecord
    BY <1>2, PresentFacts DEF Holds
  <2>1. jobs' = [jobs EXCEPT ![n].live = FALSE]
    BY <1>2 DEF DieAtPersist
  <2>2. /\ jobs' \in [Jobs -> JobRecord] /\ \A j \in Jobs \ {n} : jobs'[j] = jobs[j]
        /\ jobs'[n].input = jobs[n].input /\ jobs'[n].status = jobs[n].status
    BY <2>0, <2>1 DEF JobRecord
  <2> QED BY <2>0, <2>2, OneJobMoves DEF DieAtPersist
<1> QED BY <1>1, <1>2

LEMMA PlanStepInv ==
  ASSUME PlanInv, [PlanNext]_planVars
  PROVE  PlanInv'
<1>1. CASE UNCHANGED planVars
  BY <1>1, NothingMoves DEF planVars
<1> QED BY <1>1, AcceptKeeps, StartKeeps, HandKeeps, ResumeKeeps, ClaimJobKeeps, PersistKeeps,
           DieKeeps, PlansKept DEF PlanNext

LEMMA PlanInitInv == PlanInit => PlanInv
<1> SUFFICES ASSUME PlanInit PROVE PlanInv
  OBVIOUS
<1>1. Jobs = {} /\ latest = NoJob /\ plan = NoPlan /\ jobs = <<>>
  BY DEF PlanInit, Jobs
<1>2. input \in InputRecord
  BY DEF PlanInit, InputRecord
<1>3. jobs \in [Jobs -> JobRecord]
  BY <1>1
<1> QED BY <1>1, <1>2, <1>3 DEF PlanInv, PlanTypeOK, JobsMatch, OneRunning, Running, PlanIsPast,
                                NewestIsQueued

(* The queue of planning jobs stays within the strengthened invariant.         *)
THEOREM PlanInvariant == PlanSpec => []PlanInv
<1>1. PlanInv /\ [PlanNext]_planVars => PlanInv'
  BY PlanStepInv
<1> QED BY <1>1, PlanInitInv, PTL DEF PlanSpec

(* The newest planning input is never left without a job or a plan the driver   *)
(* chose, whatever workers claim, lose, drop or repeat (queue.ts, worker.ts).  *)
THEOREM NewestStaysQueued == PlanSpec => []NewestIsQueued
<1>1. PlanInv => NewestIsQueued
  BY DEF PlanInv
<1> QED BY <1>1, PlanInvariant, PTL

-----------------------------------------------------------------------------
PlanAdvances ==
  plan' \notin {plan, NoPlan}
    => /\ plan'.input.eligible = input'.eligible /\ plan'.input.current = input'.current
       /\ plan # NoPlan => plan'.input.revision > plan.input.revision

(* A plan of a later input than the present one.                               *)
LEMMA LaterPlan ==
  ASSUME PlanInv, NEW next \in InputRecord, next.revision > input.revision,
         plan'.input = next,
         next.eligible = input'.eligible, next.current = input'.current
  PROVE  PlanAdvances
<1>1. plan # NoPlan => plan.input.revision \in Nat /\ plan.input.revision <= input.revision
  BY PresentFacts DEF PlanRecord, InputRecord
<1>2. next.revision \in Nat /\ input.revision \in Nat
  BY PresentFacts DEF InputRecord
<1> QED BY <1>1, <1>2 DEF PlanAdvances

LEMMA PersistAdvances ==
  ASSUME PlanInv, NEW w \in Planners, Persist(w)
  PROVE  PlanAdvances
<1> DEFINE n == worker[w].job
           j == jobs[n]
<1>1. CASE plan' = plan
  BY <1>1 DEF PlanAdvances
<1>2. CASE plan' # plan
  <2>0. input' = input /\ Holds(w) /\ ~Stale(n)
        /\ \E outcome \in Outcomes(j.input) : Publish(j.input, "engine", outcome.left)
    BY <1>2 DEF Persist
  <2>1. Holds(w) /\ ~Stale(n) /\ plan'.input = j.input /\ input' = input
    BY <2>0 DEF Publish
  <2>2. n \in Jobs /\ j.status = "running" /\ latest = n /\ j.input = input
    BY <2>1 DEF Holds, Stale
  <2>3. n = input.revision
    BY <2>2, PresentFacts
  <2>4. plan # NoPlan => plan.input.revision # input.revision
    BY <2>2, <2>3, PlannedAlready DEF Unfinished
  <2>5. plan # NoPlan => plan.input.revision \in Nat /\ input.revision \in Nat
                         /\ plan.input.revision <= input.revision
    BY PresentFacts DEF PlanRecord, InputRecord
  <2> QED BY <2>1, <2>2, <2>4, <2>5 DEF PlanAdvances
<1> QED BY <1>1, <1>2

LEMMA ResumeAdvances ==
  ASSUME PlanInv, NEW order, ResumeRound(order)
  PROVE  PlanAdvances
<1> DEFINE next == [input EXCEPT !.revision = @ + 1, !.branch = FALSE]
           last == [next EXCEPT !.revision = @ + 1]
<1>1. input' = last /\ (plan' = NoPlan \/ plan'.input = next)
  BY DEF ResumeRound, Publish
<1>2. next \in InputRecord /\ next.revision = input.revision + 1
  BY PresentFacts, InputBranch
<1>3. last.eligible = next.eligible /\ last.current = next.current
  BY <1>2 DEF InputRecord
<1> HIDE DEF next, last
<1>4. next.revision > input.revision
  BY <1>2, PresentFacts
<1>5. CASE plan' = NoPlan
  BY <1>5 DEF PlanAdvances
<1>6. CASE plan'.input = next
  BY <1>1, <1>2, <1>3, <1>4, <1>6, LaterPlan
<1> QED BY <1>1, <1>5, <1>6

LEMMA CommandAdvances ==
  ASSUME PlanInv, \/ Accept \/ VisitBranch
                  \/ \E order : ManualOrder(order)
  PROVE  PlanAdvances
<1>1. CASE plan' = plan
  BY <1>1 DEF PlanAdvances
<1>2. CASE plan'.input = input' /\ input' \in InputRecord /\ input'.revision > input.revision
  BY <1>2, LaterPlan
<1>3. CASE Accept
  <2>0. PICK to \in Successors(input) :
        LET next  == [to EXCEPT !.revision = @ + 1]
            added == input.branch /\ to.eligible \ input.eligible # {}
        IN  /\ input' = next
            /\ IF added THEN Publish(next, "branch", {}) ELSE UNCHANGED plan
            /\ Enqueue(IF added THEN Supersede(jobs, Unfinished) ELSE jobs, next)
    BY <1>3 DEF Accept
  <2>1. /\ input' = [to EXCEPT !.revision = @ + 1]
        /\ plan' = plan \/ plan'.input = [to EXCEPT !.revision = @ + 1]
    BY <2>0 DEF Publish
  <2>2. /\ [to EXCEPT !.revision = @ + 1] \in InputRecord
        /\ [to EXCEPT !.revision = @ + 1].revision = input.revision + 1
    BY SuccessorFacts DEF InputRecord
  <2>3. input'.revision > input.revision
    BY <2>1, <2>2, PresentFacts
  <2> QED BY <1>1, <1>2, <2>1, <2>2, <2>3
<1>4. CASE VisitBranch
  <2>1. /\ plan'.input = input'
        /\ input' = [input EXCEPT !.revision = @ + 1, !.branch = TRUE, !.current = NoTask]
    BY <1>4 DEF VisitBranch, Publish
  <2>2. input' \in InputRecord /\ input'.revision = input.revision + 1
    BY <2>1, PresentFacts, InputBranch DEF InputRecord
  <2> QED BY <1>2, <2>1, <2>2, PresentFacts
<1>5. CASE \E order : ManualOrder(order)
  <2>1. /\ plan'.input = input' /\ input' = [input EXCEPT !.revision = @ + 1]
    BY <1>5 DEF ManualOrder, Publish
  <2>2. input' \in InputRecord /\ input'.revision = input.revision + 1
    BY <2>1, PresentFacts DEF InputRecord
  <2> QED BY <1>2, <2>1, <2>2, PresentFacts
<1> QED BY <1>3, <1>4, <1>5

(* A plan is published for the work of that moment and replaces a plan for an  *)
(* older input only (persistPlanningResult, publishManual, publishBranch).     *)
THEOREM PlansOnlyAdvance == PlanSpec => PlansAdvance
<1>1. PlanInv /\ [PlanNext]_planVars => [PlanAdvances]_planVars
  <2> SUFFICES ASSUME PlanInv, PlanNext PROVE PlanAdvances
    OBVIOUS
  <2>1. CASE plan' = plan
    BY <2>1 DEF PlanAdvances
  <2> QED BY <2>1, CommandAdvances, ResumeAdvances, PersistAdvances
             DEF PlanNext, StartPlanned, ClaimJob, DieAtPersist, BecomeDue, Expire
<1>2. PlanSpec => [][PlanAdvances]_planVars
  BY <1>1, PlanInvariant, PTL DEF PlanSpec
<1> QED BY <1>2, PTL DEF PlansAdvance, PlanAdvances

-----------------------------------------------------------------------------
(* What a manager sees (MonitorView).                                        *)
ReadRecord ==
  [phase : {"idle", "arrived", "reading", "locked", "answered"}, epoch : Nat, etag : Nat,
   content : Nat, outdated : BOOLEAN, revision : Nat]

ViewRecord == [content : Nat, revision : Nat]

MonTypeOK ==
  /\ truth \in Nat
  /\ view \in ViewRecord
  /\ read \in [Reads -> ReadRecord]
  /\ page \in [revision : Nat, content : Nat, epoch : Nat, waiting : BOOLEAN]
  /\ answered \subseteq ViewRecord

(* Every answer is the view of its time: the stored one, or one that both     *)
(* content and revision have left behind.                                     *)
AnswersArePast ==
  /\ \A a \in answered :
       a = view \/ (a.revision < view.revision /\ a.content < view.content)
  /\ \A a \in answered : a.revision > 0
  /\ \A a, b \in answered : a.revision = b.revision => a = b
  /\ view.revision = 0 => view.content = 0 /\ answered = {}

(* A transaction that may still write has a snapshot no older than the view,  *)
(* and what it answered is an answer.                                         *)
SnapshotsCurrent ==
  /\ truth > 0 /\ view.content <= truth
  /\ \A r \in Reads :
    /\ (read[r].phase = "reading" /\ ~read[r].outdated) \/ read[r].phase = "locked" =>
         0 < read[r].content /\ view.content <= read[r].content /\ read[r].content <= truth
    /\ read[r].phase = "reading" => read[r].content <= truth
    /\ read[r].phase = "answered" =>
         [content |-> read[r].content, revision |-> read[r].revision] \in answered

(* One transaction at a time holds the row.                                   *)
OneHoldsRow ==
  \A r, q \in Reads : read[r].phase = "locked" /\ read[q].phase = "locked" => r = q

(* The request that is out is the only one of its epoch, and polls with what  *)
(* is shown.                                                                  *)
OneRequest ==
  /\ \A r, q \in Reads :
       read[r].epoch = read[q].epoch /\ read[r].epoch # Other => r = q
  /\ \A r \in Reads :
       /\ read[r].epoch <= page.epoch
       /\ read[r].phase # "idle" /\ read[r].epoch = page.epoch /\ page.waiting =>
            read[r].etag \in {0, page.revision}
  /\ page.waiting => page.epoch # Other
  /\ page.revision = 0 => page.content = 0

MonInv ==
  /\ MonTypeOK /\ AnswersArePast /\ SnapshotsCurrent /\ OneHoldsRow /\ OneRequest
  /\ RevisionsAreNewer /\ PageShowsRevision

LEMMA MonInitInv == MonInit => MonInv
  BY DEF MonInit, MonInv, MonTypeOK, ReadRecord, ViewRecord, AnswersArePast, SnapshotsCurrent,
         OneHoldsRow, OneRequest, RevisionsAreNewer, PageShowsRevision, NoRead, Other

LEMMA ChangeKeeps ==
  ASSUME MonInv, Change
  PROVE  MonInv'
<1> USE DEF MonInv, MonTypeOK, ReadRecord, ViewRecord, Other
<1>1. MonTypeOK'
  BY DEF Change, MonTypeOK
<1>2. AnswersArePast'
  BY DEF Change, AnswersArePast
<1>3. SnapshotsCurrent'
  BY DEF Change, SnapshotsCurrent
<1>4. OneHoldsRow'
  BY DEF Change, OneHoldsRow
<1>5. OneRequest'
  BY DEF Change, OneRequest
<1>6. RevisionsAreNewer'
  BY DEF Change, RevisionsAreNewer
<1>7. PageShowsRevision'
  BY DEF Change, PageShowsRevision
<1> QED BY <1>1, <1>2, <1>3, <1>4, <1>5, <1>6, <1>7

LEMMA AskKeeps ==
  ASSUME MonInv, NEW r \in Reads, Ask(r)
  PROVE  MonInv'
<1> USE DEF MonInv, MonTypeOK, ReadRecord, ViewRecord, Other
<1>1. MonTypeOK'
  BY DEF Ask, MonTypeOK, Arrived, NoRead
<1>2. AnswersArePast'
  BY DEF Ask, AnswersArePast, Arrived, NoRead
<1>3. SnapshotsCurrent'
  BY DEF Ask, SnapshotsCurrent, Arrived, NoRead
<1>4. OneHoldsRow'
  BY DEF Ask, OneHoldsRow, Arrived, NoRead
<1>5. OneRequest'
  BY DEF Ask, OneRequest, Arrived, NoRead
<1>6. RevisionsAreNewer'
  BY DEF Ask, RevisionsAreNewer, Arrived, NoRead
<1>7. PageShowsRevision'
  BY DEF Ask, PageShowsRevision, Arrived, NoRead
<1> QED BY <1>1, <1>2, <1>3, <1>4, <1>5, <1>6, <1>7

LEMMA TakeSnapshotKeeps ==
  ASSUME MonInv, NEW r \in Reads, TakeSnapshot(r)
  PROVE  MonInv'
<1> USE DEF MonInv, MonTypeOK, ReadRecord, ViewRecord, Other
<1>1. MonTypeOK'
  <2>1. [read[r] EXCEPT !.phase = "reading", !.content = truth, !.outdated = FALSE] \in ReadRecord
    OBVIOUS
  <2> QED BY <2>1 DEF TakeSnapshot
<1>2. AnswersArePast'
  BY DEF TakeSnapshot, AnswersArePast
<1>3. SnapshotsCurrent'
  BY DEF TakeSnapshot, SnapshotsCurrent
<1>4. OneHoldsRow'
  BY DEF TakeSnapshot, OneHoldsRow
<1>5. OneRequest'
  BY DEF TakeSnapshot, OneRequest
<1>6. RevisionsAreNewer'
  BY DEF TakeSnapshot, RevisionsAreNewer
<1>7. PageShowsRevision'
  BY DEF TakeSnapshot, PageShowsRevision
<1> QED BY <1>1, <1>2, <1>3, <1>4, <1>5, <1>6, <1>7

LEMMA LockViewKeeps ==
  ASSUME MonInv, NEW r \in Reads, LockView(r)
  PROVE  MonInv'
<1> USE DEF MonInv, MonTypeOK, ReadRecord, ViewRecord, Other
<1>1. MonTypeOK'
  BY DEF LockView, MonTypeOK, Locked, RowFree
<1>2. AnswersArePast'
  BY DEF LockView, AnswersArePast, Locked, RowFree
<1>3. SnapshotsCurrent'
  BY DEF LockView, SnapshotsCurrent, Locked, RowFree
<1>4. OneHoldsRow'
  BY DEF LockView, OneHoldsRow, Locked, RowFree
<1>5. OneRequest'
  BY DEF LockView, OneRequest, Locked, RowFree
<1>6. RevisionsAreNewer'
  BY DEF LockView, RevisionsAreNewer, Locked, RowFree
<1>7. PageShowsRevision'
  BY DEF LockView, PageShowsRevision, Locked, RowFree
<1> QED BY <1>1, <1>2, <1>3, <1>4, <1>5, <1>6, <1>7

(* What a commit writes: the view of before, or a newer one.                  *)
LEMMA CommitAnswers ==
  ASSUME MonInv, NEW r \in Reads, CommitRead(r)
  PROVE  /\ view' \in ViewRecord /\ view'.content = read[r].content
         /\ view'.revision > 0 /\ view'.content <= truth /\ truth' = truth
         /\ view' = view \/ (view'.revision > view.revision /\ view'.content > view.content)
         /\ answered' = answered \cup {view'}
         /\ [content |-> view'.content, revision |-> view'.revision] = view'
<1> USE DEF MonInv, MonTypeOK, ReadRecord, ViewRecord
<1>1. /\ read[r] \in ReadRecord /\ 0 < read[r].content
      /\ view.content <= read[r].content /\ read[r].content <= truth
  BY DEF CommitRead, SnapshotsCurrent
<1>2. view' = NextView(read[r].content) /\ answered' = answered \cup {view'} /\ truth' = truth
  BY DEF CommitRead
<1>3. CASE view.content = read[r].content
  <2>1. view' = view
    BY <1>2, <1>3 DEF NextView
  <2>2. view.revision > 0
    BY <1>1, <1>3 DEF AnswersArePast
  <2> QED BY <2>1, <2>2, <1>1, <1>2, <1>3 DEF AnswersArePast
<1>4. CASE view.content # read[r].content
  <2>1. view' = [content |-> read[r].content, revision |-> view.revision + 1]
    BY <1>2, <1>4 DEF NextView
  <2> QED BY <2>1, <1>1, <1>2, <1>4
<1> QED BY <1>3, <1>4

LEMMA CommitReadKeeps ==
  ASSUME MonInv, NEW r \in Reads, CommitRead(r)
  PROVE  MonInv'
<1> USE DEF MonInv, ViewRecord, Other
<1>0. /\ view' \in ViewRecord /\ view'.content = read[r].content
      /\ view'.revision > 0 /\ view'.content <= truth /\ truth' = truth
      /\ view' = view \/ (view'.revision > view.revision /\ view'.content > view.content)
      /\ answered' = answered \cup {view'}
      /\ [content |-> view'.content, revision |-> view'.revision] = view'
  BY CommitAnswers
<1>a. /\ page' = page /\ read[r].phase = "locked"
      /\ read' = [q \in Reads |->
                    IF q = r THEN [read[r] EXCEPT !.phase = "answered",
                                                  !.revision = view'.revision]
                    ELSE IF read[q].phase = "reading" THEN [read[q] EXCEPT !.outdated = TRUE]
                    ELSE read[q]]
  BY DEF CommitRead
<1>1. MonTypeOK'
  <2>1. ASSUME NEW q \in Reads
        PROVE  read'[q] \in ReadRecord
    <3>1. read[q] \in ReadRecord /\ read[r] \in ReadRecord /\ view'.revision \in Nat
      BY <1>0 DEF MonTypeOK
    <3> QED BY <3>1, <1>a DEF ReadRecord
  <2>2. read' \in [Reads -> ReadRecord]
    BY <1>a, <2>1
  <2> QED BY <2>2, <1>0, <1>a DEF MonTypeOK
<1>2. AnswersArePast'
  BY <1>0 DEF AnswersArePast, MonTypeOK
<1>3. SnapshotsCurrent'
  <2> SUFFICES ASSUME NEW q \in Reads
               PROVE  /\ ~(read'[q].phase = "reading" /\ ~read'[q].outdated)
                      /\ read'[q].phase # "locked"
                      /\ read'[q].phase = "reading" => read'[q].content <= truth
                      /\ read'[q].phase = "answered" =>
                           [content |-> read'[q].content, revision |-> read'[q].revision]
                             \in answered'
    BY <1>0 DEF SnapshotsCurrent
  <2>1. CASE q = r
    BY <2>1, <1>0, <1>a DEF MonTypeOK, ReadRecord
  <2>2. CASE q # r /\ read[q].phase = "reading"
    BY <2>2, <1>0, <1>a DEF MonTypeOK, ReadRecord, SnapshotsCurrent
  <2>3. CASE q # r /\ read[q].phase # "reading"
    BY <2>3, <1>0, <1>a DEF MonTypeOK, ReadRecord, SnapshotsCurrent, OneHoldsRow
  <2> QED BY <2>1, <2>2, <2>3
<1>4. OneHoldsRow'
  BY <1>a DEF OneHoldsRow, MonTypeOK, ReadRecord
<1>5. OneRequest'
  BY <1>a DEF OneRequest, MonTypeOK, ReadRecord
<1>6. RevisionsAreNewer'
  BY <1>0 DEF RevisionsAreNewer, AnswersArePast, MonTypeOK
<1>7. PageShowsRevision'
  BY <1>0, <1>a DEF PageShowsRevision
<1> QED BY <1>1, <1>2, <1>3, <1>4, <1>5, <1>6, <1>7

LEMMA FailReadKeeps ==
  ASSUME MonInv, NEW r \in Reads, FailRead(r)
  PROVE  MonInv'
<1> USE DEF MonInv, MonTypeOK, ReadRecord, ViewRecord, Other
<1>1. MonTypeOK'
  BY DEF FailRead, MonTypeOK, NoRead
<1>2. AnswersArePast'
  BY DEF FailRead, AnswersArePast, NoRead
<1>3. SnapshotsCurrent'
  BY DEF FailRead, SnapshotsCurrent, NoRead
<1>4. OneHoldsRow'
  BY DEF FailRead, OneHoldsRow, NoRead
<1>5. OneRequest'
  BY DEF FailRead, OneRequest, NoRead
<1>6. RevisionsAreNewer'
  BY DEF FailRead, RevisionsAreNewer, NoRead
<1>7. PageShowsRevision'
  BY DEF FailRead, PageShowsRevision, NoRead
<1> QED BY <1>1, <1>2, <1>3, <1>4, <1>5, <1>6, <1>7

LEMMA DeliverKeeps ==
  ASSUME MonInv, NEW r \in Reads, Deliver(r)
  PROVE  MonInv'
<1> USE DEF MonInv, MonTypeOK, ReadRecord, ViewRecord, Other
<1>1. MonTypeOK'
  BY DEF Deliver, MonTypeOK, NoRead, Takes, NotModified, SnapshotsCurrent
<1>2. AnswersArePast'
  BY DEF Deliver, AnswersArePast, NoRead, Takes, NotModified, SnapshotsCurrent
<1>3. SnapshotsCurrent'
  BY DEF Deliver, SnapshotsCurrent, NoRead, Takes, NotModified
<1>4. OneHoldsRow'
  BY DEF Deliver, OneHoldsRow, NoRead, Takes, NotModified, SnapshotsCurrent
<1>5. OneRequest'
  BY DEF Deliver, OneRequest, NoRead, Takes, NotModified, SnapshotsCurrent
<1>6. RevisionsAreNewer'
  BY DEF Deliver, RevisionsAreNewer, NoRead, Takes, NotModified, SnapshotsCurrent
<1>7. PageShowsRevision'
  <2>1. CASE Takes(r) /\ NotModified(r)
    <3>1. read[r].revision > 0 /\ read[r].etag \in {0, page.revision}
      BY <2>1 DEF Deliver, SnapshotsCurrent, AnswersArePast, Takes, OneRequest
    <3>2. page.revision = read[r].revision
      BY <2>1, <3>1 DEF NotModified
    <3> QED BY <2>1, <3>1, <3>2 DEF Deliver, PageShowsRevision
  <2>2. CASE Takes(r) /\ ~NotModified(r)
    BY <2>2 DEF Deliver, SnapshotsCurrent, PageShowsRevision
  <2>3. CASE ~Takes(r)
    BY <2>3 DEF Deliver, PageShowsRevision
  <2> QED BY <2>1, <2>2, <2>3
<1> QED BY <1>1, <1>2, <1>3, <1>4, <1>5, <1>6, <1>7

LEMMA RefreshPageKeeps ==
  ASSUME MonInv, NEW r \in Reads, NEW full \in BOOLEAN, RefreshPage(r, full)
  PROVE  MonInv'
<1> USE DEF MonInv, MonTypeOK, ReadRecord, ViewRecord, Other
<1>1. MonTypeOK'
  <2>1. /\ Arrived(page.epoch + 1, IF full THEN 0 ELSE page.revision) \in ReadRecord
        /\ [page EXCEPT !.epoch = @ + 1, !.waiting = TRUE] \in
             [revision : Nat, content : Nat, epoch : Nat, waiting : BOOLEAN]
    <3>1. ASSUME NEW e \in Nat, NEW t \in Nat
          PROVE  Arrived(e, t) \in ReadRecord
      BY DEF Arrived, NoRead
    <3>2. page.epoch + 1 \in Nat /\ (IF full THEN 0 ELSE page.revision) \in Nat
      OBVIOUS
    <3>3. Arrived(page.epoch + 1, IF full THEN 0 ELSE page.revision) \in ReadRecord
      BY <3>1, <3>2
    <3>4. [page EXCEPT !.epoch = @ + 1, !.waiting = TRUE] \in
             [revision : Nat, content : Nat, epoch : Nat, waiting : BOOLEAN]
      <4>1. page \in [revision : Nat, content : Nat, epoch : Nat, waiting : BOOLEAN]
        OBVIOUS
      <4> HIDE DEF MonInv, MonTypeOK
      <4> QED BY <4>1, <3>2
    <3> HIDE DEF ReadRecord
    <3> QED BY <3>3, <3>4
  <2>2. /\ read' = [read EXCEPT ![r] = Arrived(page.epoch + 1,
                                               IF full THEN 0 ELSE page.revision)]
        /\ page' = [page EXCEPT !.epoch = @ + 1, !.waiting = TRUE]
        /\ UNCHANGED <<truth, view, answered>>
    BY DEF RefreshPage
  <2> HIDE DEF ReadRecord
  <2> QED BY <2>1, <2>2
<1>2. AnswersArePast'
  BY DEF RefreshPage, AnswersArePast, Arrived, NoRead
<1>3. SnapshotsCurrent'
  BY DEF RefreshPage, SnapshotsCurrent, Arrived, NoRead
<1>4. OneHoldsRow'
  BY DEF RefreshPage, OneHoldsRow, Arrived, NoRead
<1>5. OneRequest'
  BY DEF RefreshPage, OneRequest, Arrived, NoRead
<1>6. RevisionsAreNewer'
  BY DEF RefreshPage, RevisionsAreNewer, Arrived, NoRead
<1>7. PageShowsRevision'
  BY DEF RefreshPage, PageShowsRevision, Arrived, NoRead
<1> QED BY <1>1, <1>2, <1>3, <1>4, <1>5, <1>6, <1>7

LEMMA MonStep == MonInv /\ [MonNext]_monVars => MonInv'
<1> SUFFICES ASSUME MonInv, [MonNext]_monVars
             PROVE  MonInv'
  OBVIOUS
<1>1. CASE UNCHANGED monVars
  BY <1>1 DEF monVars, MonInv, MonTypeOK, AnswersArePast, SnapshotsCurrent, OneHoldsRow,
              OneRequest, RevisionsAreNewer, PageShowsRevision
<1>2. CASE Change
  BY <1>2, ChangeKeeps
<1>3. ASSUME NEW r \in Reads, Ask(r) \/ TakeSnapshot(r) \/ LockView(r) \/ CommitRead(r)
                              \/ FailRead(r) \/ Deliver(r)
      PROVE  MonInv'
  BY <1>3, AskKeeps, TakeSnapshotKeeps, LockViewKeeps, CommitReadKeeps, FailReadKeeps,
     DeliverKeeps
<1>4. ASSUME NEW r \in Reads, NEW full \in BOOLEAN, RefreshPage(r, full)
      PROVE  MonInv'
  BY <1>4, RefreshPageKeeps
<1> QED BY <1>1, <1>2, <1>3, <1>4 DEF MonNext

(* The inductive invariant: an answer is the view or a past one, a transaction *)
(* that may still write has a current snapshot, and the request that is out is *)
(* the only one of its epoch.                                                  *)
THEOREM MonitorInvariant == MonSpec => []MonInv
  BY MonInitInv, MonStep, PTL DEF MonSpec

(* Revisions can be compared, and the page shows the content of the revision   *)
(* it shows (monitoring/service.ts 26-46, monitoring-refresh.ts 64-101).       *)
THEOREM ViewsHold == MonSpec => []ViewsNeverRegress
<1>1. MonInv => ViewsNeverRegress
  BY DEF MonInv, ViewsNeverRegress
<1> QED BY <1>1, MonitorInvariant, PTL

(* The content the page shows never goes back (monitoring-refresh.ts 64-101).  *)
THEOREM PageHolds == MonSpec => PageNeverGoesBack
<1>1. MonInv /\ MonInv' /\ [MonNext]_monVars => [page'.content >= page.content]_page
  <2> SUFFICES ASSUME MonInv, MonInv', [MonNext]_monVars, page' # page
               PROVE  page'.content >= page.content
    OBVIOUS
  <2> USE DEF MonInv, MonTypeOK, ViewRecord, ReadRecord
  <2>1. ASSUME NEW r \in Reads, NEW full \in BOOLEAN, FailRead(r) \/ RefreshPage(r, full)
        PROVE  page'.content >= page.content
    <3>1. page'.content = page.content
      BY <2>1 DEF FailRead, RefreshPage
    <3> QED BY <3>1
  <2>2. ASSUME NEW r \in Reads, Deliver(r)
        PROVE  page'.content >= page.content
    <3>1. CASE ~Takes(r)
      <4>1. page'.content = page.content
        BY <2>2, <3>1 DEF Deliver
      <4> QED BY <4>1
    <3>2. CASE Takes(r)
      <4>1. page'.revision >= page.revision /\ page'.revision > 0
        BY <2>2, <3>2 DEF Deliver, Takes, SnapshotsCurrent, AnswersArePast
      <4>2. CASE page.revision = 0
        BY <4>2 DEF OneRequest
      <4>3. CASE page.revision > 0
        <5>1. /\ [content |-> page.content, revision |-> page.revision] \in answered
              /\ [content |-> page'.content, revision |-> page'.revision] \in answered
          BY <2>2, <4>1, <4>3 DEF PageShowsRevision, Deliver
        <5>2. CASE page'.revision = page.revision
          BY <5>1, <5>2 DEF AnswersArePast
        <5>3. CASE page'.revision > page.revision
          BY <5>1, <5>3 DEF RevisionsAreNewer
        <5> QED BY <5>2, <5>3, <4>1
      <4> QED BY <4>2, <4>3
    <3> QED BY <3>1, <3>2
  <2>3. Change \/ (\E r \in Reads : Ask(r) \/ TakeSnapshot(r) \/ LockView(r) \/ CommitRead(r))
          => page' = page
    BY DEF Change, Ask, TakeSnapshot, LockView, CommitRead
  <2> QED BY <2>1, <2>2, <2>3 DEF MonNext, monVars
<1> QED BY <1>1, MonInitInv, MonStep, PTL DEF MonSpec, PageNeverGoesBack
-----------------------------------------------------------------------------
(* The files of reports (ReportExports).                                     *)
LEMMA FirstIs ==
  ASSUME NEW S \in SUBSET Nat, S # {}
  PROVE  FirstOf(S) \in S
<1> DEFINE R == OpToRel(<, Nat)
<1>1. IsWellFoundedOn(R, Nat)
  BY NatLessThanWellFounded
<1> HIDE DEF R
<1>2. PICK i \in S : \A j \in S : ~(<<j, i>> \in R)
  BY <1>1, WFMin
<1>3. \A j \in S : i <= j
  <2> SUFFICES ASSUME NEW j \in S PROVE i <= j
    OBVIOUS
  <2>1. i \in Nat /\ j \in Nat /\ ~(<<j, i>> \in R)
    BY <1>2
  <2>2. ~(j < i)
    BY <2>1 DEF R, OpToRel
  <2> QED BY <2>1, <2>2
<1> QED BY <1>3 DEF FirstOf

(* The records of a store and the files with a workbook are finitely many.   *)
LEMMA StoreFinite ==
  ASSUME NEW f \in Seq(FileRows)
  PROVE  /\ IsFiniteSet(RecordsIn(f)) /\ IsFiniteSet(ReadyIn(f))
         /\ Cardinality(RecordsIn(f)) \in Nat /\ Cardinality(ReadyIn(f)) \in Nat
         /\ ReadyIn(f) \subseteq RecordsIn(f) /\ RecordsIn(f) \subseteq DOMAIN f
         /\ DOMAIN f = 1..Len(f) /\ Len(f) \in Nat
<1>1. DOMAIN f = 1..Len(f) /\ Len(f) \in Nat
  OBVIOUS
<1>2. IsFiniteSet(DOMAIN f)
  BY <1>1, FS_Interval
<1>3. RecordsIn(f) \subseteq DOMAIN f /\ ReadyIn(f) \subseteq RecordsIn(f)
  BY DEF RecordsIn, ReadyIn
<1>4. IsFiniteSet(RecordsIn(f))
  BY <1>2, <1>3, FS_Subset
<1>5. IsFiniteSet(ReadyIn(f))
  BY <1>3, <1>4, FS_Subset
<1>6. Cardinality(RecordsIn(f)) \in Nat
  BY <1>4, FS_CardinalityType
<1>7. Cardinality(ReadyIn(f)) \in Nat
  BY <1>5, FS_CardinalityType
<1> QED BY <1>1, <1>3, <1>4, <1>5, <1>6, <1>7

(* Two stores hold the same reports, the second at most as many records and  *)
(* workbooks.                                                                *)
Within(g, f) ==
  /\ g \in Seq(FileRows) /\ Len(g) = Len(f)
  /\ \A i \in DOMAIN f : /\ g[i].owner = f[i].owner
                         /\ g[i].request = f[i].request /\ g[i].report = f[i].report
  /\ RecordsIn(g) \subseteq RecordsIn(f) /\ ReadyIn(g) \subseteq ReadyIn(f)

LEMMA WithinCounts ==
  ASSUME NEW f \in Seq(FileRows), NEW g, Within(g, f)
  PROVE  /\ Cardinality(RecordsIn(g)) <= Cardinality(RecordsIn(f))
         /\ Cardinality(ReadyIn(g)) <= Cardinality(ReadyIn(f))
         /\ Cardinality(RecordsIn(g)) \in Nat /\ Cardinality(ReadyIn(g)) \in Nat
         /\ DOMAIN g = DOMAIN f
<1>1. IsFiniteSet(RecordsIn(f)) /\ IsFiniteSet(ReadyIn(f))
  BY StoreFinite
<1>2. RecordsIn(g) \subseteq RecordsIn(f) /\ ReadyIn(g) \subseteq ReadyIn(f)
  BY DEF Within
<1>3. Cardinality(RecordsIn(g)) <= Cardinality(RecordsIn(f))
  BY <1>1, <1>2, FS_Subset
<1>4. Cardinality(ReadyIn(g)) <= Cardinality(ReadyIn(f))
  BY <1>1, <1>2, FS_Subset
<1>5. g \in Seq(FileRows) /\ Len(g) = Len(f)
  BY DEF Within
<1>6. Cardinality(RecordsIn(g)) \in Nat /\ Cardinality(ReadyIn(g)) \in Nat /\ DOMAIN g = 1..Len(g)
  BY <1>5, StoreFinite
<1>7. DOMAIN f = 1..Len(f)
  BY StoreFinite
<1> QED BY <1>3, <1>4, <1>5, <1>6, <1>7

(* Changing the rows of a store in status, age and listing only.             *)
LEMMA RowsWithin ==
  ASSUME NEW f \in Seq(FileRows), NEW g,
         DOMAIN g = DOMAIN f, g = [i \in DOMAIN f |-> g[i]],
         \A i \in DOMAIN f :
           /\ g[i] \in FileRows
           /\ g[i].owner = f[i].owner
           /\ g[i].request = f[i].request /\ g[i].report = f[i].report
           /\ g[i].listed => f[i].listed
           /\ g[i].status = "ready" => f[i].status = "ready"
  PROVE  Within(g, f)
<1>1. DOMAIN f = 1..Len(f) /\ Len(f) \in Nat
  BY StoreFinite
<1>2. g \in Seq(FileRows) /\ Len(g) = Len(f)
  <2>1. g \in [1..Len(f) -> FileRows]
    BY <1>1
  <2> QED BY <1>1, <2>1
<1> QED BY <1>2 DEF Within, RecordsIn, ReadyIn

LEMMA AgedWithin ==
  ASSUME NEW f \in Seq(FileRows)
  PROVE  Within(Aged(f), f)
<1> DEFINE g == Aged(f)
<1>1. DOMAIN g = DOMAIN f /\ g = [i \in DOMAIN f |-> g[i]]
  BY DEF Aged
<1>2. ASSUME NEW i \in DOMAIN f
      PROVE  /\ g[i] \in FileRows
             /\ g[i].owner = f[i].owner
             /\ g[i].request = f[i].request /\ g[i].report = f[i].report
             /\ g[i].listed => f[i].listed
             /\ g[i].status = "ready" => f[i].status = "ready"
  <2>0. f[i] \in FileRows
    OBVIOUS
  <2>1. /\ f[i] \in FileRows /\ f[i].age \in 0..2 /\ f[i].status \in {"ready", "expired"}
        /\ f[i].listed \in BOOLEAN
    BY <2>0 DEF FileRows
  <2>2. CASE ~f[i].listed
    BY <2>1, <2>2 DEF Aged
  <2>3. CASE f[i].listed
    <3> DEFINE status == IF f[i].age > 0 THEN "expired" ELSE f[i].status
    <3>1. status \in {"ready", "expired"} /\ (status = "ready" => f[i].status = "ready")
      BY <2>1
    <3>2. (f[i].age < 2) \in BOOLEAN
      BY <2>1
    <3>3. g[i] = [f[i] EXCEPT !.status = status, !.listed = f[i].age < 2]
      BY <2>3 DEF Aged
    <3> HIDE DEF status, g
    <3> QED BY <2>1, <2>3, <3>1, <3>2, <3>3 DEF FileRows
  <2> QED BY <2>2, <2>3
<1> HIDE DEF g
<1>3. Within(g, f)
  BY <1>1, <1>2, RowsWithin
<1> QED BY <1>3 DEF g

LEMMA UnlistWithin ==
  ASSUME NEW f \in Seq(FileRows), NEW S
  PROVE  /\ Within(Unlist(f, S), f)
         /\ RecordsIn(Unlist(f, S)) = RecordsIn(f) \ S
<1> DEFINE g == Unlist(f, S)
<1>1. DOMAIN g = DOMAIN f /\ g = [i \in DOMAIN f |-> g[i]]
  BY DEF Unlist
<1>2. ASSUME NEW i \in DOMAIN f
      PROVE  /\ g[i] \in FileRows
             /\ g[i].owner = f[i].owner
             /\ g[i].request = f[i].request /\ g[i].report = f[i].report
             /\ g[i].listed <=> f[i].listed /\ i \notin S
             /\ g[i].status = "ready" => f[i].status = "ready"
  <2>1. f[i] \in FileRows
    OBVIOUS
  <2> QED BY <2>1 DEF Unlist, FileRows
<1> HIDE DEF g
<1>3. Within(g, f)
  BY <1>1, <1>2, RowsWithin
<1>4. RecordsIn(g) = RecordsIn(f) \ S
  BY <1>1, <1>2 DEF RecordsIn
<1> QED BY <1>3, <1>4 DEF g

LEMMA WithinTransitive ==
  ASSUME NEW f \in Seq(FileRows), NEW g, NEW h, Within(g, f), Within(h, g)
  PROVE  Within(h, f)
<1>1. DOMAIN g = DOMAIN f
  BY WithinCounts
<1> QED BY <1>1 DEF Within

(* One record too many, and cleanup restores the limit.                      *)
LEMMA CleanupKeeps ==
  ASSUME NEW f \in Seq(FileRows), Cardinality(RecordsIn(f)) <= MaxRecords + 1
  PROVE  /\ Within(Cleanup(f), f)
         /\ Cardinality(RecordsIn(Cleanup(f))) <= MaxRecords
<1> USE ExportsAssumption
<1> DEFINE g == Aged(f)
           S == Surplus(g)
           h == Unlist(g, S)
<1>1. Within(g, f) /\ g \in Seq(FileRows)
  BY AgedWithin DEF Within
<1>2. Within(h, g) /\ RecordsIn(h) = RecordsIn(g) \ S
  BY <1>1, UnlistWithin
<1>3. Within(h, f)
  BY <1>1, <1>2, WithinTransitive
<1>4. Cardinality(RecordsIn(g)) \in Nat /\ Cardinality(RecordsIn(g)) <= MaxRecords + 1
  <2>1. Cardinality(RecordsIn(f)) \in Nat
    BY StoreFinite
  <2> QED BY <1>1, <2>1, WithinCounts
<1>5. CASE Cardinality(RecordsIn(g)) <= MaxRecords
  <2>1. Cardinality(RecordsIn(h)) <= Cardinality(RecordsIn(g))
    BY <1>1, <1>2, WithinCounts
  <2>2. Cardinality(RecordsIn(h)) \in Nat
    BY <1>1, <1>2, WithinCounts
  <2> QED BY <1>3, <1>4, <1>5, <2>1, <2>2 DEF Cleanup
<1>6. CASE ~(Cardinality(RecordsIn(g)) <= MaxRecords)
  <2> DEFINE expired == RecordsIn(g) \ ReadyIn(g)
             T == IF expired # {} THEN expired ELSE RecordsIn(g)
             x == FirstOf(T)
  <2>1. S = {x}
    BY <1>6 DEF Surplus
  <2>2. IsFiniteSet(RecordsIn(g)) /\ RecordsIn(g) \subseteq Nat
    <3>1. RecordsIn(g) \subseteq DOMAIN g /\ DOMAIN g = 1..Len(g) /\ IsFiniteSet(RecordsIn(g))
      BY <1>1, StoreFinite
    <3> QED BY <3>1
  <2>3. RecordsIn(g) # {}
    <3> SUFFICES ASSUME RecordsIn(g) = {} PROVE FALSE
      OBVIOUS
    <3>1. Cardinality(RecordsIn(g)) = 0
      BY FS_EmptySet
    <3> QED BY <1>6, <3>1
  <2> HIDE DEF g, S
  <2>4. T \subseteq RecordsIn(g) /\ T # {} /\ T \in SUBSET Nat
    BY <2>2, <2>3
  <2> HIDE DEF T
  <2>5. x \in RecordsIn(g)
    BY <2>4, FirstIs
  <2> HIDE DEF x
  <2>6. Cardinality(RecordsIn(g) \ {x}) = Cardinality(RecordsIn(g)) - 1
    BY <2>2, <2>5, FS_RemoveElement
  <2>7. Cardinality(RecordsIn(h)) <= MaxRecords
    BY <1>2, <1>4, <2>1, <2>6
  <2> QED BY <1>3, <2>7 DEF Cleanup, g, S
<1> QED BY <1>5, <1>6

LEMMA EvictKeeps ==
  ASSUME NEW f \in Seq(FileRows), Cardinality(ReadyIn(f)) <= MaxReady
  PROVE  /\ Within(Evict(f), f)
         /\ Cardinality(ReadyIn(Evict(f))) <= MaxReady - 1
<1> USE ExportsAssumption
<1> DEFINE g == Evict(f)
           x == FirstOf(ReadyIn(f))
<1>0. /\ IsFiniteSet(ReadyIn(f)) /\ Cardinality(ReadyIn(f)) \in Nat
      /\ ReadyIn(f) \subseteq DOMAIN f /\ DOMAIN f = 1..Len(f)
  BY StoreFinite
<1>1. CASE Cardinality(ReadyIn(f)) >= MaxReady
  <2>1. ReadyIn(f) # {}
    <3> SUFFICES ASSUME ReadyIn(f) = {} PROVE FALSE
      OBVIOUS
    <3>1. Cardinality(ReadyIn(f)) = 0
      BY FS_EmptySet
    <3> QED BY <1>1, <3>1
  <2>2. ReadyIn(f) \in SUBSET Nat
    BY <1>0
  <2>3. x \in ReadyIn(f)
    BY <2>1, <2>2, FirstIs
  <2> HIDE DEF x
  <2>4. g = [f EXCEPT ![x].status = "expired"]
    BY <1>1 DEF Evict, x
  <2>5. DOMAIN g = DOMAIN f /\ g = [i \in DOMAIN f |-> g[i]]
    BY <2>4
  <2>6. ASSUME NEW i \in DOMAIN f
        PROVE  /\ g[i] \in FileRows
               /\ g[i].owner = f[i].owner
               /\ g[i].request = f[i].request /\ g[i].report = f[i].report
               /\ g[i].listed => f[i].listed
               /\ g[i].status = "ready" => f[i].status = "ready" /\ i # x
    <3>1. f[i] \in FileRows
      OBVIOUS
    <3>2. g[i] = IF i = x THEN [f[i] EXCEPT !.status = "expired"] ELSE f[i]
      BY <2>4
    <3> HIDE DEF g
    <3> QED BY <3>1, <3>2 DEF FileRows
  <2> HIDE DEF g
  <2>7. Within(g, f)
    BY <2>5, <2>6, RowsWithin
  <2>8. ReadyIn(g) \subseteq ReadyIn(f) \ {x}
    BY <2>5, <2>6 DEF ReadyIn, RecordsIn
  <2>9. Cardinality(ReadyIn(f) \ {x}) = Cardinality(ReadyIn(f)) - 1 /\ IsFiniteSet(ReadyIn(f) \ {x})
    BY <1>0, <2>3, FS_RemoveElement
  <2>10. Cardinality(ReadyIn(g)) <= Cardinality(ReadyIn(f) \ {x})
    BY <2>8, <2>9, FS_Subset
  <2>11. Cardinality(ReadyIn(g)) \in Nat
    BY <2>7, WithinCounts
  <2>12. Cardinality(ReadyIn(g)) <= MaxReady - 1
    BY <1>0, <2>9, <2>10, <2>11
  <2> QED BY <2>7, <2>12 DEF g
<1>2. CASE ~(Cardinality(ReadyIn(f)) >= MaxReady)
  <2>1. Evict(f) = f
    BY <1>2 DEF Evict
  <2> QED BY <1>0, <1>2, <2>1 DEF Within
<1> QED BY <1>1, <1>2

(* A file is stored within the limits, and the files before it stay.         *)
LEMMA PutKeeps ==
  ASSUME NEW f \in Seq(FileRows), NEW row \in FileRows,
         Cardinality(RecordsIn(f)) <= MaxRecords, Cardinality(ReadyIn(f)) <= MaxReady
  PROVE  LET g == Put(f, row) IN
         /\ g \in Seq(FileRows) /\ Len(g) = Len(f) + 1
         /\ \A i \in DOMAIN f : /\ g[i].owner = f[i].owner
                                /\ g[i].request = f[i].request /\ g[i].report = f[i].report
         /\ /\ g[Len(g)].owner = row.owner
            /\ g[Len(g)].request = row.request /\ g[Len(g)].report = row.report
         /\ Cardinality(RecordsIn(g)) <= MaxRecords /\ Cardinality(ReadyIn(g)) <= MaxReady
<1> USE ExportsAssumption
<1> DEFINE c == Cleanup(f)
           e == Evict(c)
           a == Append(e, row)
           g == Cleanup(a)
<1>1. Within(c, f) /\ Cardinality(RecordsIn(c)) <= MaxRecords /\ c \in Seq(FileRows)
  <2>1. Cardinality(RecordsIn(f)) \in Nat
    BY StoreFinite
  <2> QED BY <2>1, CleanupKeeps DEF Within
<1>2. Cardinality(ReadyIn(c)) <= MaxReady
  <2>1. Cardinality(ReadyIn(c)) <= Cardinality(ReadyIn(f))
    BY <1>1, WithinCounts
  <2>2. Cardinality(ReadyIn(c)) \in Nat /\ Cardinality(ReadyIn(f)) \in Nat
    BY <1>1, StoreFinite
  <2> QED BY <2>1, <2>2
<1> HIDE DEF c
<1>3. Within(e, c) /\ Cardinality(ReadyIn(e)) <= MaxReady - 1 /\ e \in Seq(FileRows)
  BY <1>1, <1>2, EvictKeeps DEF Within
<1>4. Within(e, f)
  BY <1>1, <1>3, WithinTransitive
<1>5. /\ IsFiniteSet(RecordsIn(e)) /\ IsFiniteSet(ReadyIn(e))
      /\ Cardinality(RecordsIn(e)) \in Nat /\ Cardinality(ReadyIn(e)) \in Nat
      /\ RecordsIn(e) \subseteq 1..Len(e) /\ ReadyIn(e) \subseteq 1..Len(e) /\ Len(e) \in Nat
  BY <1>3, StoreFinite
<1>6. Cardinality(RecordsIn(e)) <= MaxRecords
  <2>1. Cardinality(RecordsIn(e)) <= Cardinality(RecordsIn(c))
    BY <1>1, <1>3, WithinCounts
  <2>2. Cardinality(RecordsIn(c)) \in Nat
    BY <1>1, StoreFinite
  <2> QED BY <1>1, <1>5, <2>1, <2>2
<1> HIDE DEF e
<1>7. /\ a \in Seq(FileRows) /\ Len(a) = Len(e) + 1 /\ DOMAIN a = 1..Len(e) + 1
      /\ a[Len(e) + 1] = row /\ \A i \in 1..Len(e) : a[i] = e[i]
  BY <1>3, <1>5
<1> HIDE DEF a
<1> DEFINE n == Len(e) + 1
<1> HIDE DEF g
<1>8. RecordsIn(a) \subseteq RecordsIn(e) \cup {n} /\ ReadyIn(a) \subseteq ReadyIn(e) \cup {n}
  <2>1. \A i \in DOMAIN a : i # n => i \in 1..Len(e) /\ a[i] = e[i]
    BY <1>5, <1>7
  <2>2. DOMAIN e = 1..Len(e)
    BY <1>3
  <2> HIDE DEF n
  <2> QED BY <2>1, <2>2 DEF RecordsIn, ReadyIn
<1>9. Cardinality(RecordsIn(a)) <= MaxRecords + 1
  <2>0. /\ Cardinality(RecordsIn(e) \cup {n}) = IF n \in RecordsIn(e) THEN Cardinality(RecordsIn(e))
                                            ELSE Cardinality(RecordsIn(e)) + 1
        /\ IsFiniteSet(RecordsIn(e) \cup {n})
    BY <1>5, FS_AddElement
  <2>1. Cardinality(RecordsIn(e) \cup {n}) <= Cardinality(RecordsIn(e)) + 1
        /\ IsFiniteSet(RecordsIn(e) \cup {n})
    BY <1>5, <2>0
  <2>2. Cardinality(RecordsIn(a)) <= Cardinality(RecordsIn(e) \cup {n})
    BY <1>8, <2>1, FS_Subset
  <2>3. Cardinality(RecordsIn(a)) \in Nat /\ Cardinality(RecordsIn(e) \cup {n}) \in Nat
    BY <1>7, <2>1, StoreFinite, FS_CardinalityType
  <2> QED BY <1>5, <1>6, <2>1, <2>2, <2>3
<1>10. Cardinality(ReadyIn(a)) <= MaxReady
  <2>0. /\ Cardinality(ReadyIn(e) \cup {n}) = IF n \in ReadyIn(e) THEN Cardinality(ReadyIn(e))
                                            ELSE Cardinality(ReadyIn(e)) + 1
        /\ IsFiniteSet(ReadyIn(e) \cup {n})
    BY <1>5, FS_AddElement
  <2>1. Cardinality(ReadyIn(e) \cup {n}) <= Cardinality(ReadyIn(e)) + 1
        /\ IsFiniteSet(ReadyIn(e) \cup {n})
    BY <1>5, <2>0
  <2>2. Cardinality(ReadyIn(a)) <= Cardinality(ReadyIn(e) \cup {n})
    BY <1>8, <2>1, FS_Subset
  <2>3. Cardinality(ReadyIn(a)) \in Nat /\ Cardinality(ReadyIn(e) \cup {n}) \in Nat
    BY <1>7, <2>1, StoreFinite, FS_CardinalityType
  <2> QED BY <1>3, <1>5, <2>1, <2>2, <2>3
<1>11. Within(g, a) /\ Cardinality(RecordsIn(g)) <= MaxRecords
  BY <1>7, <1>9, CleanupKeeps DEF g
<1>12. Cardinality(ReadyIn(g)) <= MaxReady
  <2>1. Cardinality(ReadyIn(g)) <= Cardinality(ReadyIn(a))
    BY <1>7, <1>11, WithinCounts
  <2>2. Cardinality(ReadyIn(a)) \in Nat /\ Cardinality(ReadyIn(g)) \in Nat
    BY <1>7, <1>11, StoreFinite, WithinCounts
  <2> QED BY <1>10, <2>1, <2>2
<1>13. g = Put(f, row)
  BY DEF Put, a, e, c, g
<1>14. Len(e) = Len(f) /\ DOMAIN f = 1..Len(f)
  BY <1>4 DEF Within
<1>15. g \in Seq(FileRows) /\ Len(g) = Len(f) + 1
  BY <1>7, <1>11, <1>14 DEF Within
<1>16. ASSUME NEW i \in DOMAIN f
       PROVE  /\ g[i].owner = f[i].owner
              /\ g[i].request = f[i].request /\ g[i].report = f[i].report
  <2>1. i \in DOMAIN a /\ a[i] = e[i]
    BY <1>7, <1>14
  <2> QED BY <2>1, <1>4, <1>11 DEF Within
<1>17. /\ g[Len(g)].owner = row.owner
       /\ g[Len(g)].request = row.request /\ g[Len(g)].report = row.report
  <2>1. Len(g) \in DOMAIN a /\ a[Len(g)] = row
    BY <1>5, <1>7, <1>14, <1>15
  <2> QED BY <2>1, <1>11 DEF Within
<1> QED BY <1>11, <1>12, <1>13, <1>15, <1>16, <1>17

-----------------------------------------------------------------------------
LEMMA ExportsInitial == ExportsInit => ExportsInv
<1> SUFFICES ASSUME ExportsInit PROVE ExportsInv
  OBVIOUS
<1> USE ExportsAssumption
<1>1. files = <<>> /\ DOMAIN files = {} /\ RecordsIn(files) = {} /\ ReadyIn(files) = {}
  BY DEF ExportsInit, RecordsIn, ReadyIn
<1>2. StoreBounded
  <2>1. Cardinality({}) = 0
    BY FS_EmptySet
  <2>2. Cardinality(ReadyIn(files)) = 0 /\ Cardinality(RecordsIn(files)) = 0
    BY <1>1, <2>1, Zenon
  <2> QED BY <2>2 DEF StoreBounded
<1>3. ExportsTypeOK
  <2>1. files \in Seq(FileRows)
    BY <1>1
  <2>2. pending \in [Owners -> [Snapshots -> [phase : {"none", "asked", "captured"},
                                             report : Snapshots \cup {NoSnapshot}]]]
    BY DEF ExportsInit, NoCreation
  <2>3. download \in [Owners -> [phase : {"none", "found", "authorized", "sent"},
                                file : Nat, seen : SUBSET Views, during : SUBSET Views,
                                report : Snapshots \cup {NoSnapshot}]]
    BY DEF ExportsInit, NoDownload
  <2> QED BY <2>1, <2>2, <2>3 DEF ExportsTypeOK, ExportsInit
<1>4. CreationsSound
  BY DEF ExportsInit, CreationsSound, NoCreation
<1>5. DownloadsSound /\ SentAsAuthorized
  BY DEF ExportsInit, DownloadsSound, SentAsAuthorized, NoDownload, Downloading
<1>6. FilesAsShown /\ FilesByExporters
  BY <1>1 DEF FilesAsShown, FilesByExporters
<1> QED BY <1>2, <1>3, <1>4, <1>5, <1>6 DEF ExportsInv, ExportsAsAuthorized

(* A store that keeps its reports keeps what the invariant says of it, and   *)
(* of the downloads that go on.                                              *)
LEMMA FilesStay ==
  ASSUME ExportsInv, Within(files', files)
  PROVE  /\ files' \in Seq(FileRows) /\ DOMAIN files' = DOMAIN files
         /\ (FilesAsShown /\ FilesByExporters /\ StoreBounded)'
         /\ \A i \in DOMAIN files : files'[i].owner = files[i].owner
                                    /\ files'[i].report = files[i].report
<1> USE ExportsAssumption
<1>1. files \in Seq(FileRows)
  BY DEF ExportsInv, ExportsTypeOK
<1>2. /\ Cardinality(RecordsIn(files')) <= Cardinality(RecordsIn(files))
      /\ Cardinality(ReadyIn(files')) <= Cardinality(ReadyIn(files))
      /\ Cardinality(RecordsIn(files')) \in Nat /\ Cardinality(ReadyIn(files')) \in Nat
      /\ DOMAIN files' = DOMAIN files
  BY <1>1, WithinCounts
<1>3. Cardinality(RecordsIn(files)) \in Nat /\ Cardinality(ReadyIn(files)) \in Nat
  BY <1>1, StoreFinite
<1>4. Cardinality(RecordsIn(files)) <= MaxRecords /\ Cardinality(ReadyIn(files)) <= MaxReady
  BY DEF ExportsInv, ExportsAsAuthorized, StoreBounded
<1>5. Cardinality(RecordsIn(files')) <= MaxRecords /\ Cardinality(ReadyIn(files')) <= MaxReady
  BY <1>2, <1>3, <1>4
<1>6. (RecordsIn(files))' = RecordsIn(files') /\ (ReadyIn(files))' = ReadyIn(files')
  BY DEF RecordsIn, ReadyIn
<1>7. StoreBounded'
  BY <1>5, <1>6 DEF StoreBounded
<1> QED BY <1>2, <1>7 DEF Within, ExportsInv, ExportsAsAuthorized, FilesAsShown, FilesByExporters

(* Cleaning up, ageing and dropping files keep the reports of a store.       *)
LEMMA CleanedUp ==
  ASSUME ExportsInv
  PROVE  Within(Cleanup(files), files) /\ Within(files, files)
<1>1. files \in Seq(FileRows) /\ Cardinality(RecordsIn(files)) <= MaxRecords
  BY DEF ExportsInv, ExportsTypeOK, ExportsAsAuthorized, StoreBounded
<1>2. Cardinality(RecordsIn(files)) <= MaxRecords + 1
  BY <1>1, StoreFinite, ExportsAssumption
<1>3. Within(files, files)
  BY <1>1 DEF Within
<1> QED BY <1>1, <1>2, <1>3, CleanupKeeps

CreationRows == [Snapshots -> [phase : {"none", "asked", "captured"},
                               report : Snapshots \cup {NoSnapshot}]]
DownloadRows == [phase : {"none", "found", "authorized", "sent"},
                 file : Nat, seen : SUBSET Views, during : SUBSET Views,
                 report : Snapshots \cup {NoSnapshot}]

LEMMA ExportTypes ==
  ExportsTypeOK <=> /\ visible \in [Owners -> Views] /\ accepted \in 0..MaxContent
                    /\ pending \in [Owners -> CreationRows] /\ files \in Seq(FileRows)
                    /\ download \in [Owners -> DownloadRows]
  BY DEF ExportsTypeOK, CreationRows, DownloadRows

(* What access, results, creations and downloads say of themselves.          *)
LEMMA SnapshotTyped ==
  ASSUME ExportsTypeOK, NEW o \in Owners
  PROVE  SnapshotNow(o) \in Snapshots /\ SnapshotNow(o)[1] = visible[o]
  BY DEF ExportsTypeOK, SnapshotNow, Snapshots

(* A step that leaves the store's reports and every download as they are.    *)
LEMMA DownloadsStay ==
  ASSUME ExportsInv, Within(files', files), UNCHANGED <<visible, download>>
  PROVE  DownloadsSound' /\ SentAsAuthorized'
<1>1. /\ DOMAIN files' = DOMAIN files
      /\ \A i \in DOMAIN files : files'[i].owner = files[i].owner
                                 /\ files'[i].report = files[i].report
  BY FilesStay
<1>2. ASSUME NEW o \in Owners, download[o].phase # "none"
      PROVE  download[o].file \in DOMAIN files
  BY <1>2 DEF ExportsInv, DownloadsSound
<1> QED BY <1>1, <1>2 DEF ExportsInv, ExportsAsAuthorized, DownloadsSound, SentAsAuthorized,
                         Downloading

(* A new row for one creation.                                               *)
LEMMA OneCreation ==
  ASSUME ExportsInv, NEW o \in Owners, NEW s \in Snapshots, NEW row,
         row \in [phase : {"none", "asked", "captured"}, report : Snapshots \cup {NoSnapshot}],
         row.phase = "captured" => row.report = s /\ s[1] \in Exporters,
         pending' = [pending EXCEPT ![o][s] = row]
  PROVE  pending' \in [Owners -> CreationRows] /\ CreationsSound'
<1>1. pending \in [Owners -> CreationRows] /\ CreationsSound
  BY ExportTypes DEF ExportsInv
<1>2. pending'[o] = [pending[o] EXCEPT ![s] = row] /\ pending[o] \in CreationRows
  BY <1>1
<1>3. pending'[o] \in CreationRows
  BY <1>2 DEF CreationRows
<1>4. pending' \in [Owners -> CreationRows]
  BY <1>1, <1>3
<1>5. ASSUME NEW p \in Owners, NEW t \in Snapshots
      PROVE  pending'[p][t] = IF p = o /\ t = s THEN row ELSE pending[p][t]
  <2>1. pending[p] \in CreationRows
    BY <1>1
  <2> QED BY <1>1, <1>2, <2>1 DEF CreationRows
<1>6. CreationsSound'
  BY <1>1, <1>5 DEF CreationsSound
<1> QED BY <1>4, <1>6

LEMMA CreationSteps ==
  ASSUME ExportsInv, NEW o \in Owners, NEW s \in Snapshots,
         AskFile(o, s) \/ CaptureReport(o, s) \/ FailFile(o, s)
  PROVE  ExportsInv'
<1>1. PICK row : /\ row \in [phase : {"none", "asked", "captured"},
                             report : Snapshots \cup {NoSnapshot}]
                 /\ row.phase = "captured" => row.report = s /\ s[1] \in Exporters
                 /\ pending' = [pending EXCEPT ![o][s] = row]
                 /\ files' = files \/ files' = Cleanup(files)
                 /\ UNCHANGED <<visible, accepted, download>>
  <2>1. CASE AskFile(o, s)
    <3>1. pending' = [pending EXCEPT ![o][s] = [phase |-> "asked", report |-> NoSnapshot]]
          /\ UNCHANGED <<visible, accepted, download, files>>
      BY <2>1 DEF AskFile
    <3>2. [phase |-> "asked", report |-> NoSnapshot].phase # "captured"
      OBVIOUS
    <3> QED BY <3>1, <3>2
  <2>2. CASE FailFile(o, s)
    <3>1. pending' = [pending EXCEPT ![o][s] = NoCreation]
          /\ UNCHANGED <<visible, accepted, download, files>>
      BY <2>2 DEF FailFile
    <3>2. NoCreation.phase = "none"
          /\ NoCreation \in [phase : {"none", "asked", "captured"},
                             report : Snapshots \cup {NoSnapshot}]
      BY DEF NoCreation
    <3> QED BY <3>1, <3>2
  <2>3. CASE CaptureReport(o, s)
    <3>1. NoCreation.phase = "none"
          /\ NoCreation \in [phase : {"none", "asked", "captured"},
                             report : Snapshots \cup {NoSnapshot}]
      BY DEF NoCreation
    <3>2. CASE ~Capturable(o, s)
      BY <2>3, <3>1, <3>2 DEF CaptureReport
    <3>3. CASE Capturable(o, s)
      <4> DEFINE new == [phase |-> "captured", report |-> SnapshotNow(o)]
      <4>1. SnapshotNow(o) = s /\ s[1] \in Exporters
        <5>1. SnapshotNow(o)[1] = visible[o]
          BY SnapshotTyped DEF ExportsInv
        <5> QED BY <3>3, <5>1 DEF Capturable
      <4>2. new.report = s /\ new \in [phase : {"none", "asked", "captured"},
                                       report : Snapshots \cup {NoSnapshot}]
        BY <4>1
      <4>3. /\ \/ pending' = [pending EXCEPT ![o][s] = NoCreation]
               \/ pending' = [pending EXCEPT ![o][s] = new]
            /\ files' = Cleanup(files) /\ UNCHANGED <<visible, accepted, download>>
        BY <2>3, <3>3 DEF CaptureReport
      <4> HIDE DEF new
      <4>4. CASE pending' = [pending EXCEPT ![o][s] = NoCreation]
        BY <3>1, <4>3, <4>4
      <4>5. CASE pending' = [pending EXCEPT ![o][s] = new]
        BY <4>1, <4>2, <4>3, <4>5
      <4> QED BY <4>3, <4>4, <4>5
    <3> QED BY <3>2, <3>3
  <2> QED BY <2>1, <2>2, <2>3
<1>2. pending' \in [Owners -> CreationRows] /\ CreationsSound'
  BY <1>1, OneCreation
<1>3. Within(files', files)
  BY <1>1, CleanedUp
<1>4. DownloadsSound' /\ SentAsAuthorized'
  BY <1>1, <1>3, DownloadsStay
<1>5. files' \in Seq(FileRows) /\ (FilesAsShown /\ FilesByExporters /\ StoreBounded)'
  BY <1>3, FilesStay
<1>6. ExportsTypeOK'
  <2>1. visible' \in [Owners -> Views] /\ accepted' \in 0..MaxContent
        /\ download' \in [Owners -> DownloadRows]
    BY <1>1, ExportTypes DEF ExportsInv
  <2> QED BY <1>2, <1>5, <2>1 DEF ExportsTypeOK, CreationRows, DownloadRows
<1> QED BY <1>2, <1>4, <1>5, <1>6 DEF ExportsInv, ExportsAsAuthorized

LEMMA StoreStep ==
  ASSUME ExportsInv, NEW o \in Owners, NEW s \in Snapshots, StoreFile(o, s)
  PROVE  ExportsInv'
<1> USE ExportsAssumption
<1> DEFINE row == NewFile(o, s, pending[o][s].report)
<1>1. /\ pending[o][s].phase = "captured"
      /\ files' = Put(files, row)
      /\ pending' = [pending EXCEPT ![o][s] = NoCreation]
      /\ UNCHANGED <<visible, accepted, download>>
  BY DEF StoreFile
<1>2. pending[o][s].report = s /\ s[1] \in Exporters
  BY <1>1 DEF ExportsInv, CreationsSound
<1>3. row \in FileRows /\ row.owner = o /\ row.request = s /\ row.report = s
  BY <1>2 DEF NewFile, FileRows
<1> HIDE DEF row
<1>4. /\ files \in Seq(FileRows)
      /\ Cardinality(RecordsIn(files)) <= MaxRecords /\ Cardinality(ReadyIn(files)) <= MaxReady
  BY DEF ExportsInv, ExportsTypeOK, ExportsAsAuthorized, StoreBounded
<1>5. /\ files' \in Seq(FileRows) /\ Len(files') = Len(files) + 1
      /\ \A i \in DOMAIN files : /\ files'[i].owner = files[i].owner
                                 /\ files'[i].request = files[i].request
                                 /\ files'[i].report = files[i].report
      /\ /\ files'[Len(files')].owner = row.owner
         /\ files'[Len(files')].request = row.request
         /\ files'[Len(files')].report = row.report
      /\ Cardinality(RecordsIn(files')) <= MaxRecords
      /\ Cardinality(ReadyIn(files')) <= MaxReady
  BY <1>1, <1>3, <1>4, PutKeeps
<1>6. /\ DOMAIN files = 1..Len(files) /\ DOMAIN files' = 1..Len(files')
      /\ Len(files) \in Nat
  BY <1>4, <1>5
<1>7. \A i \in DOMAIN files' : i \in DOMAIN files \/ i = Len(files')
  BY <1>5, <1>6
<1>8. StoreBounded'
  <2>1. (RecordsIn(files))' = RecordsIn(files') /\ (ReadyIn(files))' = ReadyIn(files')
    BY DEF RecordsIn, ReadyIn
  <2> QED BY <1>5, <2>1 DEF StoreBounded
<1>9. FilesAsShown' /\ FilesByExporters'
  BY <1>2, <1>3, <1>5, <1>7 DEF ExportsInv, ExportsAsAuthorized, FilesAsShown, FilesByExporters
<1>10. DownloadsSound' /\ SentAsAuthorized'
  <2>1. \A i \in DOMAIN files : /\ i \in DOMAIN files'
                                /\ files'[i].owner = files[i].owner
                                /\ files'[i].report = files[i].report
    BY <1>5, <1>6
  <2> QED BY <1>1, <2>1 DEF ExportsInv, ExportsAsAuthorized, DownloadsSound, SentAsAuthorized,
                           Downloading
<1>11. pending' \in [Owners -> CreationRows] /\ CreationsSound'
  <2>1. NoCreation.phase = "none"
        /\ NoCreation \in [phase : {"none", "asked", "captured"},
                           report : Snapshots \cup {NoSnapshot}]
    BY DEF NoCreation
  <2> QED BY <1>1, <2>1, OneCreation
<1>12. ExportsTypeOK'
  <2>1. visible' \in [Owners -> Views] /\ accepted' \in 0..MaxContent
        /\ download' \in [Owners -> DownloadRows]
    BY <1>1, ExportTypes DEF ExportsInv
  <2> QED BY <1>5, <1>11, <2>1 DEF ExportsTypeOK, CreationRows, DownloadRows
<1> QED BY <1>8, <1>9, <1>10, <1>11, <1>12 DEF ExportsInv, ExportsAsAuthorized

(* The download of one owner goes on over a store that keeps its reports.    *)
LEMMA OneDownload ==
  ASSUME ExportsInv, NEW o \in Owners, NEW row \in DownloadRows,
         Within(files', files), UNCHANGED <<visible, accepted, pending>>,
         download' = [download EXCEPT ![o] = row],
         row.phase # "none" => row.file \in DOMAIN files /\ files[row.file].owner = o,
         row.phase \in {"found", "authorized"} => visible[o] \in row.during,
         row.seen \subseteq row.during \cap Exporters,
         row.phase = "sent" => /\ row.report = files[row.file].report
                               /\ row.report[1] \in row.during \cap Exporters
  PROVE  ExportsInv'
<1>1. /\ files' \in Seq(FileRows) /\ DOMAIN files' = DOMAIN files
      /\ (FilesAsShown /\ FilesByExporters /\ StoreBounded)'
      /\ \A i \in DOMAIN files : files'[i].owner = files[i].owner
                                 /\ files'[i].report = files[i].report
  BY FilesStay
<1>2. /\ visible \in [Owners -> Views] /\ accepted \in 0..MaxContent
      /\ pending \in [Owners -> CreationRows] /\ download \in [Owners -> DownloadRows]
  BY ExportTypes DEF ExportsInv
<1>3. download' \in [Owners -> DownloadRows]
      /\ \A p \in Owners : download'[p] = IF p = o THEN row ELSE download[p]
  BY <1>2
<1>4. CreationsSound'
  BY DEF ExportsInv, CreationsSound
<1>5. DownloadsSound'
  <2> SUFFICES ASSUME NEW p \in Owners
               PROVE  /\ download'[p].phase # "none" =>
                           /\ download'[p].file \in DOMAIN files'
                           /\ files'[download'[p].file].owner = p
                      /\ download'[p].phase \in {"found", "authorized"} =>
                           visible[p] \in download'[p].during
                      /\ download'[p].seen \subseteq download'[p].during \cap Exporters
    BY DEF DownloadsSound, Downloading
  <2>1. CASE p = o
    BY <1>1, <1>3, <2>1
  <2>2. CASE p # o
    BY <1>1, <1>3, <2>2 DEF ExportsInv, DownloadsSound, Downloading
  <2> QED BY <2>1, <2>2
<1>6. SentAsAuthorized'
  <2> SUFFICES ASSUME NEW p \in Owners, download'[p].phase = "sent"
               PROVE  /\ download'[p].report = files'[download'[p].file].report
                      /\ files'[download'[p].file].owner = p
                      /\ download'[p].report[1] \in download'[p].during \cap Exporters
    BY DEF SentAsAuthorized
  <2>1. CASE p = o
    BY <1>1, <1>3, <2>1
  <2>2. CASE p # o
    <3>1. download[p].phase = "sent" /\ download[p].file \in DOMAIN files
      BY <1>3, <2>2 DEF ExportsInv, DownloadsSound
    <3> QED BY <1>1, <1>3, <2>2, <3>1 DEF ExportsInv, ExportsAsAuthorized, SentAsAuthorized
  <2> QED BY <2>1, <2>2
<1>7. ExportsTypeOK'
  BY <1>1, <1>2, <1>3 DEF ExportsTypeOK, CreationRows, DownloadRows
<1> QED BY <1>1, <1>4, <1>5, <1>6, <1>7 DEF ExportsInv, ExportsAsAuthorized

LEMMA NoDownloadRow ==
  NoDownload \in DownloadRows /\ NoDownload.phase = "none" /\ NoDownload.seen = {}
  BY DEF NoDownload, DownloadRows

LEMMA FindStep ==
  ASSUME ExportsInv, NEW o \in Owners, NEW i \in DOMAIN files, FindFile(o, i)
  PROVE  ExportsInv'
<1> DEFINE f == Cleanup(files)
           found == [NoDownload EXCEPT !.phase = "found", !.file = i, !.during = {visible[o]}]
           row == IF f[i].listed /\ f[i].owner = o THEN found ELSE NoDownload
<1>1. /\ files' = f /\ Within(f, files)
      /\ download' = [download EXCEPT ![o] = row]
      /\ UNCHANGED <<visible, accepted, pending>>
  BY CleanedUp DEF FindFile
<1> HIDE DEF f
<1>2. /\ found.phase = "found" /\ found.file = i /\ found.during = {visible[o]}
      /\ found.seen = {} /\ found \in DownloadRows
  <2>1. visible[o] \in Views /\ i \in Nat
    BY DEF ExportsInv, ExportsTypeOK
  <2> QED BY <2>1 DEF NoDownload, DownloadRows
<1> HIDE DEF found
<1>3. CASE f[i].listed /\ f[i].owner = o
  <2>1. row = found /\ files[i].owner = o
    BY <1>1, <1>3 DEF Within
  <2> HIDE DEF row
  <2> QED BY <1>1, <1>2, <2>1, OneDownload
<1>4. CASE ~(f[i].listed /\ f[i].owner = o)
  <2>1. row = NoDownload
    BY <1>4
  <2> HIDE DEF row
  <2> QED BY <1>1, <2>1, NoDownloadRow, OneDownload
<1> QED BY <1>3, <1>4

LEMMA AuthorizeStep ==
  ASSUME ExportsInv, NEW o \in Owners, AuthorizeFile(o)
  PROVE  ExportsInv'
<1> DEFINE old == download[o]
           seen == [old EXCEPT !.phase = "authorized", !.seen = {visible[o]}]
<1>1. /\ old.phase = "found" /\ Within(files', files)
      /\ download' = [download EXCEPT ![o] = IF visible[o] \in Exporters THEN seen
                                                                         ELSE NoDownload]
      /\ UNCHANGED <<visible, accepted, pending>>
  BY CleanedUp DEF AuthorizeFile, ExportsInv, ExportsTypeOK
<1>2. /\ old \in DownloadRows /\ old.file \in DOMAIN files /\ files[old.file].owner = o
      /\ visible[o] \in old.during /\ visible[o] \in Views
  BY <1>1, ExportTypes DEF ExportsInv, DownloadsSound, Downloading
<1> HIDE DEF old
<1>3. /\ seen \in DownloadRows /\ seen.phase = "authorized" /\ seen.file = old.file
      /\ seen.during = old.during /\ seen.seen = {visible[o]}
  BY <1>2 DEF DownloadRows
<1> HIDE DEF seen
<1>4. CASE visible[o] \in Exporters
  <2>1. download' = [download EXCEPT ![o] = seen]
    BY <1>1, <1>4
  <2>2. seen.seen \subseteq seen.during \cap Exporters
    BY <1>2, <1>3, <1>4
  <2> QED BY <1>1, <1>2, <1>3, <2>1, <2>2, OneDownload
<1>5. CASE visible[o] \notin Exporters
  <2>1. download' = [download EXCEPT ![o] = NoDownload]
    BY <1>1, <1>5
  <2> QED BY <1>1, <2>1, NoDownloadRow, OneDownload
<1> QED BY <1>4, <1>5

LEMMA SendStep ==
  ASSUME ExportsInv, NEW o \in Owners, SendFile(o)
  PROVE  ExportsInv'
<1> DEFINE old == download[o]
           sent == [old EXCEPT !.phase = "sent", !.report = files[old.file].report]
           may == SameVisibility(o) /\ files[old.file].status = "ready"
<1>1. /\ old.phase = "authorized" /\ Within(files', files)
      /\ download' = [download EXCEPT ![o] = IF may THEN sent ELSE NoDownload]
      /\ UNCHANGED <<visible, accepted, pending>>
  BY CleanedUp DEF SendFile, ExportsInv, ExportsTypeOK
<1>2. /\ old \in DownloadRows /\ old.file \in DOMAIN files /\ files[old.file].owner = o
      /\ old.seen \subseteq old.during \cap Exporters
  BY <1>1, ExportTypes DEF ExportsInv, DownloadsSound, Downloading
<1>3. may => files[old.file].report[1] \in old.during \cap Exporters
  BY <1>2 DEF SameVisibility
<1>4. files[old.file].report \in Snapshots
  <2>1. files[old.file] \in FileRows
    BY <1>2 DEF ExportsInv, ExportsTypeOK
  <2> QED BY <2>1 DEF FileRows
<1> HIDE DEF old, may
<1>5. /\ sent \in DownloadRows /\ sent.phase = "sent" /\ sent.file = old.file
      /\ sent.during = old.during /\ sent.seen = old.seen
      /\ sent.report = files[old.file].report
  BY <1>2, <1>4 DEF DownloadRows
<1> HIDE DEF sent
<1>6. CASE may
  <2>1. download' = [download EXCEPT ![o] = sent]
    BY <1>1, <1>6
  <2>2. /\ sent.file \in DOMAIN files /\ files[sent.file].owner = o
        /\ sent.phase = "sent" /\ sent.seen \subseteq sent.during \cap Exporters
        /\ sent.report = files[sent.file].report
        /\ sent.report[1] \in sent.during \cap Exporters
    BY <1>2, <1>3, <1>5, <1>6
  <2> QED BY <1>1, <1>5, <2>1, <2>2, OneDownload
<1>7. CASE ~may
  <2>1. download' = [download EXCEPT ![o] = NoDownload]
    BY <1>1, <1>7
  <2> QED BY <1>1, <2>1, NoDownloadRow, OneDownload
<1> QED BY <1>6, <1>7

(* New access counts for the downloads that run, and takes nothing from them. *)
LEMMA AccessStep ==
  ASSUME ExportsInv, NEW o \in Owners, NEW v \in Views, ChangeAccess(o, v)
  PROVE  ExportsInv'
<1> DEFINE old == download[o]
           during == IF Downloading(o) THEN old.during \cup {v} ELSE old.during
           new == [old EXCEPT !.during = during]
<1>1. /\ visible' = [visible EXCEPT ![o] = v]
      /\ download' = [download EXCEPT ![o] = new]
      /\ UNCHANGED <<accepted, pending, files>>
  BY DEF ChangeAccess
<1>2. /\ visible \in [Owners -> Views] /\ accepted \in 0..MaxContent
      /\ pending \in [Owners -> CreationRows] /\ download \in [Owners -> DownloadRows]
      /\ files \in Seq(FileRows)
  BY ExportTypes DEF ExportsInv
<1>3. old.during \subseteq during /\ during \subseteq Views /\ (Downloading(o) => v \in during)
  BY <1>2 DEF DownloadRows
<1> HIDE DEF during
<1>4. /\ new \in DownloadRows /\ new.phase = old.phase /\ new.file = old.file
      /\ new.seen = old.seen /\ new.report = old.report /\ new.during = during
  BY <1>2, <1>3 DEF DownloadRows
<1> HIDE DEF new
<1>5. /\ download' \in [Owners -> DownloadRows] /\ visible' \in [Owners -> Views]
      /\ \A p \in Owners : /\ download'[p] = IF p = o THEN new ELSE download[p]
                           /\ visible'[p] = IF p = o THEN v ELSE visible[p]
  BY <1>1, <1>2, <1>4
<1>6. DownloadsSound'
  <2> SUFFICES ASSUME NEW p \in Owners
               PROVE  /\ download'[p].phase # "none" =>
                           /\ download'[p].file \in DOMAIN files
                           /\ files[download'[p].file].owner = p
                      /\ download'[p].phase \in {"found", "authorized"} =>
                           visible'[p] \in download'[p].during
                      /\ download'[p].seen \subseteq download'[p].during \cap Exporters
    BY <1>1 DEF DownloadsSound, Downloading
  <2> QED BY <1>3, <1>4, <1>5 DEF ExportsInv, DownloadsSound, Downloading
<1>7. SentAsAuthorized'
  <2> SUFFICES ASSUME NEW p \in Owners, download'[p].phase = "sent"
               PROVE  /\ download'[p].report = files[download'[p].file].report
                      /\ files[download'[p].file].owner = p
                      /\ download'[p].report[1] \in download'[p].during \cap Exporters
    BY <1>1 DEF SentAsAuthorized
  <2> QED BY <1>3, <1>4, <1>5 DEF ExportsInv, ExportsAsAuthorized, SentAsAuthorized
<1>8. ExportsTypeOK'
  BY <1>1, <1>2, <1>5 DEF ExportsTypeOK, CreationRows, DownloadRows
<1>9. CreationsSound' /\ FilesAsShown' /\ FilesByExporters' /\ StoreBounded'
  BY <1>1 DEF ExportsInv, ExportsAsAuthorized, CreationsSound, FilesAsShown, FilesByExporters,
              StoreBounded, RecordsIn, ReadyIn
<1> QED BY <1>6, <1>7, <1>8, <1>9 DEF ExportsInv, ExportsAsAuthorized

LEMMA ElapseStep ==
  ASSUME ExportsInv, NEW i \in DOMAIN files, Elapse(i)
  PROVE  ExportsInv'
<1>1. /\ files' = [files EXCEPT ![i].age = @ + 1] /\ files[i].age < 2
      /\ UNCHANGED <<visible, accepted, pending, download>>
  BY DEF Elapse
<1>2. files \in Seq(FileRows)
  BY DEF ExportsInv, ExportsTypeOK
<1>3. DOMAIN files' = DOMAIN files /\ files' = [j \in DOMAIN files |-> files'[j]]
  BY <1>1
<1>4. ASSUME NEW j \in DOMAIN files
      PROVE  /\ files'[j] \in FileRows
             /\ files'[j].owner = files[j].owner
             /\ files'[j].request = files[j].request /\ files'[j].report = files[j].report
             /\ files'[j].listed => files[j].listed
             /\ files'[j].status = "ready" => files[j].status = "ready"
  <2>1. files[j] \in FileRows
    BY <1>2
  <2>2. files'[j] = IF j = i THEN [files[j] EXCEPT !.age = @ + 1] ELSE files[j]
    BY <1>1
  <2>3. j = i => files[j].age + 1 \in 0..2
    BY <1>1, <2>1 DEF FileRows
  <2> QED BY <2>1, <2>2, <2>3 DEF FileRows
<1>5. Within(files', files)
  BY <1>2, <1>3, <1>4, RowsWithin
<1>6. DownloadsSound' /\ SentAsAuthorized'
  BY <1>1, <1>5, DownloadsStay
<1>7. files' \in Seq(FileRows) /\ (FilesAsShown /\ FilesByExporters /\ StoreBounded)'
  BY <1>5, FilesStay
<1>8. ExportsTypeOK' /\ CreationsSound'
  BY <1>1, <1>7 DEF ExportsInv, ExportsTypeOK, CreationsSound
<1> QED BY <1>6, <1>7, <1>8 DEF ExportsInv, ExportsAsAuthorized

LEMMA RestartStep ==
  ASSUME ExportsInv, RestartApi
  PROVE  ExportsInv'
<1> USE ExportsAssumption
<1>1. files' = <<>> /\ DOMAIN files' = {} /\ RecordsIn(files') = {} /\ ReadyIn(files') = {}
  BY DEF RestartApi, RecordsIn, ReadyIn
<1>2. StoreBounded'
  <2>1. Cardinality({}) = 0
    BY FS_EmptySet
  <2>2. Cardinality(ReadyIn(files')) = 0 /\ Cardinality(RecordsIn(files')) = 0
    BY <1>1, <2>1, Zenon
  <2>3. (RecordsIn(files))' = RecordsIn(files') /\ (ReadyIn(files))' = ReadyIn(files')
    BY DEF RecordsIn, ReadyIn
  <2> QED BY <2>2, <2>3 DEF StoreBounded
<1>3. ExportsTypeOK'
  <2>1. files' \in Seq(FileRows)
    BY <1>1
  <2>2. pending' \in [Owners -> CreationRows]
    BY DEF RestartApi, NoCreation, CreationRows
  <2>3. download' \in [Owners -> DownloadRows]
    BY NoDownloadRow DEF RestartApi
  <2> QED BY <2>1, <2>2, <2>3 DEF RestartApi, ExportsInv, ExportsTypeOK, CreationRows, DownloadRows
<1>4. CreationsSound'
  BY DEF RestartApi, CreationsSound, NoCreation
<1>5. DownloadsSound' /\ SentAsAuthorized'
  <2>1. \A o \in Owners : download'[o].phase = "none" /\ download'[o].seen = {}
    BY NoDownloadRow DEF RestartApi
  <2> QED BY <2>1 DEF DownloadsSound, SentAsAuthorized, Downloading
<1>6. FilesAsShown' /\ FilesByExporters'
  BY <1>1 DEF FilesAsShown, FilesByExporters
<1> QED BY <1>2, <1>3, <1>4, <1>5, <1>6 DEF ExportsInv, ExportsAsAuthorized

-----------------------------------------------------------------------------
(* Files, creations and downloads agree in every behaviour.                  *)
THEOREM ExportsInvariant == ExportsSpec => []ExportsInv
<1>1. ASSUME ExportsInv, UNCHANGED exportVars PROVE ExportsInv'
  BY <1>1 DEF exportVars, ExportsInv, ExportsTypeOK, ExportsAsAuthorized, SentAsAuthorized,
     FilesAsShown, StoreBounded, RecordsIn, ReadyIn, CreationsSound, FilesByExporters,
     DownloadsSound, Downloading
<1>2. ASSUME ExportsInv, AcceptMore PROVE ExportsInv'
  <2>1. accepted' \in 0..MaxContent
    BY <1>2, ExportsAssumption DEF AcceptMore, ExportsInv, ExportsTypeOK
  <2> QED
    BY <1>2, <2>1 DEF AcceptMore, ExportsInv, ExportsTypeOK, ExportsAsAuthorized,
       SentAsAuthorized, FilesAsShown, StoreBounded, RecordsIn, ReadyIn, CreationsSound,
       FilesByExporters, DownloadsSound, Downloading
<1>3. ExportsInv /\ [ExportsNext]_exportVars => ExportsInv'
  BY <1>1, <1>2, CreationSteps, StoreStep, FindStep, AuthorizeStep, SendStep, AccessStep,
     ElapseStep, RestartStep DEF ExportsNext
<1> QED BY ExportsInitial, <1>3, PTL DEF ExportsSpec

(* For any owners, access contexts, limits and overlapping requests, a file  *)
(* goes out only to its owner, with the access it was made with in force at  *)
(* some moment of the download, and the store keeps to its limits.           *)
THEOREM ExportsHold == ExportsSpec => []ExportsAsAuthorized
<1>1. ExportsInv => ExportsAsAuthorized
  BY DEF ExportsInv
<1> QED BY ExportsInvariant, <1>1, PTL
=============================================================================
