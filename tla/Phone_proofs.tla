----------------------------- MODULE Phone_proofs -----------------------------
(*****************************************************************************)
(* Proofs about the phone of a driver: the journal of offline work keeps     *)
(* what was saved, sends it as the driver saw it and leaves quietly, and a   *)
(* round starts as it was prepared, for any number of tabs, actions,         *)
(* batches, drafts, starts and plans.                                        *)
(*****************************************************************************)
EXTENDS DeviceJournal, RoundPreparation, FiniteSetTheorems, WellFoundedInduction, TLAPS

-----------------------------------------------------------------------------
(* The journal (DeviceJournal).                                              *)
-----------------------------------------------------------------------------
(* The inductive invariant.                                                  *)

Slots == 1..MaxActions

ActionRecord ==
  [kind : {"offline", "connected", "takeover"}, round : Nat, generation : Nat, base : Nat,
   deps : SUBSET Nat, shown : SUBSET Nat]

ServerRecord ==
  [round : Nat, owner : {"this", "other"}, generation : Nat, open : BOOLEAN, revision : Nat]

Copy == [round : Nat, generation : Nat, revision : Nat, known : SUBSET Nat]

Locking   == {"scan", "sent", "owner", "retire", "synced", "starting", "leaving", "updating"}
Reading   == {"before", "after", "save"}

TabRecord ==
  [pc : {"idle"} \cup Locking \cup Reading,
   mode : {"none", "replay", "start", "direct", "page"}, batch : SUBSET Nat,
   answers : SUBSET Nat, attempted : SUBSET Nat, seen : SUBSET (Nat \cup Copy),
   rounds : SUBSET Nat]

(* The copies of the server's round a tab has read and not yet saved.        *)
Held(t) == IF tab[t].pc \in {"after", "save"} THEN tab[t].seen ELSE {}

Copies == download \cup UNION {Held(t) : t \in Tabs}

JournalTypes ==
  /\ server \in ServerRecord
  /\ history \in Seq(Nat)
  /\ result \in [Slots -> Statuses]
  /\ version \in [Slots -> Nat]
  /\ actions \in Seq(ActionRecord) /\ Len(actions) <= MaxActions
  /\ acks \in [Slots -> Statuses]
  /\ pending \subseteq Captured
  /\ download \subseteq Copy
  /\ selection \in {"this", "exiting", "none", "other"}
  /\ tab \in [Tabs -> TabRecord]
  /\ \A t \in Tabs : Held(t) \subseteq Copy
  /\ \A t \in Tabs : tab[t].pc = "retire" => tab[t].seen \subseteq Nat

(* Only a page reads snapshots without the lock.                             *)
Locked ==
  /\ \A t \in Tabs : tab[t].pc \in Locking => lock = t
  /\ \A t \in Tabs : tab[t].pc \in Reading /\ tab[t].mode # "page" => lock = t
  /\ \A t \in Tabs : tab[t].mode = "page" => tab[t].pc \in Reading

(* What is sent was captured, and what a tab has heard is decided.           *)
Resolved ==
  /\ wire \subseteq Captured
  /\ \A t \in Tabs : tab[t].batch \subseteq Captured
  /\ \A t \in Tabs : \A a \in tab[t].answers : a \in Captured /\ result[a] # "none"

(* A receipt is the server's answer; without one the work is shown.          *)
Receipts ==
  /\ \A a \in Captured : acks[a] = "none" => a \in pending
  /\ \A a \in Slots : acks[a] # "none" => acks[a] = result[a]
  /\ \A a \in Slots \ Captured : result[a] = "none"
  /\ Known = {a \in Slots : result[a] = "accepted"}

(* Nothing on the phone is ahead of the server.                              *)
InThePast ==
  /\ \A a \in Captured : actions[a].round <= server.round
  /\ \A t \in Tabs : \A r \in tab[t].rounds : r <= server.round
  /\ \A t \in Tabs : tab[t].pc = "retire" => \A r \in tab[t].seen : r <= server.round
  /\ \A s \in Copies :
       /\ s.round <= server.round /\ s.generation <= server.generation
       /\ s.round = server.round => s.revision <= server.revision
       /\ server.owner # "this" => s.generation < server.generation
  /\ \A s, e \in Copies :
       s.round = e.round /\ s.revision < e.revision => s.generation <= e.generation

(* A copy knows all work of its round up to its revision.                    *)
CopiesAreWhole ==
  \A s \in Copies, a \in Captured :
    /\ result[a] = "accepted" /\ actions[a].kind # "takeover"
    /\ actions[a].round = s.round /\ version[a] <= s.revision
    => a \in s.known

Settled(a)    == actions[a].kind = "offline" /\ acks[a] = "accepted"
Matches(s)    == Owned /\ s.round = server.round /\ s.generation = server.generation
Rests(a, s)   == Matches(s) /\ Settled(a) /\ actions[a].round = s.round

(* Accepted work is pending or in the copy; a copy not yet saved may be      *)
(* overtaken by the one on the phone.                                        *)
ShownOrKnown ==
  /\ \A a \in Captured, s \in download : Rests(a, s) => a \in pending \cup s.known
  /\ \A a \in Captured, t \in Tabs : \A s \in Held(t) :
       Rests(a, s) =>
         \/ a \in pending \cup s.known
         \/ \E e \in download : e.round = s.round /\ Newer(e, s)

(* What is about to be retired is in every copy that still counts.           *)
RetiredIsKnown ==
  \A t \in Tabs : tab[t].pc = "retire" =>
    \A a \in Captured, s \in Copies :
      Rests(a, s) /\ s.round \in tab[t].seen => a \in s.known

JournalInv ==
  /\ JournalTypes /\ Locked /\ Resolved /\ Receipts /\ InThePast
  /\ CopiesAreWhole /\ ShownOrKnown /\ RetiredIsKnown /\ QuietWhenLeaving

-----------------------------------------------------------------------------
(* The rules of the Web Lock.                                                *)
LEMMA TabMoves ==
  ASSUME JournalInv, NEW t \in Tabs, NEW r \in TabRecord, tab' = [tab EXCEPT ![t] = r],
         \/ lock' = lock
         \/ lock = NoTab /\ lock' = t
         \/ lock' = (IF lock = t THEN NoTab ELSE lock),
         r.pc \in Locking => lock' = t,
         r.pc \in Reading /\ r.mode # "page" => lock' = t,
         r.mode = "page" => r.pc \in Reading
  PROVE  Locked' /\ tab' \in [Tabs -> TabRecord] /\ tab'[t] = r
                 /\ \A u \in Tabs \ {t} : tab'[u] = tab[u]
<1>1. tab' \in [Tabs -> TabRecord] /\ tab'[t] = r /\ \A u \in Tabs \ {t} : tab'[u] = tab[u]
  BY DEF JournalInv, JournalTypes
<1>2. \A u \in Tabs \ {t} : lock = u => lock' = u
  BY JournalAssumption DEF JournalAssumption
<1>3. \A u \in Tabs : tab'[u].pc \in Locking => lock' = u
  BY <1>1, <1>2 DEF JournalInv, Locked
<1>4. \A u \in Tabs : tab'[u].pc \in Reading /\ tab'[u].mode # "page" => lock' = u
  BY <1>1, <1>2 DEF JournalInv, Locked
<1>5. \A u \in Tabs : tab'[u].mode = "page" => tab'[u].pc \in Reading
  BY <1>1 DEF JournalInv, Locked
<1> QED BY <1>1, <1>3, <1>4, <1>5 DEF Locked

(* What a tab remembers after one, two or three fields changed.              *)
LEMMA TabField ==
  ASSUME NEW r \in TabRecord, NEW p \in {"idle"} \cup Locking \cup Reading,
         NEW A \in SUBSET Nat, NEW X \in SUBSET (Nat \cup Copy)
  PROVE  /\ [r EXCEPT !.pc = p] =
              [pc |-> p, mode |-> r.mode, batch |-> r.batch, answers |-> r.answers,
               attempted |-> r.attempted, seen |-> r.seen, rounds |-> r.rounds]
         /\ [r EXCEPT !.batch = A] =
              [pc |-> r.pc, mode |-> r.mode, batch |-> A, answers |-> r.answers,
               attempted |-> r.attempted, seen |-> r.seen, rounds |-> r.rounds]
         /\ [r EXCEPT !.answers = A] =
              [pc |-> r.pc, mode |-> r.mode, batch |-> r.batch, answers |-> A,
               attempted |-> r.attempted, seen |-> r.seen, rounds |-> r.rounds]
         /\ [r EXCEPT !.attempted = A] =
              [pc |-> r.pc, mode |-> r.mode, batch |-> r.batch, answers |-> r.answers,
               attempted |-> A, seen |-> r.seen, rounds |-> r.rounds]
         /\ [r EXCEPT !.seen = X] =
              [pc |-> r.pc, mode |-> r.mode, batch |-> r.batch, answers |-> r.answers,
               attempted |-> r.attempted, seen |-> X, rounds |-> r.rounds]
         /\ [r EXCEPT !.rounds = A] =
              [pc |-> r.pc, mode |-> r.mode, batch |-> r.batch, answers |-> r.answers,
               attempted |-> r.attempted, seen |-> r.seen, rounds |-> A]
BY DEF TabRecord

LEMMA TabSubmits ==
  ASSUME NEW r \in TabRecord, NEW B \in SUBSET Nat, NEW C \in SUBSET Nat
  PROVE  [r EXCEPT !.pc = "sent", !.answers = {}, !.batch = B, !.attempted = C] =
         [pc |-> "sent", mode |-> r.mode, batch |-> B, answers |-> {},
          attempted |-> C, seen |-> r.seen, rounds |-> r.rounds]
<1>p. PICK p \in {"idle"} \cup Locking \cup Reading : p = "sent"
  BY DEF Locking
<1>a. PICK A \in SUBSET Nat : A = {}
  OBVIOUS
<1> DEFINE q1 == [r EXCEPT !.pc = p]
           q2 == [q1 EXCEPT !.answers = A]
           q3 == [q2 EXCEPT !.batch = B]
           q4 == [q3 EXCEPT !.attempted = C]
<1>1. q1 \in TabRecord /\ q1 = [pc |-> p, mode |-> r.mode, batch |-> r.batch, answers |-> r.answers,
        attempted |-> r.attempted, seen |-> r.seen, rounds |-> r.rounds]
  BY TabField DEF TabRecord, Locking
<1> HIDE DEF q1
<1>2. q2 \in TabRecord /\ q2 = [pc |-> p, mode |-> r.mode, batch |-> r.batch, answers |-> A,
        attempted |-> r.attempted, seen |-> r.seen, rounds |-> r.rounds]
  BY <1>1, TabField DEF TabRecord, Locking
<1> HIDE DEF q2
<1>3. q3 \in TabRecord /\ q3 = [pc |-> p, mode |-> r.mode, batch |-> B, answers |-> A,
        attempted |-> r.attempted, seen |-> r.seen, rounds |-> r.rounds]
  BY <1>2, TabField DEF TabRecord, Locking
<1> HIDE DEF q3
<1>4. q4 = [pc |-> p, mode |-> r.mode, batch |-> B, answers |-> A,
        attempted |-> C, seen |-> r.seen, rounds |-> r.rounds]
  BY <1>3, TabField DEF TabRecord, Locking
<1> HIDE DEF q4
<1>5. q4 = [r EXCEPT !.pc = p, !.answers = A, !.batch = B, !.attempted = C]
  BY DEF q1, q2, q3, q4
<1> QED BY <1>p, <1>a, <1>4, <1>5

LEMMA TabHandles ==
  ASSUME NEW r \in TabRecord, NEW B \in SUBSET Nat, NEW A \in SUBSET Nat
  PROVE  [r EXCEPT !.batch = B, !.answers = A] =
         [pc |-> r.pc, mode |-> r.mode, batch |-> B, answers |-> A,
          attempted |-> r.attempted, seen |-> r.seen, rounds |-> r.rounds]
<1> DEFINE q1 == [r EXCEPT !.batch = B]
           q2 == [q1 EXCEPT !.answers = A]
<1>1. q1 \in TabRecord /\ q1 = [pc |-> r.pc, mode |-> r.mode, batch |-> B, answers |-> r.answers,
        attempted |-> r.attempted, seen |-> r.seen, rounds |-> r.rounds]
  BY TabField DEF TabRecord, Locking
<1> HIDE DEF q1
<1>2. q2 \in TabRecord /\ q2 = [pc |-> r.pc, mode |-> r.mode, batch |-> B, answers |-> A,
        attempted |-> r.attempted, seen |-> r.seen, rounds |-> r.rounds]
  BY <1>1, TabField DEF TabRecord, Locking
<1> HIDE DEF q2
<1>3. q2 = [r EXCEPT !.batch = B, !.answers = A]
  BY DEF q1, q2
<1> QED BY <1>2, <1>3

LEMMA TabHolds ==
  ASSUME NEW r \in TabRecord, NEW p \in {"idle"} \cup Locking \cup Reading, NEW A \in SUBSET Nat
  PROVE  [r EXCEPT !.pc = p, !.rounds = A] =
         [pc |-> p, mode |-> r.mode, batch |-> r.batch, answers |-> r.answers,
          attempted |-> r.attempted, seen |-> r.seen, rounds |-> A]
<1> DEFINE q1 == [r EXCEPT !.pc = p]
           q2 == [q1 EXCEPT !.rounds = A]
<1>1. q1 \in TabRecord /\ q1 = [pc |-> p, mode |-> r.mode, batch |-> r.batch, answers |-> r.answers,
        attempted |-> r.attempted, seen |-> r.seen, rounds |-> r.rounds]
  BY TabField DEF TabRecord, Locking
<1> HIDE DEF q1
<1>2. q2 \in TabRecord /\ q2 = [pc |-> p, mode |-> r.mode, batch |-> r.batch, answers |-> r.answers,
        attempted |-> r.attempted, seen |-> r.seen, rounds |-> A]
  BY <1>1, TabField DEF TabRecord, Locking
<1> HIDE DEF q2
<1>3. q2 = [r EXCEPT !.pc = p, !.rounds = A]
  BY DEF q1, q2
<1> QED BY <1>2, <1>3

LEMMA TabSees ==
  ASSUME NEW r \in TabRecord, NEW p \in {"idle"} \cup Locking \cup Reading, NEW X \in SUBSET (Nat \cup Copy)
  PROVE  [r EXCEPT !.pc = p, !.seen = X] =
         [pc |-> p, mode |-> r.mode, batch |-> r.batch, answers |-> r.answers,
          attempted |-> r.attempted, seen |-> X, rounds |-> r.rounds]
<1> DEFINE q1 == [r EXCEPT !.pc = p]
           q2 == [q1 EXCEPT !.seen = X]
<1>1. q1 \in TabRecord /\ q1 = [pc |-> p, mode |-> r.mode, batch |-> r.batch, answers |-> r.answers,
        attempted |-> r.attempted, seen |-> r.seen, rounds |-> r.rounds]
  BY TabField DEF TabRecord, Locking
<1> HIDE DEF q1
<1>2. q2 \in TabRecord /\ q2 = [pc |-> p, mode |-> r.mode, batch |-> r.batch, answers |-> r.answers,
        attempted |-> r.attempted, seen |-> X, rounds |-> r.rounds]
  BY <1>1, TabField DEF TabRecord, Locking
<1> HIDE DEF q2
<1>3. q2 = [r EXCEPT !.pc = p, !.seen = X]
  BY DEF q1, q2
<1> QED BY <1>2, <1>3

LEMMA TabForgets ==
  ASSUME NEW r \in TabRecord, NEW X \in SUBSET (Nat \cup Copy), NEW p \in {"idle"} \cup Locking \cup Reading
  PROVE  [r EXCEPT !.seen = X, !.pc = p] =
         [pc |-> p, mode |-> r.mode, batch |-> r.batch, answers |-> r.answers,
          attempted |-> r.attempted, seen |-> X, rounds |-> r.rounds]
<1> DEFINE q1 == [r EXCEPT !.seen = X]
           q2 == [q1 EXCEPT !.pc = p]
<1>1. q1 \in TabRecord /\ q1 = [pc |-> r.pc, mode |-> r.mode, batch |-> r.batch, answers |-> r.answers,
        attempted |-> r.attempted, seen |-> X, rounds |-> r.rounds]
  BY TabField DEF TabRecord, Locking
<1> HIDE DEF q1
<1>2. q2 \in TabRecord /\ q2 = [pc |-> p, mode |-> r.mode, batch |-> r.batch, answers |-> r.answers,
        attempted |-> r.attempted, seen |-> X, rounds |-> r.rounds]
  BY <1>1, TabField DEF TabRecord, Locking
<1> HIDE DEF q2
<1>3. q2 = [r EXCEPT !.seen = X, !.pc = p]
  BY DEF q1, q2
<1> QED BY <1>2, <1>3

-----------------------------------------------------------------------------
(* How the server changes: rounds, generations and revisions only grow, what *)
(* is decided stays, and what is accepted now is newer than every copy.      *)
Advances ==
  /\ server' \in ServerRecord
  /\ server'.round >= server.round /\ server'.generation >= server.generation
  /\ server'.round = server.round => server'.revision >= server.revision
  /\ server'.owner # "this" =>
       server.owner # "this" \/ server'.generation > server.generation
  /\ server'.owner = "this" /\ server'.open /\ server'.round = server.round
     /\ server'.generation = server.generation => Owned
  /\ history' \in Seq(Nat)
  /\ result' \in [Slots -> Statuses]
  /\ version' \in [Slots -> Nat]
  /\ Known' = {a \in Slots : result'[a] = "accepted"}
  /\ \A a \in Slots : result[a] # "none" => result'[a] = result[a] /\ version'[a] = version[a]
  /\ \A a \in Slots \ Captured : result'[a] = "none"
  /\ \A a \in Captured :
       result[a] = "none" /\ result'[a] = "accepted" /\ actions[a].kind # "takeover" =>
         /\ actions[a].round = server.round /\ server'.round = server.round
         /\ version'[a] > server.revision

LEMMA CapturedAreSlots ==
  ASSUME JournalInv
  PROVE  /\ Captured = 1..Len(actions) /\ Len(actions) \in Nat /\ Captured \subseteq Slots
         /\ \A a \in Captured : actions[a] \in ActionRecord
<1>1. actions \in Seq(ActionRecord) /\ Len(actions) <= MaxActions
  BY DEF JournalInv, JournalTypes
<1>2. Captured = 1..Len(actions) /\ Len(actions) \in Nat
  BY <1>1 DEF Captured
<1>3. \A a \in Captured : actions[a] \in ActionRecord
  BY <1>1 DEF Captured
<1> QED BY <1>1, <1>2, <1>3, JournalAssumption DEF Slots, JournalAssumption

LEMMA Standstill ==
  ASSUME JournalInv, UNCHANGED serverVars
  PROVE  Advances
<1>1. server \in ServerRecord /\ history \in Seq(Nat) /\ result \in [Slots -> Statuses]
      /\ version \in [Slots -> Nat]
  BY DEF JournalInv, JournalTypes
<1>2. Known' = Known /\ Known = {a \in Slots : result[a] = "accepted"}
      /\ \A a \in Slots \ Captured : result[a] = "none"
  BY DEF serverVars, Known, JournalInv, Receipts
<1>3. server' = server /\ history' = history /\ result' = result /\ version' = version
  BY DEF serverVars
<1> QED BY <1>1, <1>2, <1>3 DEF Advances, Owned, ServerRecord

(* Only the record of the round moves.                                       *)
LEMMA RoundMoves ==
  ASSUME JournalInv, UNCHANGED <<history, result, version>>,
         server' \in ServerRecord,
         server'.round >= server.round, server'.generation >= server.generation,
         server'.round = server.round => server'.revision >= server.revision,
         server'.owner # "this" =>
           server.owner # "this" \/ server'.generation > server.generation,
         server'.owner = "this" /\ server'.open /\ server'.round = server.round
           /\ server'.generation = server.generation => Owned
  PROVE  Advances
<1>1. history \in Seq(Nat) /\ result \in [Slots -> Statuses]
      /\ version \in [Slots -> Nat]
  BY DEF JournalInv, JournalTypes
<1>2. Known' = Known /\ Known = {a \in Slots : result[a] = "accepted"}
      /\ \A a \in Slots \ Captured : result[a] = "none"
  BY DEF Known, JournalInv, Receipts
<1> QED BY <1>1, <1>2 DEF Advances

LEMMA KnownGrows ==
  ASSUME history \in Seq(Nat), NEW a \in Nat, history' = Append(history, a)
  PROVE  Known' = Known \cup {a} /\ history' \in Seq(Nat)
<1>1. history' \in Seq(Nat) /\ Len(history') = Len(history) + 1 /\ Len(history) \in Nat
  OBVIOUS
<1>2. \A i \in 1..Len(history) : history'[i] = history[i]
  OBVIOUS
<1>3. history'[Len(history) + 1] = a
  OBVIOUS
<1>4. DOMAIN history = 1..Len(history) /\ DOMAIN history' = 1..(Len(history) + 1)
  BY <1>1
<1>5. ASSUME NEW x \in Known' PROVE x \in Known \cup {a}
  <2>1. PICK i \in DOMAIN history' : x = history'[i]
    BY <1>5 DEF Known
  <2>2. CASE i = Len(history) + 1
    BY <2>1, <2>2, <1>3
  <2>3. CASE i \in 1..Len(history)
    BY <2>1, <2>3, <1>2, <1>4 DEF Known
  <2> QED BY <2>2, <2>3, <1>4, <1>1
<1>6. ASSUME NEW x \in Known PROVE x \in Known'
  <2>1. PICK i \in DOMAIN history : x = history[i]
    BY <1>6 DEF Known
  <2>2. i \in DOMAIN history' /\ history'[i] = x
    BY <2>1, <1>2, <1>4, <1>1
  <2> QED BY <2>2 DEF Known
<1>7. a \in Known'
  <2>1. Len(history) + 1 \in DOMAIN history'
    BY <1>1, <1>4
  <2> QED BY <2>1, <1>3 DEF Known
<1> QED BY <1>1, <1>5, <1>6, <1>7

LEMMA HandleAdvances ==
  ASSUME JournalInv, NEW a \in Captured, Handle(a)
  PROVE  Advances
<1>0. a \in Slots /\ a \in Nat /\ actions[a] \in ActionRecord
  BY CapturedAreSlots DEF Slots
<1>1. server \in ServerRecord /\ history \in Seq(Nat) /\ result \in [Slots -> Statuses]
      /\ version \in [Slots -> Nat]
  BY DEF JournalInv, JournalTypes
<1>2. Known = {x \in Slots : result[x] = "accepted"}
      /\ \A x \in Slots \ Captured : result[x] = "none"
  BY DEF JournalInv, Receipts
<1>3. CASE UNCHANGED serverVars
  BY <1>3, Standstill
<1>4. CASE result[a] = "none" /\ Refuse(a)
  <2>1. result' = [result EXCEPT ![a] = "refused"] /\ server' = server /\ history' = history
        /\ version' = version
    BY <1>4 DEF Refuse
  <2>2. result' \in [Slots -> Statuses]
    BY <2>1, <1>1 DEF Statuses
  <2>3. Known' = {x \in Slots : result'[x] = "accepted"}
    BY <2>1, <1>1, <1>2, <1>0, <1>4 DEF Known
  <2> QED BY <2>1, <2>2, <2>3, <1>0, <1>1, <1>2, <1>4 DEF Advances, Owned, ServerRecord
<1>5. CASE result[a] = "none" /\ Accept(a)
  <2>1. result' = [result EXCEPT ![a] = "accepted"] /\ history' = Append(history, a)
        /\ actions[a].round = server.round /\ server.open
    BY <1>5 DEF Accept, Fits, Stale
  <2>2. result' \in [Slots -> Statuses]
    BY <2>1, <1>1 DEF Statuses
  <2>3. Known' = Known \cup {a} /\ history' \in Seq(Nat)
    BY <2>1, <1>0, <1>1, KnownGrows
  <2>4. Known' = {x \in Slots : result'[x] = "accepted"}
    BY <2>1, <2>3, <1>0, <1>1, <1>2
  <2>5. CASE actions[a].kind = "takeover"
    <3>1. server' = [server EXCEPT !.owner = "this", !.generation = @ + 1] /\ version' = version
      BY <2>5, <1>5 DEF Accept
    <3>2. server' = [round |-> server.round, owner |-> "this", generation |-> server.generation + 1,
                     open |-> server.open, revision |-> server.revision]
      BY <3>1, <1>1 DEF ServerRecord
    <3>3. server' \in ServerRecord
      BY <3>2, <1>1 DEF ServerRecord
    <3>4. \A x \in Captured : result[x] = "none" /\ result'[x] = "accepted" => x = a
      BY <2>1, <1>1, CapturedAreSlots
    <3> QED BY <3>1, <3>2, <3>3, <3>4, <2>1, <2>2, <2>3, <2>4, <2>5, <1>0, <1>1, <1>2, <1>5
            DEF Advances, Owned, ServerRecord
  <2>6. CASE actions[a].kind # "takeover"
    <3>1. server' = [server EXCEPT !.revision = @ + 1]
          /\ version' = [version EXCEPT ![a] = server.revision + 1]
      BY <2>6, <1>5 DEF Accept
    <3>2. server' = [round |-> server.round, owner |-> server.owner,
                     generation |-> server.generation, open |-> server.open,
                     revision |-> server.revision + 1]
      BY <3>1, <1>1 DEF ServerRecord
    <3>a. server.revision \in Nat /\ server.revision + 1 \in Nat
      BY <1>1 DEF ServerRecord
    <3>b. server' \in ServerRecord
      BY <3>2, <3>a, <1>1 DEF ServerRecord
    <3>c. version' \in [Slots -> Nat]
      BY <3>1, <3>a, <1>1
    <3>3. server' \in ServerRecord /\ version' \in [Slots -> Nat]
      BY <3>b, <3>c
    <3>4. \A x \in Captured : result[x] = "none" /\ result'[x] = "accepted" => x = a
      BY <2>1, <1>1, CapturedAreSlots
    <3>5. version'[a] = server.revision + 1 /\ server.revision \in Nat
      BY <3>1, <1>0, <1>1 DEF ServerRecord
    <3> QED BY <3>1, <3>2, <3>3, <3>4, <3>5, <2>1, <2>2, <2>3, <2>4, <1>0, <1>1, <1>2, <1>5
            DEF Advances, Owned, ServerRecord
  <2> QED BY <2>5, <2>6
<1> QED BY <1>3, <1>4, <1>5 DEF Handle

-----------------------------------------------------------------------------
(* Steps that leave the work and the copies on the phone as they are.        *)
CopiesStay ==
  /\ tab' \in [Tabs -> TabRecord]
  /\ UNCHANGED <<actions, acks, pending, download>>
  /\ \A t \in Tabs : Held(t)' \subseteq Held(t)
  /\ \A t \in Tabs : tab'[t].pc = "retire" => tab[t].pc = "retire" /\ tab'[t].seen = tab[t].seen
  /\ \A t \in Tabs : \A n \in tab'[t].rounds : n <= server.round

LEMMA ReceiptsStay ==
  ASSUME JournalInv, Advances, CopiesStay
  PROVE  Receipts'
<1>1. Captured' = Captured /\ acks' = acks /\ pending' = pending
  BY DEF CopiesStay, Captured
<1>2. \A a \in Slots : acks[a] # "none" => acks[a] = result'[a]
  BY DEF JournalInv, Receipts, Advances
<1> QED BY <1>1, <1>2 DEF JournalInv, Receipts, Advances

LEMMA CopiesSubset ==
  ASSUME CopiesStay
  PROVE  Copies' \subseteq Copies
BY DEF CopiesStay, Copies

LEMMA CopiesTyped ==
  ASSUME JournalInv
  PROVE  Copies \subseteq Copy /\ server \in ServerRecord
BY DEF JournalInv, JournalTypes, Copies

LEMMA PastStays ==
  ASSUME JournalInv, Advances, CopiesStay
  PROVE  InThePast'
<1>0. server \in ServerRecord /\ server' \in ServerRecord /\ Copies \subseteq Copy
  BY CopiesTyped DEF Advances
<1>1. Captured' = Captured /\ actions' = actions
  BY DEF CopiesStay, Captured
<1>2. \A a \in Captured : actions[a].round <= server'.round
  BY <1>0, CapturedAreSlots DEF JournalInv, InThePast, Advances, ActionRecord, ServerRecord
<1>3. \A t \in Tabs : \A n \in tab'[t].rounds : n <= server'.round
  BY <1>0 DEF CopiesStay, Advances, ServerRecord, TabRecord
<1>4. ASSUME NEW t \in Tabs, tab'[t].pc = "retire", NEW n \in tab'[t].seen
      PROVE  n <= server'.round
  <2>1. tab[t].pc = "retire" /\ n \in tab[t].seen /\ n \in Nat
    BY <1>4 DEF CopiesStay, JournalInv, JournalTypes
  <2> QED BY <2>1, <1>0 DEF JournalInv, InThePast, Advances, ServerRecord
<1>5. ASSUME NEW s \in Copies'
      PROVE  /\ s.round <= server'.round /\ s.generation <= server'.generation
             /\ s.round = server'.round => s.revision <= server'.revision
             /\ server'.owner # "this" => s.generation < server'.generation
  <2>1. s \in Copies /\ s \in Copy
    BY <1>0, CopiesSubset
  <2> QED BY <2>1, <1>0 DEF JournalInv, InThePast, Advances, ServerRecord, Copy
<1>6. \A s, e \in Copies' :
        s.round = e.round /\ s.revision < e.revision => s.generation <= e.generation
  BY CopiesSubset DEF JournalInv, InThePast
<1> QED BY <1>1, <1>2, <1>3, <1>4, <1>5, <1>6 DEF InThePast

(* A copy stays whole: what is accepted now is newer than it.                *)
LEMMA WholeStays ==
  ASSUME JournalInv, Advances, CopiesStay
  PROVE  CopiesAreWhole'
<1>0. server \in ServerRecord /\ Copies \subseteq Copy
  BY CopiesTyped
<1>1. Captured' = Captured /\ actions' = actions /\ Captured \subseteq Slots
  BY CapturedAreSlots DEF CopiesStay, Captured
<1> SUFFICES ASSUME NEW s \in Copies', NEW a \in Captured,
                    result'[a] = "accepted", actions[a].kind # "takeover",
                    actions[a].round = s.round, version'[a] <= s.revision
             PROVE  a \in s.known
  BY <1>1 DEF CopiesAreWhole
<1>2. s \in Copies /\ s \in Copy
  BY <1>0, CopiesSubset
<1>3. CASE result[a] = "none"
  <2>1. s.round = server.round /\ version'[a] > server.revision
    BY <1>3 DEF Advances
  <2>2. s.revision <= server.revision
    BY <1>2, <2>1 DEF JournalInv, InThePast
  <2>3. version'[a] \in Nat /\ s.revision \in Nat /\ server.revision \in Nat
    BY <1>0, <1>1, <1>2 DEF Advances, ServerRecord, Copy
  <2> QED BY <2>1, <2>2, <2>3
<1>4. CASE result[a] # "none"
  <2>1. result[a] = "accepted" /\ version'[a] = version[a]
    BY <1>1, <1>4 DEF Advances
  <2> QED BY <2>1, <1>2 DEF JournalInv, CopiesAreWhole
<1> QED BY <1>3, <1>4

(* A copy that counts after the step counted before it.                      *)
LEMMA RestsBefore ==
  ASSUME JournalInv, Advances, UNCHANGED <<actions, acks>>, NEW a, NEW s \in Copies,
         Rests(a, s)'
  PROVE  Rests(a, s)
<1>0. server \in ServerRecord /\ server' \in ServerRecord /\ s \in Copy
  BY CopiesTyped DEF Advances
<1>1. Settled(a) /\ actions[a].round = s.round
  BY DEF Rests, Settled
<1>2. server'.owner = "this" /\ server'.open /\ s.round = server'.round
      /\ s.generation = server'.generation
  BY DEF Rests, Matches, Owned
<1>3. s.round <= server.round /\ s.generation <= server.generation
  BY DEF JournalInv, InThePast
<1>4. s.round = server.round /\ s.generation = server.generation
  BY <1>0, <1>2, <1>3 DEF Advances, Copy, ServerRecord
<1>5. Owned
  BY <1>2, <1>4 DEF Advances
<1> QED BY <1>1, <1>4, <1>5 DEF Rests, Matches

LEMMA ShownStays ==
  ASSUME JournalInv, Advances, CopiesStay
  PROVE  ShownOrKnown' /\ RetiredIsKnown'
<1>1. Captured' = Captured /\ UNCHANGED <<actions, acks, pending, download>>
  BY DEF CopiesStay, Captured
<1>2. ASSUME NEW a \in Captured, NEW s \in download, Rests(a, s)'
      PROVE  a \in pending \cup s.known
  <2>1. Rests(a, s)
    BY <1>1, <1>2, RestsBefore DEF Copies
  <2> QED BY <2>1 DEF JournalInv, ShownOrKnown
<1>3. ASSUME NEW a \in Captured, NEW t \in Tabs, NEW s \in Held(t)', Rests(a, s)'
      PROVE  \/ a \in pending \cup s.known
             \/ \E e \in download : e.round = s.round /\ Newer(e, s)
  <2>1. s \in Held(t)
    BY DEF CopiesStay
  <2>2. Rests(a, s)
    BY <1>1, <1>3, <2>1, RestsBefore DEF Copies
  <2> QED BY <2>1, <2>2 DEF JournalInv, ShownOrKnown
<1>4. ASSUME NEW t \in Tabs, tab'[t].pc = "retire", NEW a \in Captured, NEW s \in Copies',
             Rests(a, s)', s.round \in tab'[t].seen
      PROVE  a \in s.known
  <2>1. s \in Copies
    BY CopiesSubset
  <2>2. Rests(a, s)
    BY <1>1, <1>4, <2>1, RestsBefore
  <2>3. tab[t].pc = "retire" /\ s.round \in tab[t].seen
    BY <1>4 DEF CopiesStay
  <2> QED BY <2>1, <2>2, <2>3 DEF JournalInv, RetiredIsKnown
<1>5. \A e, s : Newer(e, s)' <=> Newer(e, s)
  BY DEF Newer
<1>6. ShownOrKnown'
  BY <1>1, <1>2, <1>3, <1>5 DEF ShownOrKnown
<1>7. RetiredIsKnown'
  BY <1>1, <1>4 DEF RetiredIsKnown
<1> QED BY <1>6, <1>7

Leaving   == {"starting", "leaving", "updating"}
Away      == {"exiting", "none", "other"}

LEMMA QuietStays ==
  ASSUME JournalInv, Unreceived' \subseteq Unreceived,
         \A t \in Tabs : tab'[t].pc \in Leaving => tab[t].pc \in Leaving \/ Unreceived = {},
         selection' \in Away => selection \in Away \/ Unreceived = {}
  PROVE  QuietWhenLeaving'
BY DEF JournalInv, QuietWhenLeaving, Leaving, Away

(* A step of the server or of a tab that leaves the work and the copies on   *)
(* the phone as they are keeps everything.                                   *)
LEMMA StayKeeps ==
  ASSUME JournalInv, Advances, CopiesStay, Locked', Resolved',
         selection' \in {"this", "exiting", "none", "other"},
         \A t \in Tabs : tab'[t].pc \in Leaving => tab[t].pc \in Leaving \/ Unreceived = {},
         selection' \in Away => selection \in Away \/ Unreceived = {}
  PROVE  JournalInv'
<1>1. UNCHANGED <<actions, acks, pending, download>> /\ Captured' = Captured
  BY DEF CopiesStay, Captured
<1>2. Unreceived' = Unreceived
  BY <1>1 DEF Unreceived
<1>3. QuietWhenLeaving'
  BY <1>2, QuietStays
<1>4. \A t \in Tabs : Held(t)' \subseteq Copy
  BY DEF CopiesStay, JournalInv, JournalTypes
<1>5. \A t \in Tabs : tab'[t].pc = "retire" => tab'[t].seen \subseteq Nat
  BY DEF CopiesStay, JournalInv, JournalTypes
<1>6. JournalTypes'
  BY <1>1, <1>4, <1>5 DEF JournalInv, JournalTypes, Advances, CopiesStay
<1> QED BY <1>3, <1>6, ReceiptsStay, PastStays, WholeStays, ShownStays DEF JournalInv

-----------------------------------------------------------------------------
(* The steps of the server and of other phones.                              *)
LEMMA ServerStep ==
  ASSUME JournalInv, Advances, UNCHANGED <<actions, acks, pending, download, lock, tab>>,
         wire' \subseteq Captured, selection' \in {"this", "exiting", "none", "other"},
         selection' \in Away => selection \in Away \/ Unreceived = {}
  PROVE  JournalInv'
<1>1. tab' = tab /\ lock' = lock /\ Captured' = Captured /\ tab \in [Tabs -> TabRecord]
  BY DEF Captured, JournalInv, JournalTypes
<1>2. CopiesStay
  BY <1>1 DEF CopiesStay, Held, JournalInv, InThePast
<1>3. Locked'
  BY <1>1 DEF JournalInv, Locked
<1>4. Resolved'
  BY <1>1, CapturedAreSlots DEF JournalInv, Resolved, Advances
<1> QED BY <1>1, <1>2, <1>3, <1>4, StayKeeps

LEMMA OthersAct ==
  ASSUME JournalInv, TakeOver \/ OtherWorks \/ EndRound
  PROVE  JournalInv'
<1>0. server \in ServerRecord /\ wire \subseteq Captured
  BY DEF JournalInv, JournalTypes, Resolved
<1>1. UNCHANGED <<history, result, version, actions, acks, pending, download, selection, lock,
                  tab, wire>>
  BY DEF TakeOver, OtherWorks, EndRound, store, network
<1>2. \/ server.owner = "this" /\ server' = [server EXCEPT !.owner = "other", !.generation = @ + 1]
      \/ server.owner = "other" /\ server' = [server EXCEPT !.revision = @ + 1]
      \/ server' = [server EXCEPT !.open = FALSE]
  BY DEF TakeOver, OtherWorks, EndRound, Owned
<1>3. CASE server.owner = "this"
           /\ server' = [server EXCEPT !.owner = "other", !.generation = @ + 1]
  <2>1. server' = [round |-> server.round, owner |-> "other", generation |-> server.generation + 1,
                   open |-> server.open, revision |-> server.revision]
    BY <1>0, <1>3 DEF ServerRecord
  <2>2. Advances
    BY <1>0, <1>1, <2>1, RoundMoves DEF ServerRecord
  <2> QED BY <1>0, <1>1, <2>2, ServerStep DEF JournalInv, JournalTypes
<1>4. CASE server.owner = "other" /\ server' = [server EXCEPT !.revision = @ + 1]
  <2>1. server' = [round |-> server.round, owner |-> "other", generation |-> server.generation,
                   open |-> server.open, revision |-> server.revision + 1]
    BY <1>0, <1>4 DEF ServerRecord
  <2>2. Advances
    BY <1>0, <1>1, <1>4, <2>1, RoundMoves DEF ServerRecord
  <2> QED BY <1>0, <1>1, <2>2, ServerStep DEF JournalInv, JournalTypes
<1>5. CASE server' = [server EXCEPT !.open = FALSE]
  <2>1. server' = [round |-> server.round, owner |-> server.owner,
                   generation |-> server.generation, open |-> FALSE,
                   revision |-> server.revision]
    BY <1>0, <1>5 DEF ServerRecord
  <2>2. Advances
    BY <1>0, <1>1, <2>1, RoundMoves DEF ServerRecord
  <2> QED BY <1>0, <1>1, <2>2, ServerStep DEF JournalInv, JournalTypes
<1> QED BY <1>2, <1>3, <1>4, <1>5

LEMMA StartAdvances ==
  ASSUME JournalInv, NEW stamp, Started(stamp), UNCHANGED <<history, result, version>>
  PROVE  Advances
<1>0. server \in ServerRecord
  BY DEF JournalInv, JournalTypes
<1>1. CASE server' = [round |-> server.round + 1, owner |-> "this",
                      generation |-> server.generation + 1, open |-> TRUE, revision |-> 0]
  BY <1>0, <1>1, RoundMoves DEF ServerRecord
<1>2. CASE UNCHANGED server
  BY <1>2, Standstill DEF serverVars
<1> QED BY <1>1, <1>2 DEF Started

LEMMA LateRequests ==
  ASSUME JournalInv, LateStart \/ \E a \in wire : LateRequest(a)
  PROVE  JournalInv'
<1>0. wire \subseteq Captured
  BY DEF JournalInv, Resolved
<1>1. CASE LateStart
  <2>1. Advances
    BY <1>1, StartAdvances DEF LateStart
  <2> QED BY <1>0, <1>1, <2>1, ServerStep DEF LateStart, store, JournalInv, JournalTypes
<1>2. ASSUME NEW a \in wire, LateRequest(a) PROVE JournalInv'
  <2>1. Advances
    BY <1>0, <1>2, HandleAdvances DEF LateRequest
  <2> QED BY <1>0, <1>2, <2>1, ServerStep DEF LateRequest, store, JournalInv, JournalTypes
<1> QED BY <1>1, <1>2

LEMMA SelectionMoves ==
  ASSUME JournalInv, OtherLeaves \/ BlockLostOwner \/ \E account \in {"this", "other"} : Login(account)
  PROVE  JournalInv'
<1>0. wire \subseteq Captured /\ selection \in {"this", "exiting", "none", "other"}
  BY DEF JournalInv, Resolved, JournalTypes
<1>1. UNCHANGED serverVars /\ UNCHANGED <<actions, acks, pending, download, lock, tab, wire>>
  BY DEF OtherLeaves, BlockLostOwner, Login, LocalOnly, network
<1>2. Advances
  BY <1>1, Standstill
<1>3. selection' \in {"this", "exiting", "none", "other"}
      /\ (selection' \in Away => selection \in Away)
  BY <1>0 DEF OtherLeaves, BlockLostOwner, Login, Away
<1> QED BY <1>0, <1>1, <1>2, <1>3, ServerStep

-----------------------------------------------------------------------------
(* The steps of a tab that leave the work and the copies as they are.        *)
LEMMA TabStep ==
  ASSUME JournalInv, Advances, UNCHANGED <<actions, acks, pending, download>>,
         NEW t \in Tabs, NEW r \in TabRecord, tab' = [tab EXCEPT ![t] = r],
         \/ lock' = lock
         \/ lock = NoTab /\ lock' = t
         \/ lock' = (IF lock = t THEN NoTab ELSE lock),
         r.pc \in Locking => lock' = t,
         r.pc \in Reading /\ r.mode # "page" => lock' = t,
         r.mode = "page" => r.pc \in Reading,
         wire' \subseteq Captured, r.batch \subseteq Captured,
         \A a \in r.answers : a \in Captured /\ result'[a] # "none",
         r.pc \in {"after", "save"} => tab[t].pc \in {"after", "save"} /\ r.seen = tab[t].seen,
         r.pc = "retire" => tab[t].pc = "retire" /\ r.seen = tab[t].seen,
         \A n \in r.rounds : n <= server.round,
         selection' \in {"this", "exiting", "none", "other"},
         r.pc \in Leaving => tab[t].pc \in Leaving \/ Unreceived = {},
         selection' \in Away => selection \in Away \/ Unreceived = {}
  PROVE  JournalInv'
<1>1. Locked' /\ tab' \in [Tabs -> TabRecord] /\ tab'[t] = r
      /\ \A u \in Tabs \ {t} : tab'[u] = tab[u]
  BY TabMoves
<1>2. CopiesStay
  <2>1. \A u \in Tabs : Held(u)' \subseteq Held(u)
    BY <1>1 DEF Held
  <2>2. \A u \in Tabs : tab'[u].pc = "retire" => tab[u].pc = "retire" /\ tab'[u].seen = tab[u].seen
    BY <1>1
  <2>3. \A u \in Tabs : \A n \in tab'[u].rounds : n <= server.round
    BY <1>1 DEF JournalInv, InThePast
  <2> QED BY <1>1, <2>1, <2>2, <2>3 DEF CopiesStay
<1>3. Captured' = Captured
  BY DEF Captured
<1>4. \A a \in Captured : result[a] # "none" => result'[a] # "none"
  BY CapturedAreSlots DEF Advances
<1>5. Resolved'
  BY <1>1, <1>3, <1>4 DEF JournalInv, Resolved
<1>6. \A u \in Tabs : tab'[u].pc \in Leaving => tab[u].pc \in Leaving \/ Unreceived = {}
  BY <1>1
<1> QED BY <1>1, <1>2, <1>5, <1>6, StayKeeps

LEMMA TabFacts ==
  ASSUME JournalInv, NEW t \in Tabs
  PROVE  /\ tab[t] \in TabRecord /\ Idle \in TabRecord
         /\ tab[t].batch \subseteq Captured /\ wire \subseteq Captured
         /\ \A a \in tab[t].answers : a \in Captured /\ result[a] # "none"
         /\ \A n \in tab[t].rounds : n <= server.round
         /\ selection \in {"this", "exiting", "none", "other"}
         /\ tab[t].pc \in Locking => lock = t
         /\ tab[t].pc \in Reading /\ tab[t].mode # "page" => lock = t
         /\ tab[t].mode = "page" => tab[t].pc \in Reading
<1>1. tab[t] \in TabRecord /\ selection \in {"this", "exiting", "none", "other"}
  BY DEF JournalInv, JournalTypes
<1>2. Idle \in TabRecord
  BY DEF Idle, Begun, TabRecord
<1> QED BY <1>1, <1>2 DEF JournalInv, Resolved, Locked, InThePast

LEMMA Releases ==
  ASSUME JournalInv, Advances, UNCHANGED <<actions, acks, pending, download>>,
         NEW t \in Tabs, Release(t), wire' \subseteq Captured,
         selection' \in {"this", "exiting", "none", "other"},
         selection' \in Away => selection \in Away \/ Unreceived = {}
  PROVE  JournalInv'
<1>1. tab' = [tab EXCEPT ![t] = Idle] /\ lock' = (IF lock = t THEN NoTab ELSE lock)
  BY DEF Release, Rest
<1>2. Idle \in TabRecord
  BY TabFacts
<1>3. Idle.pc = "idle" /\ Idle.mode = "none" /\ Idle.batch = {} /\ Idle.answers = {}
      /\ Idle.rounds = {}
  BY DEF Idle, Begun
<1>4. Idle.pc \notin Locking /\ Idle.pc \notin Reading /\ Idle.pc \notin Leaving
  BY <1>3 DEF Locking, Reading, Leaving
<1> QED BY <1>1, <1>2, <1>3, <1>4, TabStep

LEMMA GoesOn ==
  ASSUME JournalInv, UNCHANGED serverVars, UNCHANGED <<actions, acks, pending, download, lock, wire>>,
         NEW t \in Tabs, NEW p \in Locking \cup {"before", "save"},
         tab' = [tab EXCEPT ![t] = [tab[t] EXCEPT !.pc = p]],
         lock = t \/ (tab[t].mode = "page" /\ p \in Reading),
         p # "retire", p = "save" => tab[t].pc = "after", tab[t].mode = "page" => p \in Reading,
         UNCHANGED selection, p \in Leaving => Unreceived = {}
  PROVE  JournalInv'
<1> DEFINE r == [tab[t] EXCEPT !.pc = p]
<1>1. tab[t] \in TabRecord /\ p \in {"idle"} \cup Locking \cup Reading
  BY TabFacts DEF Reading
<1>2. r = [pc |-> p, mode |-> tab[t].mode, batch |-> tab[t].batch, answers |-> tab[t].answers,
           attempted |-> tab[t].attempted, seen |-> tab[t].seen, rounds |-> tab[t].rounds]
  BY <1>1, TabField
<1>3. r \in TabRecord
  BY <1>1, <1>2 DEF TabRecord
<1>4. tab' = [tab EXCEPT ![t] = r]
  OBVIOUS
<1> HIDE DEF r
<1>5. r.pc = p /\ r.mode = tab[t].mode /\ r.batch = tab[t].batch /\ r.answers = tab[t].answers
      /\ r.seen = tab[t].seen /\ r.rounds = tab[t].rounds
  BY <1>2
<1>6. Advances /\ result' = result
  BY Standstill DEF serverVars
<1>7. p \in Locking => p \notin Reading
  BY DEF Locking, Reading
<1>8. p \in {"after", "save"} => p = "save"
  BY DEF Locking
<1>9. p \in Locking => lock = t
  BY <1>7
<1>10. p \in Reading /\ tab[t].mode # "page" => lock = t
  OBVIOUS
<1>11. /\ r.pc \in Locking => lock' = t
       /\ r.pc \in Reading /\ r.mode # "page" => lock' = t
       /\ r.mode = "page" => r.pc \in Reading
       /\ r.pc \in Leaving => tab[t].pc \in Leaving \/ Unreceived = {}
  BY <1>5, <1>9, <1>10
<1>12. /\ wire' \subseteq Captured /\ r.batch \subseteq Captured
       /\ \A a \in r.answers : a \in Captured /\ result'[a] # "none"
       /\ \A n \in r.rounds : n <= server.round
       /\ selection' \in {"this", "exiting", "none", "other"}
  BY <1>5, <1>6, TabFacts
<1>13. r.pc \in {"after", "save"} => tab[t].pc \in {"after", "save"} /\ r.seen = tab[t].seen
  BY <1>5, <1>8
<1> QED BY <1>3, <1>4, <1>5, <1>6, <1>11, <1>12, <1>13, TabStep

LEMMA ReplayBegins ==
  ASSUME JournalInv, NEW t \in Tabs, NEW mode \in {"replay", "start"}, BeginReplay(t, mode)
  PROVE  JournalInv'
<1> DEFINE r == Begun("scan", mode, {})
<1>1. r = [pc |-> "scan", mode |-> mode, batch |-> {}, answers |-> {}, attempted |-> {},
           seen |-> {}, rounds |-> {}]
  BY DEF Begun
<1>2. tab' = [tab EXCEPT ![t] = r] /\ lock = NoTab /\ lock' = t
      /\ UNCHANGED <<actions, acks, pending, download, selection, wire>> /\ UNCHANGED serverVars
  BY DEF BeginReplay, Select, LocalOnly, network
<1>3. r \in TabRecord
  BY <1>1 DEF TabRecord, Locking
<1>4. r.pc = "scan" /\ r.mode # "page" /\ r.batch = {} /\ r.answers = {} /\ r.rounds = {}
  BY <1>1
<1>5. Advances
  BY <1>2, Standstill
<1> HIDE DEF r
<1>6. r.pc \notin Leaving /\ r.pc \notin Reading
  BY <1>4 DEF Leaving, Reading
<1> QED BY <1>2, <1>3, <1>4, <1>5, <1>6, TabFacts, TabStep

LEMMA DirectSends ==
  ASSUME JournalInv, NEW t \in Tabs, NEW a \in Slots, SendDirectly(t, a)
  PROVE  JournalInv'
<1> DEFINE r == Begun("sent", "direct", {a})
<1>1. r = [pc |-> "sent", mode |-> "direct", batch |-> {a}, answers |-> {}, attempted |-> {},
           seen |-> {}, rounds |-> {}]
  BY DEF Begun
<1>2. tab' = [tab EXCEPT ![t] = r] /\ lock = NoTab /\ lock' = t /\ a \in Captured
      /\ UNCHANGED <<actions, acks, pending, download, selection, wire>> /\ UNCHANGED serverVars
  BY DEF SendDirectly, Select, LocalOnly, network
<1>3. r \in TabRecord
  BY <1>1 DEF TabRecord, Locking, Slots
<1>4. r.pc = "sent" /\ r.mode # "page" /\ r.batch = {a} /\ r.answers = {} /\ r.rounds = {}
  BY <1>1
<1>5. Advances
  BY <1>2, Standstill
<1> HIDE DEF r
<1>6. r.pc \notin Leaving /\ r.pc \notin Reading
  BY <1>4 DEF Leaving, Reading
<1> QED BY <1>2, <1>3, <1>4, <1>5, <1>6, TabFacts, TabStep

LEMMA DownloadBegins ==
  ASSUME JournalInv, NEW t \in Tabs, BeginDownload(t)
  PROVE  JournalInv'
<1> DEFINE r == Begun("before", "page", {})
<1>1. r = [pc |-> "before", mode |-> "page", batch |-> {}, answers |-> {}, attempted |-> {},
           seen |-> {}, rounds |-> {}]
  BY DEF Begun
<1>2. tab' = [tab EXCEPT ![t] = r]
      /\ UNCHANGED <<actions, acks, pending, download, selection, lock, wire>>
      /\ UNCHANGED serverVars
  BY DEF BeginDownload, Select, LocalOnly, network
<1>3. r \in TabRecord
  BY <1>1 DEF TabRecord, Reading
<1>4. r.pc = "before" /\ r.mode = "page" /\ r.batch = {} /\ r.answers = {} /\ r.rounds = {}
  BY <1>1
<1>5. Advances
  BY <1>2, Standstill
<1> HIDE DEF r
<1>6. r.pc \notin Leaving /\ r.pc \notin Locking /\ r.pc \in Reading
  BY <1>4 DEF Leaving, Reading, Locking
<1> QED BY <1>2, <1>3, <1>4, <1>5, <1>6, TabFacts, TabStep

(* A tab that holds the lock goes on with other fields.                      *)
LEMMA HolderGoesOn ==
  ASSUME JournalInv, Advances, UNCHANGED <<actions, acks, pending, download, lock, selection, wire>>,
         NEW t \in Tabs, tab[t].pc \in Locking,
         NEW r \in TabRecord, tab' = [tab EXCEPT ![t] = r],
         r.pc \in Locking, r.pc # "retire", r.mode = tab[t].mode,
         r.batch \subseteq Captured,
         \A a \in r.answers : a \in Captured /\ result'[a] # "none",
         \A n \in r.rounds : n <= server.round,
         r.pc \in Leaving => tab[t].pc \in Leaving \/ Unreceived = {}
  PROVE  JournalInv'
<1>1. r.pc \notin Reading /\ r.pc \notin {"after", "save"} /\ tab[t].pc \notin Reading
  BY DEF Locking, Reading
<1>2. lock' = t /\ r.mode # "page" /\ wire' \subseteq Captured
      /\ selection' \in {"this", "exiting", "none", "other"}
  BY <1>1, TabFacts
<1> QED BY <1>1, <1>2, TabStep

LEMMA ReplaySubmits ==
  ASSUME JournalInv, NEW t \in Tabs, Submit(t)
  PROVE  JournalInv'
<1>0. tab[t] \in TabRecord /\ tab[t].pc \in Locking /\ Ready(t) \subseteq Captured
      /\ Captured \subseteq Nat
  BY TabFacts, CapturedAreSlots DEF Submit, Locking, Ready, Slots
<1> DEFINE C == tab[t].attempted \cup Ready(t)
           r == [pc |-> "sent", mode |-> tab[t].mode, batch |-> Ready(t), answers |-> {},
                 attempted |-> C, seen |-> tab[t].seen, rounds |-> tab[t].rounds]
<1>a. Ready(t) \in SUBSET Nat /\ C \in SUBSET Nat
  BY <1>0 DEF TabRecord
<1>1. tab' = [tab EXCEPT ![t] = [tab[t] EXCEPT !.pc = "sent", !.answers = {},
                                               !.batch = Ready(t), !.attempted = C]]
  BY DEF Submit
<1> HIDE DEF C
<1>2. [tab[t] EXCEPT !.pc = "sent", !.answers = {}, !.batch = Ready(t), !.attempted = C] = r
  BY <1>0, <1>a, TabSubmits
<1>3. r \in TabRecord
  BY <1>0, <1>a DEF TabRecord, Locking
<1>4. r.pc = "sent" /\ r.mode = tab[t].mode /\ r.batch = Ready(t) /\ r.answers = {}
      /\ r.rounds = tab[t].rounds
  OBVIOUS
<1>5. UNCHANGED <<actions, acks, pending, download, lock, selection, wire>> /\ UNCHANGED serverVars
  BY DEF Submit, LocalOnly, StoreUnchanged, store, network
<1>6. Advances /\ tab' = [tab EXCEPT ![t] = r]
  BY <1>1, <1>2, <1>5, Standstill
<1> HIDE DEF r
<1>7. r.pc \in Locking /\ r.pc \notin Leaving /\ r.pc # "retire"
  BY <1>4 DEF Locking, Leaving
<1> QED BY <1>0, <1>3, <1>4, <1>5, <1>6, <1>7, TabFacts, HolderGoesOn

LEMMA ServerHandles ==
  ASSUME JournalInv, NEW t \in Tabs, HandleFirst(t)
  PROVE  JournalInv'
<1>0. tab[t] \in TabRecord /\ tab[t].pc \in Locking
  BY TabFacts DEF HandleFirst, Locking
<1>1. PICK a \in First(tab[t].batch) :
        /\ Handle(a)
        /\ tab' = [tab EXCEPT ![t] =
             [tab[t] EXCEPT !.batch = tab[t].batch \ {a},
                !.answers = tab[t].answers \cup {b \in {a} : result'[b] # "none"}]]
  BY <1>0 DEF HandleFirst
<1>2. a \in Captured /\ a \in Nat
  BY TabFacts, CapturedAreSlots DEF First, Slots
<1> DEFINE A == tab[t].answers \cup {b \in {a} : result'[b] # "none"}
           r == [pc |-> tab[t].pc, mode |-> tab[t].mode, batch |-> tab[t].batch \ {a},
                 answers |-> A,
                 attempted |-> tab[t].attempted, seen |-> tab[t].seen, rounds |-> tab[t].rounds]
<1>3. A \in SUBSET Nat /\ tab[t].batch \ {a} \in SUBSET Nat
  BY <1>0, <1>2 DEF TabRecord
<1>4. Advances
  BY <1>1, <1>2, HandleAdvances
<1>5. \A b \in A : b \in Captured /\ result'[b] # "none"
  BY <1>2, <1>4, TabFacts, CapturedAreSlots DEF Advances
<1>6. tab' = [tab EXCEPT ![t] = [tab[t] EXCEPT !.batch = tab[t].batch \ {a}, !.answers = A]]
  BY <1>1
<1> HIDE DEF A
<1>7. [tab[t] EXCEPT !.batch = tab[t].batch \ {a}, !.answers = A] = r
  BY <1>0, <1>3, TabHandles
<1>8. r \in TabRecord
  BY <1>0, <1>3 DEF TabRecord
<1>9. r.pc = tab[t].pc /\ r.mode = tab[t].mode /\ r.batch = tab[t].batch \ {a} /\ r.answers = A
      /\ r.rounds = tab[t].rounds
  OBVIOUS
<1>10. UNCHANGED <<actions, acks, pending, download, lock, selection, wire>>
       /\ tab' = [tab EXCEPT ![t] = r] /\ tab[t].pc # "retire" /\ tab[t].pc \notin Leaving
  BY <1>6, <1>7 DEF HandleFirst, store, network, Leaving
<1> HIDE DEF r
<1> QED BY <1>0, <1>4, <1>5, <1>8, <1>9, <1>10, TabFacts, HolderGoesOn

LEMMA FirstFails ==
  ASSUME JournalInv, NEW t \in Tabs, FailFirst(t)
  PROVE  JournalInv'
<1>0. tab[t] \in TabRecord /\ tab[t].pc \in Locking
  BY TabFacts DEF FailFirst, Locking
<1> DEFINE B == tab[t].batch \ First(tab[t].batch)
           r == [pc |-> tab[t].pc, mode |-> tab[t].mode, batch |-> B, answers |-> tab[t].answers,
                 attempted |-> tab[t].attempted, seen |-> tab[t].seen, rounds |-> tab[t].rounds]
<1>1. B \in SUBSET Nat /\ B \subseteq Captured
  BY <1>0, TabFacts DEF TabRecord
<1>2. tab' = [tab EXCEPT ![t] = [tab[t] EXCEPT !.batch = B]]
  BY DEF FailFirst
<1> HIDE DEF B
<1>3. [tab[t] EXCEPT !.batch = B] = r
  BY <1>0, <1>1, TabField
<1>4. r \in TabRecord
  BY <1>0, <1>1 DEF TabRecord
<1>5. r.pc = tab[t].pc /\ r.mode = tab[t].mode /\ r.batch = B /\ r.answers = tab[t].answers
      /\ r.rounds = tab[t].rounds
  OBVIOUS
<1>6. UNCHANGED <<actions, acks, pending, download, lock, selection, wire>> /\ UNCHANGED serverVars
      /\ tab' = [tab EXCEPT ![t] = r] /\ tab[t].pc # "retire" /\ tab[t].pc \notin Leaving
  BY <1>2, <1>3 DEF FailFirst, store, network, Leaving
<1>7. Advances /\ result' = result
  BY <1>6, Standstill DEF serverVars
<1> HIDE DEF r
<1> QED BY <1>0, <1>1, <1>4, <1>5, <1>6, <1>7, TabFacts, HolderGoesOn

LEMMA BatchEnds ==
  ASSUME JournalInv, NEW t \in Tabs, EndBatch(t)
  PROVE  JournalInv'
<1>0. tab[t] \in TabRecord /\ tab[t].pc \in Locking
      /\ tab[t].answers = {} /\ tab[t].batch = {}
  BY TabFacts DEF EndBatch, Locking
<1>1. UNCHANGED <<actions, acks, pending, download, selection, wire>> /\ UNCHANGED serverVars
  BY DEF EndBatch, LocalOnly, StoreUnchanged, store, network
<1>2. Advances
  BY <1>1, Standstill
<1>3. CASE Release(t)
  BY <1>1, <1>2, <1>3, TabFacts, Releases
<1>4. CASE Goto(t, "scan") /\ UNCHANGED lock
  <2> DEFINE r == [pc |-> "scan", mode |-> tab[t].mode, batch |-> tab[t].batch,
                   answers |-> tab[t].answers, attempted |-> tab[t].attempted,
                   seen |-> tab[t].seen, rounds |-> tab[t].rounds]
  <2>1. "scan" \in {"idle"} \cup Locking \cup Reading
    BY DEF Locking
  <2>2. tab' = [tab EXCEPT ![t] = [tab[t] EXCEPT !.pc = "scan"]]
    BY <1>4 DEF Goto
  <2>3. [tab[t] EXCEPT !.pc = "scan"] = r
    BY <1>0, <2>1, TabField
  <2>4. r \in TabRecord
    BY <1>0 DEF TabRecord, Locking
  <2>5. r.pc = "scan" /\ r.mode = tab[t].mode /\ r.batch = {} /\ r.answers = {}
        /\ r.rounds = tab[t].rounds
    BY <1>0
  <2>6. tab' = [tab EXCEPT ![t] = r]
    BY <2>2, <2>3
  <2> HIDE DEF r
  <2>7. r.pc \in Locking /\ r.pc \notin Leaving /\ r.pc # "retire"
    BY <2>5 DEF Locking, Leaving
  <2> QED BY <1>0, <1>1, <1>2, <1>4, <2>4, <2>5, <2>6, <2>7, TabFacts, HolderGoesOn
<1> QED BY <1>3, <1>4 DEF EndBatch

LEMMA ScanEnds ==
  ASSUME JournalInv, NEW t \in Tabs, EndScan(t)
  PROVE  JournalInv'
<1>0. tab[t] \in TabRecord /\ tab[t].pc \in Locking
  BY TabFacts DEF EndScan, Locking
<1>1. UNCHANGED <<actions, acks, pending, download, selection, wire>> /\ UNCHANGED serverVars
  BY DEF EndScan, LocalOnly, StoreUnchanged, store, network
<1>2. Advances /\ result' = result
  BY <1>1, Standstill DEF serverVars
<1>3. CASE Release(t)
  BY <1>1, <1>2, <1>3, TabFacts, Releases
<1>4. CASE /\ tab' = [tab EXCEPT ![t] =
                  [tab[t] EXCEPT !.pc = "owner", !.rounds = {actions[a].round : a \in pending}]]
           /\ UNCHANGED lock
  <2> DEFINE A == {actions[a].round : a \in pending}
             r == [pc |-> "owner", mode |-> tab[t].mode, batch |-> tab[t].batch,
                   answers |-> tab[t].answers, attempted |-> tab[t].attempted,
                   seen |-> tab[t].seen, rounds |-> A]
  <2>0. \A a \in pending : a \in Captured /\ actions[a].round \in Nat
                           /\ actions[a].round <= server.round
    BY CapturedAreSlots DEF JournalInv, JournalTypes, InThePast, ActionRecord
  <2>1. A \in SUBSET Nat /\ \A n \in A : n <= server.round
    BY <2>0
  <2>2. tab' = [tab EXCEPT ![t] = [tab[t] EXCEPT !.pc = "owner", !.rounds = A]]
    BY <1>4
  <2> HIDE DEF A
  <2>3. [tab[t] EXCEPT !.pc = "owner", !.rounds = A] = r
    BY <1>0, <2>1, TabHolds DEF Locking
  <2>4. r \in TabRecord
    BY <1>0, <2>1 DEF TabRecord, Locking
  <2>5. r.pc = "owner" /\ r.mode = tab[t].mode /\ r.batch = tab[t].batch
        /\ r.answers = tab[t].answers /\ r.rounds = A
    OBVIOUS
  <2>6. tab' = [tab EXCEPT ![t] = r]
    BY <2>2, <2>3
  <2> HIDE DEF r
  <2>7. r.pc \in Locking /\ r.pc \notin Leaving /\ r.pc # "retire"
    BY <2>5 DEF Locking, Leaving
  <2> QED BY <1>0, <1>1, <1>2, <1>4, <2>1, <2>4, <2>5, <2>6, <2>7, TabFacts, HolderGoesOn
<1> QED BY <1>3, <1>4 DEF EndScan

LEMMA ReplayEnds ==
  ASSUME JournalInv, NEW t \in Tabs, EndReplay(t)
  PROVE  JournalInv'
<1>0. tab[t] \in TabRecord /\ tab[t].pc \in Locking /\ server.generation \in Nat
  BY TabFacts DEF EndReplay, Locking, JournalInv, JournalTypes, ServerRecord
<1>1. UNCHANGED <<actions, acks, pending, download, selection, wire>> /\ UNCHANGED serverVars
  BY DEF EndReplay, LocalOnly, StoreUnchanged, store, network
<1>2. Advances /\ result' = result
  BY <1>1, Standstill DEF serverVars
<1>3. CASE Release(t)
  BY <1>1, <1>2, <1>3, TabFacts, Releases
<1>4. CASE /\ Unreceived = {}
           /\ tab' = [tab EXCEPT ![t] =
                  [tab[t] EXCEPT !.pc = "starting", !.seen = {server.generation}]]
           /\ UNCHANGED lock
  <2> DEFINE r == [pc |-> "starting", mode |-> tab[t].mode, batch |-> tab[t].batch,
                   answers |-> tab[t].answers, attempted |-> tab[t].attempted,
                   seen |-> {server.generation}, rounds |-> tab[t].rounds]
  <2>3. [tab[t] EXCEPT !.pc = "starting", !.seen = {server.generation}] = r
    BY <1>0, TabSees DEF Locking
  <2>4. r \in TabRecord
    BY <1>0 DEF TabRecord, Locking
  <2>5. r.pc = "starting" /\ r.mode = tab[t].mode /\ r.batch = tab[t].batch
        /\ r.answers = tab[t].answers /\ r.rounds = tab[t].rounds
    OBVIOUS
  <2>6. tab' = [tab EXCEPT ![t] = r]
    BY <1>4, <2>3
  <2> HIDE DEF r
  <2>7. r.pc \in Locking /\ r.pc # "retire"
    BY <2>5 DEF Locking
  <2>8. /\ r.batch \subseteq Captured
        /\ \A a \in r.answers : a \in Captured /\ result'[a] # "none"
        /\ \A n \in r.rounds : n <= server.round
    BY <1>2, <2>5, TabFacts
  <2> QED BY <1>0, <1>1, <1>2, <1>4, <2>4, <2>5, <2>6, <2>7, <2>8, HolderGoesOn
<1> QED BY <1>3, <1>4 DEF EndReplay

LEMMA TabEnds ==
  ASSUME JournalInv, NEW t \in Tabs, Abandon(t) \/ EndUpdate(t) \/ FinishExit(t) \/ Die(t)
  PROVE  JournalInv'
<1>1. Release(t) /\ UNCHANGED <<actions, acks, pending, download>> /\ UNCHANGED serverVars
  BY DEF Abandon, EndUpdate, FinishExit, Die, LocalOnly, StoreUnchanged, store
<1>2. wire' \subseteq Captured
  BY TabFacts DEF Abandon, EndUpdate, FinishExit, Die, LocalOnly, network
<1>3. selection' \in {"this", "exiting", "none", "other"}
      /\ (selection' \in Away => selection \in Away \/ Unreceived = {})
  BY TabFacts DEF Abandon, EndUpdate, FinishExit, Die, StoreUnchanged, store, Away
<1>4. Advances
  BY <1>1, Standstill
<1> QED BY <1>1, <1>2, <1>3, <1>4, Releases

LEMMA RoundStarts ==
  ASSUME JournalInv, NEW t \in Tabs, StartRound(t)
  PROVE  JournalInv'
<1>1. Release(t) /\ UNCHANGED <<actions, acks, pending, download, selection, wire>>
      /\ UNCHANGED <<history, result, version>>
  BY DEF StartRound, store, network
<1>2. \E stamp \in tab[t].seen : Started(stamp)
  BY DEF StartRound
<1>3. Advances
  BY <1>1, <1>2, StartAdvances
<1> QED BY <1>1, <1>3, TabFacts, Releases

LEMMA SecondSnapshot ==
  ASSUME JournalInv, NEW t \in Tabs, ReadAfter(t)
  PROVE  JournalInv'
<1>1. UNCHANGED <<actions, acks, pending, download, selection, wire>> /\ UNCHANGED serverVars
      /\ tab[t].pc = "after"
  BY DEF ReadAfter, LocalOnly, StoreUnchanged, store, network
<1>2. Advances
  BY <1>1, Standstill
<1>3. CASE Release(t)
  BY <1>1, <1>2, <1>3, TabFacts, Releases
<1>4. CASE Goto(t, "save") /\ UNCHANGED lock
  <2>1. tab' = [tab EXCEPT ![t] = [tab[t] EXCEPT !.pc = "save"]]
    BY <1>4 DEF Goto
  <2>2. lock = t \/ tab[t].mode = "page"
    BY <1>1, TabFacts DEF Reading
  <2>3. "save" \in Reading /\ "save" \notin Leaving
    BY DEF Reading, Leaving
  <2> QED BY <1>1, <1>4, <2>1, <2>2, <2>3, GoesOn
<1> QED BY <1>3, <1>4 DEF ReadAfter

(* A seal or an update begins from an idle tab that takes the lock.          *)
LEMMA LeavingBegins ==
  ASSUME JournalInv, NEW t \in Tabs, PrepareExit(t) \/ BeginUpdate(t)
  PROVE  JournalInv'
<1>1. tab[t].pc = "idle" /\ lock = NoTab /\ lock' = t /\ Unreceived = {}
      /\ UNCHANGED <<actions, acks, pending, download, wire>> /\ UNCHANGED serverVars
  BY DEF PrepareExit, BeginUpdate, LocalOnly, StoreUnchanged, store, network
<1>2. PICK p \in {"leaving", "updating"} : tab' = [tab EXCEPT ![t] = [tab[t] EXCEPT !.pc = p]]
  BY DEF PrepareExit, BeginUpdate, Goto
<1>3. selection' \in {"this", "exiting", "none", "other"}
  BY TabFacts DEF PrepareExit, BeginUpdate, StoreUnchanged, store
<1> DEFINE r == [pc |-> p, mode |-> tab[t].mode, batch |-> tab[t].batch,
                 answers |-> tab[t].answers, attempted |-> tab[t].attempted,
                 seen |-> tab[t].seen, rounds |-> tab[t].rounds]
<1>4. p \in {"idle"} \cup Locking \cup Reading /\ tab[t] \in TabRecord
  BY TabFacts DEF Locking
<1>5. [tab[t] EXCEPT !.pc = p] = r
  BY <1>4, TabField
<1>6. r \in TabRecord
  BY <1>4 DEF TabRecord
<1>7. r.pc = p /\ r.mode = tab[t].mode /\ r.batch = tab[t].batch /\ r.answers = tab[t].answers
      /\ r.rounds = tab[t].rounds
  OBVIOUS
<1>8. tab' = [tab EXCEPT ![t] = r]
  BY <1>2, <1>5
<1> HIDE DEF r
<1>9. p \notin Reading /\ p \notin {"after", "save"} /\ p # "retire"
  BY DEF Reading
<1>10. tab[t].mode # "page"
  BY <1>1, TabFacts DEF Reading
<1>11. Advances /\ result' = result
  BY <1>1, Standstill DEF serverVars
<1>12. /\ wire' \subseteq Captured /\ r.batch \subseteq Captured
       /\ \A a \in r.answers : a \in Captured /\ result'[a] # "none"
       /\ \A n \in r.rounds : n <= server.round
  BY <1>1, <1>7, <1>11, TabFacts
<1> QED BY <1>1, <1>3, <1>6, <1>7, <1>8, <1>9, <1>10, <1>11, <1>12, TabStep

-----------------------------------------------------------------------------
(* Receipts, and the refresh.                                                *)
LEMMA ReceiptSaved ==
  ASSUME JournalInv, NEW t \in Tabs, SaveReceipt(t)
  PROVE  JournalInv'
<1>0. tab[t] \in TabRecord /\ tab[t].pc = "sent" /\ tab[t].pc \in Locking /\ lock = t
  BY TabFacts DEF SaveReceipt, Locking
<1>1. PICK a \in tab[t].answers :
        /\ Acknowledge(a)
        /\ tab' = [tab EXCEPT ![t] = [tab[t] EXCEPT !.answers = tab[t].answers \ {a}]]
  BY DEF SaveReceipt
<1>2. a \in Captured /\ a \in Nat /\ result[a] # "none" /\ a \in Slots
  BY TabFacts, CapturedAreSlots DEF Slots
<1>3. UNCHANGED <<actions, download, selection, blocked, lock, wire>> /\ UNCHANGED serverVars
  BY DEF SaveReceipt, LocalOnly, network
<1> DEFINE A == tab[t].answers \ {a}
           r == [pc |-> tab[t].pc, mode |-> tab[t].mode, batch |-> tab[t].batch, answers |-> A,
                 attempted |-> tab[t].attempted, seen |-> tab[t].seen, rounds |-> tab[t].rounds]
<1>4. A \in SUBSET Nat /\ \A b \in A : b \in Captured /\ result[b] # "none"
  BY <1>0, <1>2, TabFacts DEF TabRecord
<1>5. tab' = [tab EXCEPT ![t] = [tab[t] EXCEPT !.answers = A]]
  BY <1>1
<1> HIDE DEF A
<1>6. [tab[t] EXCEPT !.answers = A] = r
  BY <1>0, <1>4, TabField
<1>7. r \in TabRecord
  BY <1>0, <1>4 DEF TabRecord
<1>8. r.pc = "sent" /\ r.mode = tab[t].mode /\ r.batch = tab[t].batch /\ r.answers = A
      /\ r.rounds = tab[t].rounds
  BY <1>0
<1>9. tab' = [tab EXCEPT ![t] = r]
  BY <1>5, <1>6
<1> HIDE DEF r
<1>10. r.pc \in Locking /\ r.pc \notin Reading /\ r.pc \notin Leaving
  BY <1>8 DEF Locking, Reading, Leaving
<1>11. Locked' /\ tab' \in [Tabs -> TabRecord] /\ tab'[t] = r
       /\ \A u \in Tabs \ {t} : tab'[u] = tab[u]
  BY <1>0, <1>3, <1>7, <1>8, <1>9, <1>10, TabFacts, TabMoves
<1>12. acks' = [acks EXCEPT ![a] = result[a]] /\ pending' \subseteq pending
       /\ \A b \in pending : b # a \/ (result[a] = "accepted" /\ actions[a].kind = "offline")
                             => b \in pending'
  BY <1>1 DEF Acknowledge
<1>13. result \in [Slots -> Statuses] /\ acks \in [Slots -> Statuses] /\ Captured' = Captured
  BY <1>3 DEF JournalInv, JournalTypes, Captured
<1>14. acks' \in [Slots -> Statuses] /\ acks'[a] = result[a]
       /\ \A b \in Slots : b # a => acks'[b] = acks[b]
  BY <1>2, <1>12, <1>13
<1>15. \A u \in Tabs : Held(u)' \subseteq Held(u)
  BY <1>8, <1>11 DEF Held
<1>16. Copies' \subseteq Copies
  BY <1>3, <1>15 DEF Copies
<1>17. server' = server /\ result' = result /\ version' = version /\ history' = history
       /\ Known' = Known
  BY <1>3 DEF serverVars, Known
<1>18. JournalTypes'
  <2>1. \A u \in Tabs : Held(u)' \subseteq Copy
    BY <1>15 DEF JournalInv, JournalTypes
  <2>2. \A u \in Tabs : tab'[u].pc = "retire" => tab'[u].seen \subseteq Nat
    BY <1>8, <1>11 DEF JournalInv, JournalTypes
  <2> QED BY <1>3, <1>11, <1>12, <1>13, <1>14, <1>17, <2>1, <2>2 DEF JournalInv, JournalTypes
<1>19. Resolved'
  BY <1>3, <1>4, <1>8, <1>11, <1>13, <1>17 DEF JournalInv, Resolved
<1>20. Receipts'
  <2>1. \A b \in Captured : acks'[b] = "none" => b \in pending'
    BY <1>2, <1>12, <1>14, CapturedAreSlots DEF JournalInv, Receipts
  <2> QED BY <2>1, <1>2, <1>13, <1>14, <1>17 DEF JournalInv, Receipts
<1>21. InThePast'
  BY <1>3, <1>8, <1>11, <1>13, <1>16, <1>17 DEF JournalInv, InThePast
<1>22. CopiesAreWhole'
  BY <1>3, <1>13, <1>16, <1>17 DEF JournalInv, CopiesAreWhole
<1>23. ASSUME NEW b \in Captured, NEW s, Rests(b, s)'
       PROVE  b \in pending' \/ (Rests(b, s) /\ (b \in pending => b \in pending'))
  <2>1. b \in Slots /\ actions[b].kind = "offline" /\ acks'[b] = "accepted"
    BY <1>3, <1>23, CapturedAreSlots DEF Rests, Settled
  <2>2. CASE b # a
    BY <1>3, <1>12, <1>14, <1>17, <1>23, <2>1, <2>2 DEF Rests, Settled, Matches, Owned
  <2>3. CASE b = a /\ acks[a] = "none"
    BY <1>2, <1>12, <1>14, <2>1, <2>3 DEF JournalInv, Receipts
  <2>4. CASE b = a /\ acks[a] # "none"
    <3>1. acks'[a] = acks[a] /\ result[a] = "accepted"
      BY <1>2, <1>14, <2>1, <2>4 DEF JournalInv, Receipts
    <3> QED BY <1>3, <1>12, <1>17, <1>23, <2>1, <2>4, <3>1 DEF Rests, Settled, Matches, Owned
  <2> QED BY <2>2, <2>3, <2>4
<1>24. ShownOrKnown'
  <2>1. ASSUME NEW b \in Captured, NEW s \in download, Rests(b, s)'
        PROVE  b \in pending' \cup s.known
    BY <1>23, <2>1 DEF JournalInv, ShownOrKnown
  <2>2. ASSUME NEW b \in Captured, NEW u \in Tabs, NEW s \in Held(u)', Rests(b, s)'
        PROVE  \/ b \in pending' \cup s.known
               \/ \E e \in download : e.round = s.round /\ Newer(e, s)
    BY <1>15, <1>23, <2>2 DEF JournalInv, ShownOrKnown
  <2>3. \A e, s : Newer(e, s)' <=> Newer(e, s)
    BY DEF Newer
  <2> QED BY <1>3, <1>13, <2>1, <2>2, <2>3 DEF ShownOrKnown
<1>25. RetiredIsKnown'
  <2>1. \A u \in Tabs : tab'[u].pc # "retire"
    <3>1. \A u \in Tabs \ {t} : tab[u].pc # "retire"
      BY <1>0, TabFacts DEF Locking
    <3> QED BY <1>8, <1>11, <3>1
  <2> QED BY <2>1 DEF RetiredIsKnown
<1>26. QuietWhenLeaving'
  <2>1. Unreceived' \subseteq Unreceived
    <3>1. ASSUME NEW b \in Unreceived' PROVE b \in Unreceived
      <4>1. b \in Captured /\ acks'[b] = "none"
        BY <1>12, <1>13 DEF Unreceived, JournalInv, JournalTypes
      <4>2. b # a /\ b \in Slots
        BY <1>2, <1>14, <4>1, CapturedAreSlots
      <4> QED BY <1>14, <4>1, <4>2 DEF Unreceived
    <3> QED BY <3>1
  <2>2. \A u \in Tabs : tab'[u].pc \in Leaving => tab[u].pc \in Leaving
    BY <1>8, <1>10, <1>11
  <2> QED BY <1>3, <2>1, <2>2, QuietStays
<1> QED BY <1>11, <1>18, <1>19, <1>20, <1>21, <1>22, <1>24, <1>25, <1>26 DEF JournalInv

(* The holder of the lock may be retiring, nobody else.                      *)
LEMMA OneRetires ==
  ASSUME JournalInv, NEW t \in Tabs, NEW u \in Tabs, tab[u].pc = "retire", lock = t
  PROVE  u = t
BY TabFacts DEF Locking

LEMMA OwnerRead ==
  ASSUME JournalInv, NEW t \in Tabs, ReadOwner(t)
  PROVE  JournalInv'
<1> DEFINE held == tab[t].rounds \cup {d.round : d \in download}
           lost == {n \in held : n # server.round \/ ~Owned}
           r == [pc |-> "retire", mode |-> tab[t].mode, batch |-> tab[t].batch,
                 answers |-> tab[t].answers, attempted |-> tab[t].attempted, seen |-> lost,
                 rounds |-> tab[t].rounds]
<1>0. tab[t] \in TabRecord /\ tab[t].pc = "owner" /\ lock = t
  BY TabFacts DEF ReadOwner, Locking
<1>1. tab' = [tab EXCEPT ![t] = [tab[t] EXCEPT !.pc = "retire", !.seen = lost]]
  BY DEF ReadOwner
<1>2. UNCHANGED <<actions, acks, pending, download, lock, selection, wire>> /\ UNCHANGED serverVars
  BY DEF ReadOwner, LocalOnly, StoreUnchanged, store, network
<1>3. lost \subseteq Nat /\ \A n \in lost : n <= server.round
  <2>1. \A d \in download : d.round \in Nat /\ d.round <= server.round
    BY DEF JournalInv, JournalTypes, Copy, InThePast, Copies
  <2>2. \A n \in tab[t].rounds : n \in Nat /\ n <= server.round
    BY <1>0, TabFacts DEF TabRecord
  <2> QED BY <2>1, <2>2
<1>4. \A n \in lost : n # server.round \/ ~Owned
  OBVIOUS
<1> HIDE DEF lost
<1>5. [tab[t] EXCEPT !.pc = "retire", !.seen = lost] = r
  <2>1. lost \in SUBSET (Nat \cup Copy) /\ "retire" \in {"idle"} \cup Locking \cup Reading
    BY <1>3 DEF Locking
  <2> QED BY <1>0, <2>1, TabSees
<1>6. r \in TabRecord
  BY <1>0, <1>3 DEF TabRecord, Locking
<1>7. r.pc = "retire" /\ r.mode = tab[t].mode /\ r.batch = tab[t].batch
      /\ r.answers = tab[t].answers /\ r.rounds = tab[t].rounds /\ r.seen = lost
  OBVIOUS
<1>8. tab' = [tab EXCEPT ![t] = r]
  BY <1>1, <1>5
<1> HIDE DEF r
<1>9. r.pc \in Locking /\ r.pc \notin Reading /\ r.pc \notin Leaving
      /\ tab[t].pc \notin Reading
  BY <1>0, <1>7 DEF Locking, Reading, Leaving
<1>10. Locked' /\ tab' \in [Tabs -> TabRecord] /\ tab'[t] = r
       /\ \A u \in Tabs \ {t} : tab'[u] = tab[u]
  BY <1>0, <1>2, <1>6, <1>7, <1>8, <1>9, TabFacts, TabMoves
<1>11. \A u \in Tabs : Held(u)' = Held(u)
  BY <1>0, <1>7, <1>10 DEF Held
<1>12. Copies' = Copies /\ Captured' = Captured
  BY <1>2, <1>11 DEF Copies, Captured
<1>13. server' = server /\ result' = result /\ version' = version /\ history' = history
       /\ Known' = Known
  BY <1>2 DEF serverVars, Known
<1>14. JournalTypes'
  <2>1. \A u \in Tabs : Held(u)' \subseteq Copy
    BY <1>11 DEF JournalInv, JournalTypes
  <2>2. \A u \in Tabs : tab'[u].pc = "retire" => tab'[u].seen \subseteq Nat
    BY <1>3, <1>7, <1>10 DEF JournalInv, JournalTypes
  <2> QED BY <1>2, <1>10, <1>12, <1>13, <2>1, <2>2 DEF JournalInv, JournalTypes
<1>15. Resolved'
  BY <1>2, <1>7, <1>10, <1>12, <1>13 DEF JournalInv, Resolved
<1>16. Receipts'
  BY <1>2, <1>12, <1>13 DEF JournalInv, Receipts
<1>17. InThePast'
  BY <1>2, <1>3, <1>7, <1>10, <1>12, <1>13 DEF JournalInv, InThePast
<1>18. CopiesAreWhole'
  BY <1>2, <1>12, <1>13 DEF JournalInv, CopiesAreWhole
<1>19. \A a, s : Rests(a, s)' <=> Rests(a, s)
  BY <1>2, <1>13 DEF Rests, Settled, Matches, Owned
<1>20. \A e, s : Newer(e, s)' <=> Newer(e, s)
  BY DEF Newer
<1>21. ShownOrKnown'
  BY <1>2, <1>11, <1>12, <1>19, <1>20 DEF JournalInv, ShownOrKnown
<1>22. RetiredIsKnown'
  <2>1. \A u \in Tabs : tab'[u].pc = "retire" => u = t
    BY <1>0, <1>10, OneRetires
  <2>2. \A a, s : Rests(a, s) => s.round \notin lost
    BY <1>4 DEF Rests, Matches
  <2> QED BY <1>7, <1>10, <1>19, <2>1, <2>2 DEF RetiredIsKnown
<1>23. QuietWhenLeaving'
  <2>1. Unreceived' = Unreceived
    BY <1>2, <1>12 DEF Unreceived
  <2>2. \A u \in Tabs : tab'[u].pc \in Leaving => tab[u].pc \in Leaving
    BY <1>7, <1>9, <1>10
  <2> QED BY <1>2, <2>1, <2>2, QuietStays
<1> QED BY <1>10, <1>14, <1>15, <1>16, <1>17, <1>18, <1>21, <1>22, <1>23 DEF JournalInv

(* Retiring drops the copies of a round with the work they show.             *)
LEMMA RoundRetired ==
  ASSUME JournalInv, NEW t \in Tabs, Retire(t)
  PROVE  JournalInv'
<1> DEFINE p == IF download' # {} /\ tab[t].rounds # {} THEN "before" ELSE "synced"
           lost == tab[t].seen
           r == [pc |-> p, mode |-> tab[t].mode, batch |-> tab[t].batch,
                 answers |-> tab[t].answers, attempted |-> tab[t].attempted, seen |-> {},
                 rounds |-> tab[t].rounds]
<1>0. tab[t] \in TabRecord /\ tab[t].pc = "retire" /\ lock = t
  BY TabFacts DEF Retire, Locking
<1>1. tab' = [tab EXCEPT ![t] = [tab[t] EXCEPT !.seen = {}, !.pc = p]]
  BY DEF Retire
<1>2. UNCHANGED <<actions, acks, lock, selection, wire>> /\ UNCHANGED serverVars
      /\ pending' = {a \in pending : actions[a].round \in lost => acks[a] = "none"}
      /\ download' = {d \in download : d.round \notin lost}
  BY DEF Retire, RetireConfirmed, LocalOnly, network
<1>3. p \in {"before", "synced"}
  OBVIOUS
<1> HIDE DEF p
<1>5. [tab[t] EXCEPT !.seen = {}, !.pc = p] = r
  <2>1. {} \in SUBSET (Nat \cup Copy) /\ p \in {"idle"} \cup Locking \cup Reading
    BY <1>3 DEF Locking, Reading
  <2> QED BY <1>0, <2>1, TabForgets
<1>6. r \in TabRecord
  BY <1>0, <1>3 DEF TabRecord, Locking, Reading
<1>7. r.pc = p /\ r.mode = tab[t].mode /\ r.batch = tab[t].batch
      /\ r.answers = tab[t].answers /\ r.rounds = tab[t].rounds
  OBVIOUS
<1>8. tab' = [tab EXCEPT ![t] = r]
  BY <1>1, <1>5
<1> HIDE DEF r
<1>9. r.pc \notin Leaving /\ tab[t].mode # "page"
  BY <1>0, <1>3, <1>7, TabFacts DEF Reading, Leaving
<1>10. Locked' /\ tab' \in [Tabs -> TabRecord] /\ tab'[t] = r
       /\ \A u \in Tabs \ {t} : tab'[u] = tab[u]
  BY <1>0, <1>2, <1>6, <1>7, <1>8, <1>9, TabMoves
<1>11. \A u \in Tabs : Held(u)' \subseteq Held(u)
  BY <1>3, <1>7, <1>10 DEF Held
<1>12. Copies' \subseteq Copies /\ Captured' = Captured /\ pending' \subseteq pending
  BY <1>2, <1>11 DEF Copies, Captured
<1>13. server' = server /\ result' = result /\ version' = version /\ history' = history
       /\ Known' = Known
  BY <1>2 DEF serverVars, Known
<1>14. \A u \in Tabs : tab'[u].pc # "retire"
  BY <1>0, <1>3, <1>7, <1>10, OneRetires
<1>15. JournalTypes'
  <2>1. \A u \in Tabs : Held(u)' \subseteq Copy
    BY <1>11 DEF JournalInv, JournalTypes
  <2> QED BY <1>2, <1>10, <1>12, <1>13, <1>14, <2>1 DEF JournalInv, JournalTypes
<1>16. Resolved'
  BY <1>2, <1>7, <1>10, <1>12, <1>13 DEF JournalInv, Resolved
<1>17. Receipts'
  BY <1>2, <1>12, <1>13 DEF JournalInv, Receipts
<1>18. InThePast'
  BY <1>2, <1>7, <1>10, <1>12, <1>13, <1>14 DEF JournalInv, InThePast
<1>19. CopiesAreWhole'
  BY <1>2, <1>12, <1>13 DEF JournalInv, CopiesAreWhole
<1>20. \A a, s : Rests(a, s)' <=> Rests(a, s)
  BY <1>2, <1>13 DEF Rests, Settled, Matches, Owned
<1>21. \A e, s : Newer(e, s)' <=> Newer(e, s)
  BY DEF Newer
<1>22. ShownOrKnown'
  <2>1. ASSUME NEW a \in Captured, NEW s \in download', Rests(a, s)
        PROVE  a \in pending' \cup s.known
    <3>1. s \in download /\ s.round \notin lost /\ actions[a].round = s.round
      BY <1>2, <2>1 DEF Rests
    <3>2. a \in pending \cup s.known
      BY <2>1, <3>1 DEF JournalInv, ShownOrKnown
    <3> QED BY <1>2, <3>1, <3>2
  <2>2. ASSUME NEW a \in Captured, NEW u \in Tabs, NEW s \in Held(u)', Rests(a, s)
        PROVE  \/ a \in pending' \cup s.known
               \/ \E e \in download' : e.round = s.round /\ Newer(e, s)
    <3>1. s \in Held(u) /\ s \in Copies /\ actions[a].round = s.round
      BY <1>11, <2>2 DEF Rests, Copies
    <3>2. CASE s.round \in lost
      BY <1>0, <2>2, <3>1, <3>2 DEF JournalInv, RetiredIsKnown
    <3>3. CASE s.round \notin lost
      <4>1. \/ a \in pending \cup s.known
            \/ \E e \in download : e.round = s.round /\ Newer(e, s)
        BY <2>2, <3>1 DEF JournalInv, ShownOrKnown
      <4> QED BY <1>2, <3>1, <3>3, <4>1
    <3> QED BY <3>2, <3>3
  <2> QED BY <1>12, <1>20, <1>21, <2>1, <2>2 DEF ShownOrKnown
<1>23. RetiredIsKnown'
  BY <1>14 DEF RetiredIsKnown
<1>24. QuietWhenLeaving'
  <2>1. Unreceived' \subseteq Unreceived
    BY <1>2, <1>12 DEF Unreceived
  <2>2. \A u \in Tabs : tab'[u].pc \in Leaving => tab[u].pc \in Leaving
    BY <1>9, <1>10
  <2> QED BY <1>2, <2>1, <2>2, QuietStays
<1> QED BY <1>10, <1>15, <1>16, <1>17, <1>18, <1>19, <1>22, <1>23, <1>24 DEF JournalInv

LEMMA SnapshotTyped ==
  ASSUME JournalInv
  PROVE  /\ Snapshot \in Copy /\ Snapshot.round = server.round
         /\ Snapshot.generation = server.generation /\ Snapshot.revision = server.revision
         /\ Snapshot.known = Known /\ server \in ServerRecord
<1>1. server \in ServerRecord /\ history \in Seq(Nat)
  BY DEF JournalInv, JournalTypes
<1>2. Known \subseteq Nat
  BY <1>1 DEF Known
<1> QED BY <1>1, <1>2 DEF Snapshot, Copy, ServerRecord

LEMMA FirstSnapshot ==
  ASSUME JournalInv, NEW t \in Tabs, Owned, ReadBefore(t)
  PROVE  JournalInv'
<1> DEFINE r == [pc |-> "after", mode |-> tab[t].mode, batch |-> tab[t].batch,
                 answers |-> tab[t].answers, attempted |-> tab[t].attempted,
                 seen |-> {Snapshot}, rounds |-> tab[t].rounds]
<1>0. tab[t] \in TabRecord /\ tab[t].pc = "before" /\ (tab[t].mode # "page" => lock = t)
  BY TabFacts DEF ReadBefore, Reading
<1>1. tab' = [tab EXCEPT ![t] = [tab[t] EXCEPT !.pc = "after", !.seen = {Snapshot}]]
  BY DEF ReadBefore
<1>2. UNCHANGED <<actions, acks, pending, download, lock, selection, wire>> /\ UNCHANGED serverVars
  BY DEF ReadBefore, LocalOnly, network
<1>5. [tab[t] EXCEPT !.pc = "after", !.seen = {Snapshot}] = r
  <2>1. {Snapshot} \in SUBSET (Nat \cup Copy) /\ "after" \in {"idle"} \cup Locking \cup Reading
    BY SnapshotTyped DEF Reading
  <2> QED BY <1>0, <2>1, TabSees
<1>6. r \in TabRecord
  BY <1>0, SnapshotTyped DEF TabRecord, Reading
<1>7. r.pc = "after" /\ r.mode = tab[t].mode /\ r.batch = tab[t].batch
      /\ r.answers = tab[t].answers /\ r.rounds = tab[t].rounds /\ r.seen = {Snapshot}
  OBVIOUS
<1>8. tab' = [tab EXCEPT ![t] = r]
  BY <1>1, <1>5
<1> HIDE DEF r
<1>9. r.pc \notin Leaving /\ r.pc \in Reading /\ r.pc \notin Locking
  BY <1>7 DEF Reading, Leaving, Locking
<1>10. Locked' /\ tab' \in [Tabs -> TabRecord] /\ tab'[t] = r
       /\ \A u \in Tabs \ {t} : tab'[u] = tab[u]
  BY <1>0, <1>2, <1>6, <1>7, <1>8, <1>9, TabMoves
<1>11. Held(t)' = {Snapshot} /\ \A u \in Tabs \ {t} : Held(u)' = Held(u)
  BY <1>7, <1>10 DEF Held
<1>12. Copies' \subseteq Copies \cup {Snapshot} /\ Captured' = Captured
  BY <1>2, <1>11 DEF Copies, Captured
<1>13. server' = server /\ result' = result /\ version' = version /\ history' = history
       /\ Known' = Known
  BY <1>2 DEF serverVars, Known
<1>14. \A u \in Tabs : tab'[u].pc = "retire" => tab[u].pc = "retire" /\ tab'[u] = tab[u]
  BY <1>7, <1>10
<1>15. JournalTypes'
  <2>1. \A u \in Tabs : Held(u)' \subseteq Copy
    BY <1>11, SnapshotTyped DEF JournalInv, JournalTypes
  <2>2. \A u \in Tabs : tab'[u].pc = "retire" => tab'[u].seen \subseteq Nat
    BY <1>14 DEF JournalInv, JournalTypes
  <2> QED BY <1>2, <1>10, <1>12, <1>13, <2>1, <2>2 DEF JournalInv, JournalTypes
<1>16. Resolved'
  BY <1>2, <1>7, <1>10, <1>12, <1>13 DEF JournalInv, Resolved
<1>17. Receipts'
  BY <1>2, <1>12, <1>13 DEF JournalInv, Receipts
<1>18. InThePast'
  <2>1. server.owner = "this"
    BY DEF Owned
  <2>2. ASSUME NEW s \in Copies'
        PROVE  /\ s.round <= server.round /\ s.generation <= server.generation
               /\ s.round = server.round => s.revision <= server.revision
    BY <1>12, SnapshotTyped DEF JournalInv, InThePast, ServerRecord
  <2>3. ASSUME NEW s \in Copies', NEW e \in Copies', s.round = e.round,
               s.revision < e.revision
        PROVE  s.generation <= e.generation
    <3>1. CASE s \in Copies /\ e \in Copies
      BY <2>3, <3>1 DEF JournalInv, InThePast
    <3>2. CASE e = Snapshot
      BY <2>2, <3>2, SnapshotTyped
    <3>3. CASE s = Snapshot /\ e \in Copies
      <4>1. e.revision <= server.revision /\ e \in Copy
        BY <2>2, <2>3, <3>3, SnapshotTyped, CopiesTyped
      <4> QED BY <2>3, <3>3, <4>1, SnapshotTyped DEF Copy, ServerRecord
    <3> QED BY <1>12, <3>1, <3>2, <3>3
  <2> QED BY <1>2, <1>7, <1>10, <1>12, <1>13, <1>14, <2>1, <2>2, <2>3
          DEF JournalInv, InThePast
<1>19. \A a \in Captured : result[a] = "accepted" => a \in Snapshot.known
  BY SnapshotTyped, CapturedAreSlots DEF JournalInv, Receipts
<1>20. CopiesAreWhole'
  BY <1>2, <1>12, <1>13, <1>19 DEF JournalInv, CopiesAreWhole
<1>21. \A a, s : Rests(a, s)' <=> Rests(a, s)
  BY <1>2, <1>13 DEF Rests, Settled, Matches, Owned
<1>22. \A a \in Captured : \A s : Rests(a, s) => a \in Snapshot.known
  BY <1>19, CapturedAreSlots DEF Rests, Settled, JournalInv, Receipts
<1>23. \A e, s : Newer(e, s)' <=> Newer(e, s)
  BY DEF Newer
<1>24. ShownOrKnown'
  BY <1>2, <1>11, <1>12, <1>21, <1>22, <1>23 DEF JournalInv, ShownOrKnown
<1>25. RetiredIsKnown'
  BY <1>12, <1>14, <1>21, <1>22 DEF JournalInv, RetiredIsKnown
<1>26. QuietWhenLeaving'
  <2>1. Unreceived' = Unreceived
    BY <1>2, <1>12 DEF Unreceived
  <2>2. \A u \in Tabs : tab'[u].pc \in Leaving => tab[u].pc \in Leaving
    BY <1>9, <1>10
  <2> QED BY <1>2, <2>1, <2>2, QuietStays
<1> QED BY <1>10, <1>15, <1>16, <1>17, <1>18, <1>20, <1>24, <1>25, <1>26 DEF JournalInv

(* A step of a tab that shows or drops confirmed work: what is left to show  *)
(* is the caller's to prove.                                                 *)
LEMMA StoreStep ==
  ASSUME JournalInv, UNCHANGED serverVars, UNCHANGED <<actions, acks, selection, wire>>,
         NEW t \in Tabs, NEW r \in TabRecord, tab' = [tab EXCEPT ![t] = r],
         lock' = lock \/ lock' = (IF lock = t THEN NoTab ELSE lock),
         r.pc \in {"idle", "synced"}, r.pc = "synced" => lock' = t, r.mode # "page",
         r.batch \subseteq Captured,
         \A a \in r.answers : a \in Captured /\ result[a] # "none",
         \A n \in r.rounds : n <= server.round,
         pending' \subseteq pending,
         \A a \in pending : acks[a] = "none" => a \in pending',
         Copies' \subseteq Copies, ShownOrKnown'
  PROVE  JournalInv'
<1>1. r.pc \notin Reading /\ r.pc \notin Leaving
      /\ (r.pc \in Locking => r.pc = "synced")
  BY DEF Reading, Leaving, Locking
<1>2. Locked' /\ tab' \in [Tabs -> TabRecord] /\ tab'[t] = r
      /\ \A u \in Tabs \ {t} : tab'[u] = tab[u]
  BY <1>1, TabMoves
<1>3. server' = server /\ result' = result /\ version' = version /\ history' = history
      /\ Known' = Known /\ Captured' = Captured
  BY DEF serverVars, Known, Captured
<1>4. \A u \in Tabs : tab'[u].pc = "retire" => tab[u].pc = "retire" /\ tab'[u] = tab[u]
  BY <1>2
<1>5. JournalTypes'
  <2>1. \A u \in Tabs : Held(u)' \subseteq Copy
    BY <1>2 DEF Held, JournalInv, JournalTypes
  <2>2. \A u \in Tabs : tab'[u].pc = "retire" => tab'[u].seen \subseteq Nat
    BY <1>4 DEF JournalInv, JournalTypes
  <2>3. download' \subseteq Copy
    BY CopiesTyped DEF Copies
  <2> QED BY <1>2, <1>3, <2>1, <2>2, <2>3 DEF JournalInv, JournalTypes
<1>6. Resolved'
  BY <1>2, <1>3 DEF JournalInv, Resolved
<1>7. Receipts'
  BY <1>3 DEF JournalInv, Receipts
<1>8. InThePast'
  BY <1>2, <1>3, <1>4 DEF JournalInv, InThePast
<1>9. CopiesAreWhole'
  BY <1>3 DEF JournalInv, CopiesAreWhole
<1>10. RetiredIsKnown'
  <2>1. \A a, s : Rests(a, s)' <=> Rests(a, s)
    BY <1>3 DEF Rests, Settled, Matches, Owned
  <2> QED BY <1>3, <1>4, <2>1 DEF JournalInv, RetiredIsKnown
<1>11. QuietWhenLeaving'
  <2>1. Unreceived' \subseteq Unreceived
    BY <1>3 DEF Unreceived
  <2>2. \A u \in Tabs : tab'[u].pc \in Leaving => tab[u].pc \in Leaving
    BY <1>1, <1>2
  <2> QED BY <2>1, <2>2, QuietStays
<1> QED BY <1>2, <1>5, <1>6, <1>7, <1>8, <1>9, <1>10, <1>11 DEF JournalInv

LEMMA IdleFacts ==
  /\ Idle \in TabRecord /\ Idle.pc = "idle" /\ Idle.mode = "none" /\ Idle.batch = {}
  /\ Idle.answers = {} /\ Idle.rounds = {}
BY DEF Idle, Begun, TabRecord

LEMMA OwnerLost ==
  ASSUME JournalInv, NEW t \in Tabs, ~Owned, ReadBefore(t)
  PROVE  JournalInv'
<1>1. UNCHANGED <<actions, acks, pending, selection, wire>> /\ UNCHANGED serverVars
      /\ download' = {} /\ tab' = [tab EXCEPT ![t] = Idle]
      /\ lock' = (IF lock = t THEN NoTab ELSE lock)
  BY DEF ReadBefore, LocalOnly, network, Release, Rest
<1>2. \A u \in Tabs : Held(u)' \subseteq Held(u)
  BY <1>1, IdleFacts DEF Held, JournalInv, JournalTypes
<1>3. Copies' \subseteq Copies
  BY <1>1, <1>2 DEF Copies
<1>4. ShownOrKnown'
  <2>1. \A a, s : ~Rests(a, s)'
    BY <1>1 DEF Rests, Matches, Owned, serverVars
  <2> QED BY <2>1 DEF ShownOrKnown
<1> QED BY <1>1, <1>3, <1>4, IdleFacts, StoreStep

(* What a saved copy covers is in it; a copy that still waits to be saved is *)
(* overtaken by it.                                                          *)
LEMMA SavedShows ==
  ASSUME JournalInv, UNCHANGED serverVars, UNCHANGED <<actions, acks>>,
         NEW t \in Tabs, NEW d \in Held(t),
         \A e \in download : e.round = d.round => ~Newer(e, d),
         download' = {e \in download : e.round # d.round} \cup {d},
         pending' = pending \ Covered(d),
         \A u \in Tabs : Held(u)' \subseteq Held(u)
  PROVE  ShownOrKnown'
<1>0. Captured' = Captured /\ Captured \subseteq Slots /\ Copies \subseteq Copy /\ d \in Copies
      /\ server \in ServerRecord
  BY CapturedAreSlots, CopiesTyped DEF Captured, Copies
<1>1. \A a, s : Rests(a, s)' <=> Rests(a, s)
  BY DEF serverVars, Rests, Settled, Matches, Owned
<1>2. \A e, s : Newer(e, s)' <=> Newer(e, s)
  BY DEF Newer
<1>3. ASSUME NEW a \in Captured, NEW s \in Copies, Rests(a, s), a \in Covered(d)
      PROVE  /\ s.round = d.round /\ a \in d.known
             /\ a \in s.known \/ d = s \/ Newer(d, s)
  <2>1. /\ actions[a].kind = "offline" /\ acks[a] = "accepted" /\ actions[a].round = s.round
        /\ actions[a].round = d.round /\ version[a] <= d.revision
        /\ s.generation = server.generation
    BY <1>3 DEF Rests, Settled, Matches, Covered, Effects
  <2>2. result[a] = "accepted" /\ version[a] \in Nat
    BY <1>0, <2>1 DEF JournalInv, JournalTypes, Receipts
  <2>3. a \in d.known /\ (version[a] <= s.revision => a \in s.known)
    BY <1>0, <2>1, <2>2 DEF JournalInv, CopiesAreWhole
  <2>4. d.revision \in Nat /\ s.revision \in Nat /\ d.generation \in Nat /\ s.generation \in Nat
    BY <1>0 DEF Copy
  <2>5. ASSUME s.revision < version[a] PROVE Newer(d, s)
    <3>1. s.revision < d.revision
      BY <2>1, <2>2, <2>4, <2>5
    <3>2. s.generation <= d.generation
      BY <1>0, <2>1, <3>1 DEF JournalInv, InThePast
    <3> QED BY <2>4, <3>1, <3>2 DEF Newer
  <2> QED BY <2>1, <2>2, <2>3, <2>4, <2>5
<1>4. ASSUME NEW a \in Captured, NEW s \in download', Rests(a, s)
      PROVE  a \in pending' \cup s.known
  <2>1. s \in Copies
    BY <1>0 DEF Copies
  <2>2. CASE a \in Covered(d)
    <3>1. s.round = d.round /\ a \in d.known
      BY <1>3, <1>4, <2>1, <2>2
    <3> QED BY <3>1
  <2>3. CASE a \notin Covered(d)
    <3>1. CASE s \in download
      BY <1>4, <2>3, <3>1 DEF JournalInv, ShownOrKnown
    <3>2. CASE s = d
      BY <1>4, <2>3, <3>2 DEF JournalInv, ShownOrKnown
    <3> QED BY <3>1, <3>2
  <2> QED BY <2>2, <2>3
<1>5. ASSUME NEW a \in Captured, NEW u \in Tabs, NEW s \in Held(u)', Rests(a, s)
      PROVE  \/ a \in pending' \cup s.known
             \/ \E e \in download' : e.round = s.round /\ Newer(e, s)
  <2>1. s \in Held(u) /\ s \in Copies
    BY DEF Copies
  <2>2. CASE a \in Covered(d)
    <3>1. s.round = d.round /\ (a \in s.known \/ d = s \/ Newer(d, s)) /\ a \in d.known
      BY <1>3, <1>5, <2>1, <2>2
    <3> QED BY <3>1
  <2>3. CASE a \notin Covered(d)
    <3>1. CASE a \in pending \cup s.known
      BY <2>3, <3>1
    <3>2. ASSUME NEW e \in download, e.round = s.round, Newer(e, s)
          PROVE  \E f \in download' : f.round = s.round /\ Newer(f, s)
      <4>1. CASE e.round # d.round
        BY <3>2, <4>1
      <4>2. CASE e.round = d.round
        <5>1. ~Newer(e, d) /\ e \in Copy /\ s \in Copy /\ d \in Copy
          BY <1>0, <2>1, <4>2 DEF Copies
        <5>2. Newer(d, s)
          BY <3>2, <5>1 DEF Newer, Copy
        <5> QED BY <3>2, <4>2, <5>2
      <4> QED BY <4>1, <4>2
    <3> QED BY <1>5, <2>1, <3>1, <3>2 DEF JournalInv, ShownOrKnown
  <2> QED BY <2>2, <2>3
<1> QED BY <1>0, <1>1, <1>2, <1>4, <1>5 DEF ShownOrKnown

LEMMA DownloadSaved ==
  ASSUME JournalInv, NEW t \in Tabs, SaveDownload(t)
  PROVE  JournalInv'
<1>0. tab[t] \in TabRecord /\ tab[t].pc = "save" /\ (tab[t].mode # "page" => lock = t)
  BY TabFacts DEF SaveDownload, Reading
<1>1. UNCHANGED <<actions, acks, selection, wire>> /\ UNCHANGED serverVars
  BY DEF SaveDownload, LocalOnly, network
<1>2. PICK d \in tab[t].seen :
        IF Usable /\ \A e \in download : e.round = d.round => ~Newer(e, d)
        THEN /\ download' = {e \in download : e.round # d.round} \cup {d}
             /\ pending' = pending \ Covered(d)
             /\ IF tab[t].mode = "page" THEN Release(t)
                ELSE Goto(t, "synced") /\ UNCHANGED lock
        ELSE Release(t) /\ UNCHANGED <<download, pending>>
  BY DEF SaveDownload
<1>3. d \in Held(t)
  BY <1>0, <1>2 DEF Held
<1>4. CASE Release(t) /\ UNCHANGED <<download, pending>>
  <2>1. Advances
    BY <1>1, Standstill
  <2> QED BY <1>1, <1>4, <2>1, TabFacts, Releases
<1>5. CASE /\ \A e \in download : e.round = d.round => ~Newer(e, d)
           /\ download' = {e \in download : e.round # d.round} \cup {d}
           /\ pending' = pending \ Covered(d)
           /\ IF tab[t].mode = "page" THEN Release(t) ELSE Goto(t, "synced") /\ UNCHANGED lock
  <2> DEFINE r == IF tab[t].mode = "page" THEN Idle
                  ELSE [pc |-> "synced", mode |-> tab[t].mode, batch |-> tab[t].batch,
                        answers |-> tab[t].answers, attempted |-> tab[t].attempted,
                        seen |-> tab[t].seen, rounds |-> tab[t].rounds]
  <2>1. tab' = [tab EXCEPT ![t] = r]
        /\ (lock' = lock \/ lock' = (IF lock = t THEN NoTab ELSE lock))
        /\ (tab[t].mode # "page" => lock' = lock)
    <3>1. CASE tab[t].mode = "page"
      BY <1>5, <3>1 DEF Release, Rest
    <3>2. CASE tab[t].mode # "page"
      <4>1. tab' = [tab EXCEPT ![t] = [tab[t] EXCEPT !.pc = "synced"]] /\ lock' = lock
        BY <1>5, <3>2 DEF Goto
      <4>2. "synced" \in {"idle"} \cup Locking \cup Reading
        BY DEF Locking
      <4>3. [tab[t] EXCEPT !.pc = "synced"] = r
        BY <1>0, <3>2, <4>2, TabField
      <4> QED BY <3>2, <4>1, <4>3
    <3> QED BY <3>1, <3>2
  <2>2. r \in TabRecord
    BY <1>0, IdleFacts DEF TabRecord, Locking
  <2>3. /\ r.pc \in {"idle", "synced"} /\ r.mode # "page"
        /\ r.pc = "synced" => lock' = t
        /\ r.batch \subseteq Captured
        /\ \A a \in r.answers : a \in Captured /\ result[a] # "none"
        /\ \A n \in r.rounds : n <= server.round
    BY <1>0, <2>1, IdleFacts, TabFacts
  <2> HIDE DEF r
  <2>4. \A u \in Tabs : Held(u)' \subseteq Held(u)
    BY <2>1, <2>3 DEF Held, JournalInv, JournalTypes
  <2>5. Copies' \subseteq Copies
    BY <1>3, <1>5, <2>4 DEF Copies
  <2>6. ShownOrKnown'
    BY <1>1, <1>3, <1>5, <2>4, SavedShows
  <2>7. pending' \subseteq pending /\ \A a \in pending : acks[a] = "none" => a \in pending'
    BY <1>5 DEF Covered
  <2> QED BY <1>1, <2>1, <2>2, <2>3, <2>5, <2>6, <2>7, StoreStep
<1> QED BY <1>2, <1>4, <1>5

-----------------------------------------------------------------------------
(* Capturing.                                                                *)
LEMMA CaptureKeeps ==
  ASSUME JournalInv, NEW a, NEW new \in ActionRecord, Record(a, new), lock = NoTab,
         selection = "this", new.round <= server.round
  PROVE  JournalInv'
<1>1. /\ a = Len(actions) + 1 /\ Len(actions) < MaxActions
      /\ actions' = Append(actions, new) /\ pending' = pending \cup {a}
      /\ UNCHANGED serverVars
      /\ UNCHANGED <<acks, download, selection, blocked, lock, tab, wire>>
  BY DEF Record, network
<1>2. actions \in Seq(ActionRecord) /\ Len(actions) \in Nat
      /\ Captured = 1..Len(actions) /\ Captured \subseteq Slots
  BY CapturedAreSlots DEF JournalInv, JournalTypes
<1>3. actions' \in Seq(ActionRecord) /\ Len(actions') = Len(actions) + 1
  BY <1>1, <1>2
<1>4. Captured' = Captured \cup {a} /\ a \notin Captured /\ a \in Slots
      /\ Captured' \subseteq Slots
  <2>1. Captured' = 1..(Len(actions) + 1)
    BY <1>3 DEF Captured
  <2> QED BY <1>1, <1>2, <2>1, JournalAssumption DEF Slots, JournalAssumption
<1>5. actions'[a] = new /\ \A b \in Captured : actions'[b] = actions[b]
  BY <1>1, <1>2
<1>6. server' = server /\ result' = result /\ version' = version /\ history' = history
      /\ Known' = Known
  BY <1>1 DEF serverVars, Known
<1>7. result[a] = "none" /\ acks[a] = "none"
  BY <1>4 DEF JournalInv, Receipts
<1>8. \A u \in Tabs : Held(u)' = Held(u)
  BY <1>1 DEF Held
<1>9. Copies' = Copies
  BY <1>1, <1>8 DEF Copies
<1>10. JournalTypes'
  <2>1. Len(actions') <= MaxActions /\ pending' \subseteq Captured'
    BY <1>1, <1>2, <1>3, <1>4, JournalAssumption DEF JournalInv, JournalTypes, JournalAssumption
  <2> QED BY <1>1, <1>3, <1>6, <1>8, <2>1 DEF JournalInv, JournalTypes
<1>11. Locked'
  BY <1>1 DEF JournalInv, Locked
<1>12. Resolved'
  BY <1>1, <1>4, <1>6 DEF JournalInv, Resolved
<1>13. Receipts'
  BY <1>1, <1>4, <1>6 DEF JournalInv, Receipts
<1>14. InThePast'
  <2>1. \A c \in Captured' : actions'[c].round <= server'.round
    BY <1>4, <1>5, <1>6 DEF JournalInv, InThePast
  <2>2. InThePast
    BY DEF JournalInv
  <2> HIDE DEF JournalInv
  <2> QED BY <1>1, <1>6, <1>9, <2>1, <2>2 DEF InThePast
<1>15. CopiesAreWhole'
  BY <1>4, <1>5, <1>6, <1>7, <1>9 DEF JournalInv, CopiesAreWhole
<1>16. ASSUME NEW b \in Captured', NEW s, Rests(b, s)'
       PROVE  b \in Captured /\ Rests(b, s)
  BY <1>1, <1>4, <1>5, <1>6, <1>7, <1>16 DEF Rests, Settled, Matches, Owned
<1>17. \A e, s : Newer(e, s)' <=> Newer(e, s)
  BY DEF Newer
<1>18. ShownOrKnown'
  BY <1>1, <1>8, <1>16, <1>17 DEF JournalInv, ShownOrKnown
<1>19. RetiredIsKnown'
  BY <1>1, <1>9, <1>16 DEF JournalInv, RetiredIsKnown
<1>20. QuietWhenLeaving'
  <2>1. \A u \in Tabs : tab'[u].pc \notin {"starting", "leaving", "updating"}
    BY <1>1, JournalAssumption DEF JournalInv, Locked, Locking, JournalAssumption
  <2> QED BY <1>1, <2>1 DEF QuietWhenLeaving
<1> QED BY <1>10, <1>11, <1>12, <1>13, <1>14, <1>15, <1>18, <1>19, <1>20 DEF JournalInv

LEMMA PendingFinite ==
  ASSUME JournalInv, NEW S \in SUBSET pending
  PROVE  Cardinality(S) \in Nat /\ S \subseteq Nat
<1>1. S \subseteq 1..MaxActions
  BY CapturedAreSlots DEF JournalInv, JournalTypes, Slots
<1>2. IsFiniteSet(1..MaxActions)
  BY FS_Interval, JournalAssumption DEF JournalAssumption
<1>3. IsFiniteSet(S)
  BY <1>1, <1>2, FS_Subset
<1>4. Cardinality(S) \in Nat
  BY <1>3, FS_CardinalityType
<1> QED BY <1>1, <1>4

LEMMA Captures ==
  ASSUME JournalInv, NEW t \in Tabs, CaptureOffline(t) \/ CaptureConnected(t)
  PROVE  JournalInv'
<1>0. server \in ServerRecord /\ Known \subseteq Nat
  BY SnapshotTyped DEF Copy
<1>1. CASE CaptureOffline(t)
  <2>1. PICK d \in download, a \in Slots :
          /\ lock = NoTab /\ Usable
          /\ Record(a, [kind |-> "offline", round |-> d.round, generation |-> d.generation,
                        base |-> d.revision + Cardinality(Projected(d)),
                        deps |-> {e \in pending : \A f \in pending : f <= e},
                        shown |-> d.known \cup Projected(d)])
    BY <1>1 DEF CaptureOffline, Slots
  <2>2. d \in Copy /\ d.round <= server.round
    BY DEF JournalInv, JournalTypes, InThePast, Copies
  <2>3. Projected(d) \in SUBSET pending
    BY DEF Projected, Effects
  <2>4. Cardinality(Projected(d)) \in Nat /\ Projected(d) \subseteq Nat /\ pending \subseteq Nat
    BY <2>3, PendingFinite
  <2> DEFINE new == [kind |-> "offline", round |-> d.round, generation |-> d.generation,
                     base |-> d.revision + Cardinality(Projected(d)),
                     deps |-> {e \in pending : \A f \in pending : f <= e},
                     shown |-> d.known \cup Projected(d)]
  <2>5. new \in ActionRecord /\ new.round = d.round
    <3>1. d.revision + Cardinality(Projected(d)) \in Nat
      BY <2>2, <2>4 DEF Copy
    <3>2. {e \in pending : \A f \in pending : f <= e} \in SUBSET Nat
          /\ d.known \cup Projected(d) \in SUBSET Nat
      BY <2>2, <2>4 DEF Copy
    <3> QED BY <2>2, <3>1, <3>2 DEF Copy, ActionRecord
  <2>6. Record(a, new)
    BY <2>1
  <2> HIDE DEF new
  <2> QED BY <2>1, <2>2, <2>5, <2>6, CaptureKeeps DEF Usable
<1>2. CASE CaptureConnected(t)
  <2>1. PICK a \in Slots, kind \in {"connected", "takeover"} :
          /\ lock = NoTab /\ Usable
          /\ Record(a, [kind |-> kind, round |-> server.round, generation |-> server.generation,
                        base |-> server.revision, deps |-> {}, shown |-> Known])
    BY <1>2 DEF CaptureConnected, Slots
  <2> DEFINE new == [kind |-> kind, round |-> server.round, generation |-> server.generation,
                     base |-> server.revision, deps |-> {}, shown |-> Known]
  <2>2. new \in ActionRecord /\ new.round = server.round
    BY <1>0 DEF ActionRecord, ServerRecord
  <2>3. Record(a, new) /\ new.round <= server.round
    BY <1>0, <2>1, <2>2 DEF ServerRecord
  <2> HIDE DEF new
  <2> QED BY <2>1, <2>2, <2>3, CaptureKeeps DEF Usable
<1> QED BY <1>1, <1>2

-----------------------------------------------------------------------------
(* The invariant.                                                            *)
LEMMA JournalStarts == JournalInit => JournalInv
<1> SUFFICES ASSUME JournalInit PROVE JournalInv
  OBVIOUS
<1>1. server = [round |-> 1, owner |-> "this", generation |-> 1, open |-> TRUE, revision |-> 0]
      /\ history = <<>> /\ actions = <<>> /\ pending = {} /\ download = {} /\ selection = "this"
      /\ result = [a \in Slots |-> "none"] /\ acks = [a \in Slots |-> "none"]
      /\ version = [a \in Slots |-> 0] /\ tab = [t \in Tabs |-> Idle] /\ wire = {}
  BY DEF JournalInit, Slots
<1>2. Captured = {} /\ Len(actions) = 0 /\ actions \in Seq(ActionRecord) /\ history \in Seq(Nat)
  BY <1>1 DEF Captured
<1>3. Known = {} /\ {a \in Slots : result[a] = "accepted"} = {}
  <2>1. DOMAIN history = {}
    BY <1>1
  <2> QED BY <1>1, <2>1 DEF Known
<1>4. \A t \in Tabs : tab[t] = Idle /\ Held(t) = {}
  BY <1>1, IdleFacts DEF Held
<1>5. Copies = {}
  BY <1>1, <1>4 DEF Copies
<1>6. server \in ServerRecord
  BY <1>1 DEF ServerRecord
<1>7. tab \in [Tabs -> TabRecord]
  BY <1>1, IdleFacts
<1>8. JournalTypes
  <2>1. Len(actions) <= MaxActions
    BY <1>2, JournalAssumption DEF JournalAssumption
  <2> QED BY <1>1, <1>2, <1>4, <1>6, <1>7, <2>1, IdleFacts DEF JournalTypes, Statuses
<1>9. Locked /\ Resolved
  BY <1>1, <1>4, IdleFacts DEF Locked, Resolved, Locking, Reading
<1>10. Receipts
  BY <1>1, <1>2, <1>3 DEF Receipts
<1>11. InThePast
  BY <1>2, <1>4, <1>5, IdleFacts DEF InThePast
<1>12. CopiesAreWhole /\ ShownOrKnown /\ RetiredIsKnown
  BY <1>2 DEF CopiesAreWhole, ShownOrKnown, RetiredIsKnown
<1>13. QuietWhenLeaving
  BY <1>1, <1>2 DEF QuietWhenLeaving, Unreceived
<1> QED BY <1>8, <1>9, <1>10, <1>11, <1>12, <1>13 DEF JournalInv

LEMMA JournalSteps == JournalInv /\ [JournalNext]_journalVars => JournalInv'
<1> SUFFICES ASSUME JournalInv, [JournalNext]_journalVars PROVE JournalInv'
  OBVIOUS
<1>1. CASE UNCHANGED journalVars
  <2>1. UNCHANGED <<actions, acks, pending, download, lock, tab, wire, selection>>
        /\ UNCHANGED serverVars
    BY <1>1 DEF journalVars, store, network
  <2>2. Advances /\ wire \subseteq Captured /\ selection \in {"this", "exiting", "none", "other"}
    BY <2>1, Standstill DEF JournalInv, Resolved, JournalTypes
  <2> QED BY <2>1, <2>2, ServerStep
<1>2. CASE TakeOver \/ OtherWorks \/ EndRound
  BY <1>2, OthersAct
<1>3. CASE LateStart \/ \E a \in wire : LateRequest(a)
  BY <1>3, LateRequests
<1>4. CASE OtherLeaves \/ BlockLostOwner \/ \E account \in {"this", "other"} : Login(account)
  BY <1>4, SelectionMoves
<1>5. ASSUME NEW t \in Tabs,
             \/ CaptureOffline(t) \/ CaptureConnected(t)
             \/ \E mode \in {"replay", "start"} : BeginReplay(t, mode)
             \/ \E a \in Slots : SendDirectly(t, a)
             \/ FailFirst(t) \/ BeginDownload(t) \/ PrepareExit(t) \/ BeginUpdate(t) \/ Die(t)
      PROVE  JournalInv'
  BY <1>5, Captures, ReplayBegins, DirectSends, FirstFails, DownloadBegins, LeavingBegins, TabEnds
<1>6. ASSUME NEW t \in Tabs,
             \/ Submit(t) \/ HandleFirst(t) \/ SaveReceipt(t) \/ EndBatch(t) \/ EndScan(t)
             \/ Abandon(t) \/ ReadOwner(t) \/ Retire(t)
      PROVE  JournalInv'
  BY <1>6, ReplaySubmits, ServerHandles, ReceiptSaved, BatchEnds, ScanEnds, TabEnds, OwnerRead,
     RoundRetired
<1>7. ASSUME NEW t \in Tabs,
             \/ ReadBefore(t) \/ ReadAfter(t) \/ SaveDownload(t) \/ EndReplay(t)
             \/ StartRound(t) \/ FinishExit(t) \/ EndUpdate(t)
      PROVE  JournalInv'
  BY <1>7, FirstSnapshot, OwnerLost, SecondSnapshot, DownloadSaved, ReplayEnds, RoundStarts,
     TabEnds
<1>8. CASE JournalNext
  <2>1. CASE \E t \in Tabs : Replay(t)
    BY <2>1, <1>6, <1>7 DEF Replay
  <2> QED BY <1>2, <1>3, <1>4, <1>5, <1>8, <2>1 DEF JournalNext, Slots
<1> QED BY <1>1, <1>8

(* The inductive invariant of a phone's journal: the lock, the receipts, and *)
(* what each copy of the round knows (runLocked, acknowledge, downloadWork). *)
THEOREM JournalInvariant == JournalSpec => []JournalInv
BY JournalStarts, JournalSteps, PTL DEF JournalSpec

(* Work the driver saw saved is never lost from view, however many tabs,     *)
(* actions, rounds and faults there are (acknowledge, saveDownload,          *)
(* retireConfirmedRound).                                                    *)
THEOREM SavedWorkStays == JournalSpec => []NothingVanishes
<1>1. JournalInv => NothingVanishes
  <2> SUFFICES ASSUME JournalInv, NEW a \in Captured
               PROVE  /\ acks[a] = "none" => a \in pending
                      /\ acks[a] # "none" => acks[a] = result[a]
                      /\ actions[a].kind = "offline" /\ acks[a] = "accepted" =>
                           \A d \in download :
                             /\ Owned /\ d.round = server.round
                             /\ d.generation = server.generation
                             /\ actions[a].round = d.round
                             => a \in pending \cup d.known
    BY DEF NothingVanishes
  <2>1. acks[a] = "none" => a \in pending
    BY DEF JournalInv, Receipts
  <2>2. acks[a] # "none" => acks[a] = result[a]
    BY CapturedAreSlots DEF JournalInv, Receipts
  <2>3. \A d \in download : Rests(a, d) => a \in pending \cup d.known
    BY DEF JournalInv, ShownOrKnown
  <2> QED BY <2>1, <2>2, <2>3 DEF Rests, Settled, Matches
<1> QED BY <1>1, JournalInvariant, PTL

(* No work without a receipt is left behind by a start, a logout or an       *)
(* update (beforeStart, prepareExit, assertUpdateSafe).                      *)
THEOREM LeavesQuietly == JournalSpec => []QuietWhenLeaving
<1>1. JournalInv => QuietWhenLeaving
  BY DEF JournalInv
<1> QED BY <1>1, JournalInvariant, PTL

-----------------------------------------------------------------------------
(* What the driver saw (AcceptedAsShown).                                    *)

(* The accepted work of a round that moved its revision.                     *)
Work(r) == {e \in Known : actions[e].kind # "takeover" /\ actions[e].round = r}

(* A view of a round, taken at revision n, with what it knew: while the      *)
(* generation stands, whatever it does not know came later and moved the     *)
(* revision past n.                                                          *)
Kept(r, g, n, known) ==
  /\ known \subseteq Known
  /\ server.round = r /\ server.generation = g =>
       /\ n <= server.revision
       /\ \A e \in Known \ known : e \in Work(r) /\ version[e] > n

(* Each accepted work of the open round has a revision of its own, the one   *)
(* after the revision it was composed on.                                    *)
Numbered ==
  /\ \A e \in Work(server.round) : version[e] \in 1..server.revision
  /\ \A e, f \in Work(server.round) : version[e] = version[f] => e = f
  /\ \A e \in Known : actions[e].kind = "offline" => version[e] = actions[e].base + 1

(* was[a]: what was pending when a was captured.  An action rests on the last *)
(* of it, and what was pending twice was pending for the later of the two.   *)
Follows(was) ==
  /\ \A a \in Captured : \A e \in was[a] : e < a
  /\ \A a \in Captured : actions[a].deps = {e \in was[a] : \A f \in was[a] : f <= e}
  /\ \A a \in Captured : was[a] # {} => actions[a].deps # {}
  /\ \A a \in Captured : \A e, f \in was[a] : e < f => e \in was[f]
  /\ \A e, f \in pending : e < f => e \in was[f]
  /\ \A a \in Captured : a \in Known => was[a] \subseteq Known

(* An offline action was composed on a copy of its round and on pending work *)
(* of the round that continues this copy.                                    *)
Composed(a, before) ==
  \E n \in Nat, known \in SUBSET Nat, shown \in SUBSET before :
    /\ actions[a].shown = known \cup shown
    /\ actions[a].base = n + Cardinality(shown)
    /\ \A b \in shown : /\ actions[b].kind = "offline" /\ actions[b].base >= n
                        /\ actions[b].round = actions[a].round
    /\ Kept(actions[a].round, actions[a].generation, n, known)

CopiesKept == \A s \in Copies : Kept(s.round, s.generation, s.revision, s.known)

Witnessed(was) ==
  /\ was \in [Captured -> SUBSET Captured] /\ Follows(was)
  /\ \A a \in Captured : actions[a].kind = "offline" => Composed(a, was[a])

SeenInv ==
  /\ \A a \in Captured : actions[a].generation <= server.generation
  /\ Numbered /\ CopiesKept /\ AcceptedAsShown
  /\ \E was : Witnessed(was)

-----------------------------------------------------------------------------
(* How the server moves: it decides nothing new, or accepts one action.      *)
Undecided ==
  /\ UNCHANGED <<history, version>>
  /\ server' \in ServerRecord
  /\ server'.round >= server.round /\ server'.generation >= server.generation
  /\ server'.round = server.round => server'.revision >= server.revision
  /\ server'.generation = server.generation => server'.round = server.round

Accepts(a) == result[a] = "none" /\ ~Waits(a) /\ Accept(a)

ServerMoves == Undecided \/ \E a \in Captured : Accepts(a)

(* On the phone no work is added, and no copy but the server's own.          *)
NothingAdded ==
  /\ UNCHANGED actions
  /\ pending' \subseteq pending
  /\ \A s \in Copies' : s \in Copies \/ (s = Snapshot /\ UNCHANGED serverVars)

LEMMA KnownIsCaptured ==
  ASSUME JournalInv
  PROVE  /\ Known \subseteq Captured /\ Captured \subseteq Nat
         /\ \A a \in Captured : actions[a] \in ActionRecord /\ version[a] \in Nat
         /\ \A a \in Captured : result[a] \in Statuses
         /\ \A a \in Captured : (a \in Known <=> result[a] = "accepted")
         /\ server \in ServerRecord
         /\ \A a \in Captured : actions[a].round <= server.round
<1>1. Known = {a \in Slots : result[a] = "accepted"}
      /\ \A a \in Slots \ Captured : result[a] = "none"
  BY DEF JournalInv, Receipts
<1>2. Known \subseteq Captured
  BY <1>1
<1>3. Captured \subseteq Slots /\ \A a \in Captured : actions[a] \in ActionRecord
  BY CapturedAreSlots
<1>4. result \in [Slots -> Statuses] /\ version \in [Slots -> Nat] /\ server \in ServerRecord
  BY DEF JournalInv, JournalTypes
<1>5. Slots \subseteq Nat
  BY DEF Slots
<1>6. \A a \in Captured : actions[a].round <= server.round
  BY DEF JournalInv, InThePast
<1> QED BY <1>1, <1>2, <1>3, <1>4, <1>5, <1>6

LEMMA StandsStill ==
  ASSUME JournalInv, UNCHANGED serverVars
  PROVE  ServerMoves
<1>1. UNCHANGED <<history, version>> /\ server' = server /\ server \in ServerRecord
  BY KnownIsCaptured DEF serverVars
<1> QED BY <1>1 DEF ServerMoves, Undecided, ServerRecord

LEMMA HandleMoves ==
  ASSUME JournalInv, NEW a \in Captured, Handle(a)
  PROVE  ServerMoves
<1>1. CASE UNCHANGED serverVars
  BY <1>1, StandsStill
<1>2. CASE Refuse(a)
  <2>1. UNCHANGED <<history, version>> /\ server' = server /\ server \in ServerRecord
    BY <1>2, KnownIsCaptured DEF Refuse
  <2> QED BY <2>1 DEF ServerMoves, Undecided, ServerRecord
<1>3. CASE result[a] = "none" /\ (Fenced(a) \/ ~Waits(a)) /\ Accept(a)
  <2>1. ~Fenced(a)
    BY <1>3 DEF Accept, Fits
  <2> QED BY <1>3, <2>1 DEF ServerMoves, Accepts
<1> QED BY <1>1, <1>2, <1>3 DEF Handle

LEMMA OthersMove ==
  ASSUME JournalInv, TakeOver \/ OtherWorks \/ EndRound
  PROVE  ServerMoves
<1>0. server \in ServerRecord /\ UNCHANGED <<history, version>>
  BY KnownIsCaptured DEF TakeOver, OtherWorks, EndRound
<1>1. CASE TakeOver
  <2>1. server' = [round |-> server.round, owner |-> "other", generation |-> server.generation + 1,
                   open |-> server.open, revision |-> server.revision]
    BY <1>0, <1>1 DEF ServerRecord, TakeOver
  <2> QED BY <1>0, <2>1 DEF ServerMoves, Undecided, ServerRecord
<1>2. CASE OtherWorks
  <2>1. server' = [round |-> server.round, owner |-> server.owner, generation |-> server.generation,
                   open |-> server.open, revision |-> server.revision + 1]
    BY <1>0, <1>2 DEF ServerRecord, OtherWorks
  <2> QED BY <1>0, <2>1 DEF ServerMoves, Undecided, ServerRecord
<1>3. CASE EndRound
  <2>1. server' = [round |-> server.round, owner |-> server.owner, generation |-> server.generation,
                   open |-> FALSE, revision |-> server.revision]
    BY <1>0, <1>3 DEF ServerRecord, EndRound
  <2> QED BY <1>0, <2>1 DEF ServerMoves, Undecided, ServerRecord
<1> QED BY <1>1, <1>2, <1>3

LEMMA StartMoves ==
  ASSUME JournalInv, NEW stamp, Started(stamp), UNCHANGED <<history, version>>
  PROVE  ServerMoves
<1>0. server \in ServerRecord
  BY KnownIsCaptured
<1>1. CASE server' = [round |-> server.round + 1, owner |-> "this",
                      generation |-> server.generation + 1, open |-> TRUE, revision |-> 0]
  BY <1>0, <1>1 DEF ServerMoves, Undecided, ServerRecord
<1>2. CASE UNCHANGED server
  BY <1>0, <1>2 DEF ServerMoves, Undecided, ServerRecord
<1> QED BY <1>1, <1>2 DEF Started

(* What an accepted action does.                                             *)
LEMMA AcceptedOn ==
  ASSUME JournalInv, NEW a \in Captured, Accepts(a)
  PROVE  /\ Known' = Known \cup {a} /\ a \notin Known
         /\ history' = Append(history, a)
         /\ server' \in ServerRecord /\ server'.round = server.round
         /\ actions[a].round = server.round
         /\ \A e \in Known : version'[e] = version[e]
         /\ \/ actions[a].kind = "takeover" /\ server'.generation = server.generation + 1
                /\ server'.revision = server.revision
            \/ /\ actions[a].kind # "takeover"
               /\ actions[a].generation = server.generation
               /\ server'.generation = server.generation
               /\ actions[a].base = server.revision
               /\ server'.revision = server.revision + 1
               /\ version'[a] = server.revision + 1
<1>0. a \in Slots /\ a \in Nat /\ server \in ServerRecord /\ history \in Seq(Nat)
      /\ version \in [Slots -> Nat] /\ Known \subseteq Slots
  BY KnownIsCaptured, CapturedAreSlots DEF JournalInv, JournalTypes
<1>1. history' = Append(history, a) /\ ~Fenced(a) /\ ~Stale(a)
  BY DEF Accepts, Accept, Fits
<1>2. Known' = Known \cup {a} /\ a \notin Known
  BY <1>0, <1>1, KnownGrows, KnownIsCaptured DEF Accepts
<1>3. actions[a].round = server.round
  BY <1>1 DEF Stale
<1>4. CASE actions[a].kind = "takeover"
  <2>1. server' = [server EXCEPT !.owner = "this", !.generation = @ + 1] /\ version' = version
    BY <1>4 DEF Accepts, Accept
  <2>2. server' = [round |-> server.round, owner |-> "this", generation |-> server.generation + 1,
                   open |-> server.open, revision |-> server.revision]
    BY <1>0, <2>1 DEF ServerRecord
  <2> QED BY <1>0, <1>1, <1>2, <1>3, <1>4, <2>1, <2>2 DEF ServerRecord
<1>5. CASE actions[a].kind # "takeover"
  <2>1. server' = [server EXCEPT !.revision = @ + 1]
        /\ version' = [version EXCEPT ![a] = server.revision + 1]
    BY <1>5 DEF Accepts, Accept
  <2>2. server' = [round |-> server.round, owner |-> server.owner,
                   generation |-> server.generation, open |-> server.open,
                   revision |-> server.revision + 1]
    BY <1>0, <2>1 DEF ServerRecord
  <2>3. version'[a] = server.revision + 1 /\ \A e \in Known : version'[e] = version[e]
    BY <1>0, <1>2, <2>1
  <2>4. actions[a].base = server.revision /\ actions[a].generation = server.generation
    BY <1>1, <1>5 DEF Stale, Fenced
  <2> QED BY <1>0, <1>1, <1>2, <1>3, <1>5, <2>2, <2>3, <2>4 DEF ServerRecord
<1> QED BY <1>4, <1>5

LEMMA KeptStays ==
  ASSUME JournalInv, ServerMoves, UNCHANGED actions,
         NEW r \in Nat, NEW g \in Nat, NEW n \in Nat, NEW known,
         g <= server.generation, Kept(r, g, n, known)
  PROVE  Kept(r, g, n, known)'
<1>0. server \in ServerRecord
  BY KnownIsCaptured
<1>1. CASE Undecided
  <2>1. Known' = Known /\ version' = version /\ \A q : Work(q)' = Work(q)
    BY <1>1 DEF Undecided, Known, Work
  <2>2. server'.round = r /\ server'.generation = g
        => /\ server.round = r /\ server.generation = g
           /\ server'.revision >= server.revision
    BY <1>0, <1>1 DEF Undecided, ServerRecord
  <2>3. server'.revision \in Nat /\ server.revision \in Nat
    BY <1>0, <1>1 DEF Undecided, ServerRecord
  <2> QED BY <2>1, <2>2, <2>3 DEF Kept
<1>2. ASSUME NEW a \in Captured, Accepts(a)
      PROVE  Kept(r, g, n, known)'
  <2>1. known \subseteq Known'
    BY <1>2, AcceptedOn DEF Kept
  <2>2. ASSUME server'.round = r, server'.generation = g
        PROVE  /\ n <= server'.revision
               /\ \A e \in Known' \ known : e \in Work(r)' /\ version'[e] > n
    <3>1. /\ actions[a].kind # "takeover" /\ actions[a].round = r
          /\ server.round = r /\ server.generation = g
          /\ server'.revision = server.revision + 1 /\ version'[a] = server.revision + 1
      BY <1>0, <1>2, <2>2, AcceptedOn DEF ServerRecord
    <3>2. n <= server.revision /\ \A e \in Known \ known : e \in Work(r) /\ version[e] > n
      BY <3>1 DEF Kept
    <3>3. server.revision \in Nat
      BY <1>0 DEF ServerRecord
    <3>4. Known' = Known \cup {a} /\ \A e \in Known : version'[e] = version[e]
      BY <1>2, AcceptedOn
    <3>5. n <= server'.revision /\ version'[a] > n
      BY <3>1, <3>2, <3>3
    <3>6. a \in Work(r)' /\ \A e \in Work(r) : e \in Work(r)'
      BY <3>1, <3>4 DEF Work
    <3> QED BY <3>2, <3>4, <3>5, <3>6
  <2> QED BY <2>1, <2>2 DEF Kept
<1> QED BY <1>1, <1>2 DEF ServerMoves

LEMMA NumberedStays ==
  ASSUME JournalInv, ServerMoves, UNCHANGED actions, Numbered
  PROVE  Numbered'
<1>0. /\ server \in ServerRecord /\ Known \subseteq Captured
      /\ \A a \in Captured : actions[a].round <= server.round
      /\ \A a \in Captured : actions[a] \in ActionRecord /\ version[a] \in Nat
  BY KnownIsCaptured
<1>1. CASE Undecided
  <2>1. Known' = Known /\ version' = version /\ \A q : Work(q)' = Work(q)
    BY <1>1 DEF Undecided, Known, Work
  <2>2. CASE server'.round = server.round
    <3>1. \A e \in Work(server.round) : version[e] \in 1..server'.revision
      BY <1>0, <1>1, <2>2 DEF Numbered, Undecided, ServerRecord
    <3> QED BY <2>1, <2>2, <3>1 DEF Numbered
  <2>3. CASE server'.round # server.round
    <3>1. server'.round > server.round
      BY <1>0, <1>1, <2>3 DEF Undecided, ServerRecord
    <3>2. Work(server'.round) = {}
      BY <1>0, <1>1, <3>1 DEF Work, Undecided, ServerRecord, ActionRecord
    <3> QED BY <2>1, <3>2 DEF Numbered
  <2> QED BY <2>2, <2>3
<1>2. ASSUME NEW a \in Captured, Accepts(a)
      PROVE  Numbered'
  <2>1. Known' = Known \cup {a} /\ a \notin Known /\ server'.round = server.round
        /\ \A e \in Known : version'[e] = version[e]
    BY <1>2, AcceptedOn
  <2>2. server.revision \in Nat
    BY <1>0 DEF ServerRecord
  <2>3. CASE actions[a].kind = "takeover"
    <3>1. server'.revision = server.revision
      BY <1>2, <2>3, AcceptedOn
    <3>2. Work(server.round)' = Work(server.round)
      BY <2>1, <2>3 DEF Work
    <3>3. Work(server.round) \subseteq Known
      BY DEF Work
    <3>4. \A e \in Known' : actions[e].kind = "offline" => e \in Known
      BY <2>1, <2>3
    <3> QED BY <2>1, <3>1, <3>2, <3>3, <3>4 DEF Numbered
  <2>4. CASE actions[a].kind # "takeover"
    <3>1. server'.revision = server.revision + 1 /\ version'[a] = server.revision + 1
          /\ actions[a].base = server.revision
      BY <1>2, <2>4, AcceptedOn
    <3>2. Work(server.round)' \subseteq Work(server.round) \cup {a}
      BY <2>1 DEF Work
    <3>3. Work(server.round) \subseteq Known
      BY DEF Work
    <3>4. \A e \in Work(server.round) :
            version'[e] \in 1..server.revision /\ version'[e] # version'[a]
      BY <2>1, <2>2, <3>1, <3>3 DEF Numbered
    <3>5. \A e \in Work(server.round)' : version'[e] \in 1..server'.revision
      BY <2>2, <3>1, <3>2, <3>4
    <3>6. \A e, f \in Work(server.round)' : version'[e] = version'[f] => e = f
      BY <2>1, <3>2, <3>3, <3>4 DEF Numbered
    <3>7. \A e \in Known' : actions[e].kind = "offline" => version'[e] = actions[e].base + 1
      BY <2>1, <3>1 DEF Numbered
    <3> QED BY <3>5, <3>6, <3>7 DEF Numbered
  <2> QED BY <2>3, <2>4
<1> QED BY <1>1, <1>2 DEF ServerMoves

-----------------------------------------------------------------------------
(* What an accepted action rests on was accepted before it.                  *)
LEMMA PredecessorsKnown ==
  ASSUME JournalInv, NEW was, Witnessed(was), NEW a \in Captured,
         \A d \in actions[a].deps : d \in Known
  PROVE  was[a] \subseteq Known
<1>1. was[a] \subseteq Captured /\ Captured \subseteq Nat
  BY KnownIsCaptured DEF Witnessed
<1>2. CASE was[a] = {}
  BY <1>2
<1>3. CASE was[a] # {}
  <2>1. PICK f \in was[a] : f \in Known /\ \A e \in was[a] : e <= f
    BY <1>3 DEF Witnessed, Follows
  <2>2. was[f] \subseteq Known
    BY <1>1, <2>1 DEF Witnessed, Follows
  <2>3. ASSUME NEW e \in was[a] PROVE e \in Known
    <3>a. e \in Nat /\ f \in Nat /\ e <= f
      BY <1>1, <2>1
    <3>1. e = f \/ e < f
      BY <3>a
    <3>2. e < f => e \in was[f]
      BY <2>1 DEF Witnessed, Follows
    <3> QED BY <2>1, <2>2, <3>1, <3>2
  <2> QED BY <2>3
<1> QED BY <1>2, <1>3

LEMMA RestsOnKnown ==
  ASSUME JournalInv, NEW was, Witnessed(was), NEW a \in Captured, Accepts(a)
  PROVE  was[a] \subseteq Known
<1>1. actions[a].deps \subseteq was[a] /\ was[a] \subseteq Captured
  BY DEF Witnessed, Follows
<1>2. \A d \in actions[a].deps : result[d] # "none" /\ result[d] # "refused"
  BY DEF Accepts, Accept, Fits, Waits, Broken
<1>3. \A d \in actions[a].deps : d \in Known
  BY <1>1, <1>2, KnownIsCaptured DEF Statuses
<1> QED BY <1>3, PredecessorsKnown

LEMMA FollowsStays ==
  ASSUME JournalInv, NEW was, Witnessed(was), ServerMoves, NothingAdded
  PROVE  Follows(was)'
<1>1. Captured' = Captured /\ actions' = actions /\ pending' \subseteq pending
  BY DEF NothingAdded, Captured
<1>2. ASSUME NEW a \in Captured, a \in Known' PROVE was[a] \subseteq Known'
  <2>1. CASE Undecided
    <3>1. Known' = Known
      BY <2>1 DEF Undecided, Known
    <3> QED BY <1>2, <3>1 DEF Witnessed, Follows
  <2>2. ASSUME NEW b \in Captured, Accepts(b) PROVE was[a] \subseteq Known'
    <3>1. Known' = Known \cup {b}
      BY <2>2, AcceptedOn
    <3>2. was[b] \subseteq Known
      BY <2>2, RestsOnKnown
    <3>3. a \in Known => was[a] \subseteq Known
      BY DEF Witnessed, Follows
    <3> QED BY <1>2, <3>1, <3>2, <3>3
  <2> QED BY <2>1, <2>2 DEF ServerMoves
<1> QED BY <1>1, <1>2 DEF Witnessed, Follows

LEMMA ComposedStays ==
  ASSUME JournalInv, SeenInv, ServerMoves, UNCHANGED actions,
         NEW a \in Captured, NEW before, Composed(a, before)
  PROVE  Composed(a, before)'
<1>1. actions[a].round \in Nat /\ actions[a].generation \in Nat
      /\ actions[a].generation <= server.generation
  BY KnownIsCaptured DEF SeenInv, ActionRecord
<1>2. PICK n \in Nat, known \in SUBSET Nat, shown \in SUBSET before :
        /\ actions[a].shown = known \cup shown
        /\ actions[a].base = n + Cardinality(shown)
        /\ \A b \in shown : /\ actions[b].kind = "offline" /\ actions[b].base >= n
                            /\ actions[b].round = actions[a].round
        /\ Kept(actions[a].round, actions[a].generation, n, known)
  BY DEF Composed
<1>3. Kept(actions[a].round, actions[a].generation, n, known)'
  <2> DEFINE r == actions[a].round
             g == actions[a].generation
  <2>1. r \in Nat /\ g \in Nat /\ g <= server.generation /\ Kept(r, g, n, known)
    BY <1>1, <1>2
  <2>2. r' = r /\ g' = g
    OBVIOUS
  <2> HIDE DEF r, g
  <2>3. \A q \in Nat, h \in Nat : h <= server.generation /\ Kept(q, h, n, known)
                                  => Kept(q, h, n, known)'
    BY KeptStays
  <2>4. Kept(r, g, n, known)'
    <3>1. PICK q \in Nat : q = r
      BY <2>1
    <3>2. PICK h \in Nat : h = g
      BY <2>1
    <3>3. Kept(q, h, n, known)'
      BY <2>1, <2>3, <3>1, <3>2
    <3> QED BY <2>2, <3>1, <3>2, <3>3 DEF Kept
  <2> QED BY <2>4 DEF r, g
<1> QED BY <1>2, <1>3 DEF Composed

(* The revisions between the copy and the acceptance are those of the        *)
(* pending work that was shown, and of nothing else.                         *)
LEMMA SeenExactly ==
  ASSUME JournalInv, SeenInv, NEW a \in Captured, Accepts(a), actions[a].kind = "offline"
  PROVE  actions[a].shown = Known
<1>0. server \in ServerRecord /\ Known \subseteq Captured /\ Captured \subseteq Nat
      /\ \A e \in Captured : actions[e] \in ActionRecord /\ version[e] \in Nat
  BY KnownIsCaptured
<1>1. PICK was : Witnessed(was)
  BY DEF SeenInv
<1>2. was[a] \subseteq Known
  BY <1>1, RestsOnKnown
<1>3. Composed(a, was[a])
  BY <1>1 DEF Witnessed
<1>4. PICK n \in Nat, known \in SUBSET Nat, shown \in SUBSET was[a] :
        /\ actions[a].shown = known \cup shown
        /\ actions[a].base = n + Cardinality(shown)
        /\ \A b \in shown : /\ actions[b].kind = "offline" /\ actions[b].base >= n
                            /\ actions[b].round = actions[a].round
        /\ Kept(actions[a].round, actions[a].generation, n, known)
  BY <1>3 DEF Composed
<1>5. /\ actions[a].round = server.round /\ actions[a].generation = server.generation
      /\ actions[a].base = server.revision
  BY AcceptedOn
<1>6. /\ known \subseteq Known /\ n <= server.revision
      /\ \A e \in Known \ known : e \in Work(server.round) /\ version[e] > n
  BY <1>4, <1>5 DEF Kept
<1> DEFINE later == {e \in Work(server.round) : version[e] > n}
           moves == (n + 1)..server.revision
           number == [e \in later |-> version[e]]
<1>7. server.revision \in Nat /\ n \in Nat /\ Numbered
  BY <1>0 DEF ServerRecord, SeenInv
<1>8. IsFiniteSet(moves) /\ Cardinality(moves) = server.revision - n
  <2>1. n + 1 \in Int /\ server.revision \in Int
    BY <1>7
  <2>2. IsFiniteSet(moves)
        /\ Cardinality(moves) = IF n + 1 > server.revision THEN 0 ELSE server.revision - (n + 1) + 1
    BY <2>1, FS_Interval
  <2> HIDE DEF moves
  <2> QED BY <1>6, <1>7, <2>2
<1>9. number \in Injection(later, moves)
  <2>1. \A e \in later : e \in Work(server.round) /\ version[e] \in moves
    BY <1>7 DEF Numbered
  <2>2. \A e, f \in later : version[e] = version[f] => e = f
    BY <1>7 DEF Numbered
  <2> HIDE DEF later, moves
  <2>3. number \in [later -> moves]
    BY <2>1
  <2>4. IsInjective(number)
    BY <2>2, <2>3 DEF IsInjective
  <2> QED BY <2>3, <2>4 DEF Injection
<1>10. IsFiniteSet(later) /\ Cardinality(later) <= Cardinality(moves)
  <2> HIDE DEF later, moves, number
  <2> QED BY <1>8, <1>9, FS_Injection
<1>11. shown \subseteq later
  <2> SUFFICES ASSUME NEW b \in shown PROVE b \in Work(server.round) /\ version[b] > n
    OBVIOUS
  <2>1. b \in Known /\ actions[b].kind = "offline" /\ actions[b].base >= n
        /\ actions[b].round = server.round
    BY <1>2, <1>4, <1>5
  <2>2. version[b] = actions[b].base + 1 /\ actions[b].base \in Nat
    BY <1>0, <1>7, <2>1 DEF Numbered, ActionRecord
  <2> QED BY <1>7, <2>1, <2>2 DEF Work
<1>12. shown = later
  <2> HIDE DEF later, moves, number
  <2>1. IsFiniteSet(shown) /\ Cardinality(shown) <= Cardinality(later)
        /\ (Cardinality(later) = Cardinality(shown) => later = shown)
    BY <1>10, <1>11, FS_Subset
  <2>2. Cardinality(shown) \in Nat /\ Cardinality(later) \in Nat
    BY <1>10, <2>1, FS_CardinalityType
  <2>3. server.revision = n + Cardinality(shown)
    BY <1>4, <1>5
  <2>4. Cardinality(later) = Cardinality(shown)
    BY <1>7, <1>8, <1>10, <2>1, <2>2, <2>3
  <2> QED BY <2>1, <2>4
<1>13. Known \subseteq known \cup shown
  BY <1>6, <1>12
<1>14. shown \subseteq Known
  BY <1>2
<1> QED BY <1>4, <1>6, <1>13, <1>14

(* The order of acceptance only grows.                                       *)
LEMMA ShownStaysSeen ==
  ASSUME JournalInv, SeenInv, ServerMoves, UNCHANGED actions
  PROVE  AcceptedAsShown'
<1>0. history \in Seq(Nat) /\ AcceptedAsShown
  BY DEF JournalInv, JournalTypes, SeenInv
<1>1. CASE Undecided
  BY <1>0, <1>1 DEF Undecided, AcceptedAsShown
<1>2. ASSUME NEW a \in Captured, Accepts(a)
      PROVE  AcceptedAsShown'
  <2>1. history' = Append(history, a) /\ a \in Nat
    BY <1>2, AcceptedOn, KnownIsCaptured
  <2>2. /\ DOMAIN history = 1..Len(history) /\ Len(history) \in Nat
        /\ DOMAIN history' = 1..(Len(history) + 1)
        /\ history'[Len(history) + 1] = a
        /\ \A j \in 1..Len(history) : history'[j] = history[j]
    BY <1>0, <2>1
  <2>3. ASSUME NEW i \in DOMAIN history', actions[history'[i]].kind = "offline"
        PROVE  actions[history'[i]].shown = {history'[j] : j \in 1..(i - 1)}
    <3>1. CASE i = Len(history) + 1
      <4>1. actions[a].shown = Known
        BY <1>2, <2>2, <2>3, <3>1, SeenExactly
      <4>2. 1..(i - 1) = 1..Len(history)
        BY <2>2, <3>1
      <4>3. {history'[j] : j \in 1..(i - 1)} = {history[j] : j \in 1..Len(history)}
        BY <2>2, <4>2
      <4>4. Known = {history[j] : j \in 1..Len(history)}
        BY <2>2 DEF Known
      <4> QED BY <2>2, <3>1, <4>1, <4>3, <4>4
    <3>2. CASE i \in 1..Len(history)
      <4>1. 1..(i - 1) \subseteq 1..Len(history)
        BY <2>2, <3>2
      <4>2. {history'[j] : j \in 1..(i - 1)} = {history[j] : j \in 1..(i - 1)}
        BY <2>2, <4>1
      <4>3. history'[i] = history[i] /\ i \in DOMAIN history
        BY <2>2, <3>2
      <4> QED BY <1>0, <2>3, <4>2, <4>3 DEF AcceptedAsShown
    <3> QED BY <2>2, <3>1, <3>2
  <2> QED BY <2>3 DEF AcceptedAsShown
<1> QED BY <1>1, <1>2 DEF ServerMoves

LEMMA SnapshotKept ==
  ASSUME JournalInv
  PROVE  Kept(Snapshot.round, Snapshot.generation, Snapshot.revision, Snapshot.known)
BY SnapshotTyped DEF Kept, ServerRecord

(* A step that adds no work to the phone keeps what was seen.                *)
LEMMA SeenStays ==
  ASSUME JournalInv, SeenInv, ServerMoves, NothingAdded
  PROVE  SeenInv'
<1>1. actions' = actions /\ Captured' = Captured
  BY DEF NothingAdded, Captured
<1>2. \A a \in Captured : actions[a].generation <= server'.generation
  <2>1. server'.generation >= server.generation /\ server'.generation \in Nat
        /\ server.generation \in Nat
    <3>1. CASE Undecided
      BY <3>1, KnownIsCaptured DEF Undecided, ServerRecord
    <3>2. CASE \E a \in Captured : Accepts(a)
      BY <3>2, AcceptedOn, KnownIsCaptured DEF ServerRecord
    <3> QED BY <3>1, <3>2 DEF ServerMoves
  <2> QED BY <2>1, KnownIsCaptured DEF SeenInv, ActionRecord
<1>3. Numbered'
  BY <1>1, NumberedStays DEF SeenInv
<1>4. CopiesKept'
  <2> SUFFICES ASSUME NEW s \in Copies'
               PROVE  Kept(s.round, s.generation, s.revision, s.known)'
    BY DEF CopiesKept
  <2>1. CASE s \in Copies
    <3>1. s \in Copy /\ s.generation <= server.generation
      BY <2>1, CopiesTyped DEF JournalInv, InThePast
    <3>2. Kept(s.round, s.generation, s.revision, s.known)
      BY <2>1 DEF SeenInv, CopiesKept
    <3> QED BY <1>1, <3>1, <3>2, KeptStays DEF Copy
  <2>2. CASE s = Snapshot /\ UNCHANGED serverVars
    <3>1. Kept(s.round, s.generation, s.revision, s.known)
      BY <2>2, SnapshotKept
    <3>2. server' = server /\ version' = version /\ Known' = Known /\ Work(s.round)' = Work(s.round)
      BY <1>1, <2>2 DEF serverVars, Known, Work
    <3> QED BY <3>1, <3>2 DEF Kept
  <2> QED BY <2>1, <2>2 DEF NothingAdded
<1>5. AcceptedAsShown'
  BY <1>1, ShownStaysSeen
<1>6. PICK was : Witnessed(was)
  BY DEF SeenInv
<1>7. Witnessed(was)'
  <2>1. Follows(was)'
    BY <1>6, FollowsStays
  <2>2. \A a \in Captured : actions[a].kind = "offline" => Composed(a, was[a])'
    BY <1>1, <1>6, ComposedStays DEF Witnessed
  <2> QED BY <1>1, <1>6, <2>1, <2>2 DEF Witnessed
<1> QED BY <1>1, <1>2, <1>3, <1>4, <1>5, <1>7 DEF SeenInv

-----------------------------------------------------------------------------
(* Which steps add nothing.                                                  *)
LEMMA TabAddsNothing ==
  ASSUME JournalInv, NEW t \in Tabs, NEW r, tab' = [tab EXCEPT ![t] = r],
         UNCHANGED actions, pending' \subseteq pending,
         download' \subseteq download \cup Held(t),
         \/ r.pc \notin {"after", "save"}
         \/ r.seen = Held(t)
         \/ r.seen = {Snapshot} /\ UNCHANGED serverVars
  PROVE  NothingAdded
<1>1. tab \in [Tabs -> TabRecord]
  BY DEF JournalInv, JournalTypes
<1>2. \A u \in Tabs \ {t} : Held(u)' = Held(u)
  BY <1>1 DEF Held
<1>3. Held(t)' = IF r.pc \in {"after", "save"} THEN r.seen ELSE {}
  BY <1>1 DEF Held
<1>4. \A s \in Held(t)' : s \in Held(t) \/ (s = Snapshot /\ UNCHANGED serverVars)
  BY <1>3
<1>5. ASSUME NEW s \in Copies' PROVE s \in Copies \/ (s = Snapshot /\ UNCHANGED serverVars)
  <2>1. CASE s \in download'
    BY <2>1 DEF Copies
  <2>2. ASSUME NEW u \in Tabs, s \in Held(u)'
        PROVE  s \in Copies \/ (s = Snapshot /\ UNCHANGED serverVars)
    <3>1. CASE u = t
      BY <1>4, <2>2, <3>1 DEF Copies
    <3>2. CASE u # t
      BY <1>2, <2>2, <3>2 DEF Copies
    <3> QED BY <3>1, <3>2
  <2> QED BY <2>1, <2>2 DEF Copies
<1> QED BY <1>5 DEF NothingAdded

LEMMA TabsAsBefore ==
  ASSUME UNCHANGED <<actions, pending, download, tab>>
  PROVE  NothingAdded
<1>1. \A t \in Tabs : Held(t)' = Held(t)
  BY DEF Held
<1>2. Copies' = Copies
  BY <1>1 DEF Copies
<1> QED BY <1>2 DEF NothingAdded

(* The tab ends its work.                                                    *)
LEMMA TabRests ==
  ASSUME JournalInv, NEW t \in Tabs, Release(t),
         UNCHANGED actions, pending' \subseteq pending, download' \subseteq download \cup Held(t)
  PROVE  NothingAdded
<1>1. tab' = [tab EXCEPT ![t] = Idle] /\ Idle.pc = "idle"
  BY IdleFacts DEF Release, Rest
<1> QED BY <1>1, TabAddsNothing

(* The tab goes on at another place.                                         *)
LEMMA TabGoes ==
  ASSUME JournalInv, NEW t \in Tabs, NEW pc,
         tab' = [tab EXCEPT ![t] = [tab[t] EXCEPT !.pc = pc]],
         pc \notin {"after", "save"} \/ (pc = "save" /\ tab[t].pc = "after"),
         UNCHANGED actions, pending' \subseteq pending, download' \subseteq download \cup Held(t)
  PROVE  NothingAdded
<1> DEFINE r == [tab[t] EXCEPT !.pc = pc]
<1>1. tab[t] \in TabRecord
  BY TabFacts
<1>2. r.pc = pc /\ r.seen = tab[t].seen /\ tab' = [tab EXCEPT ![t] = r]
  BY <1>1 DEF TabRecord
<1>3. pc = "save" /\ tab[t].pc = "after" => Held(t) = tab[t].seen
  BY DEF Held
<1> HIDE DEF r
<1> QED BY <1>2, <1>3, TabAddsNothing

(* The steps of a tab.  Each one adds nothing on the phone, and moves the    *)
(* server as its request says.                                               *)
LEMMA TabChanges ==
  ASSUME JournalInv, NEW t \in Tabs, NEW r, NEW pc, tab' = [tab EXCEPT ![t] = r],
         r.pc = pc, pc \notin {"after", "save"},
         UNCHANGED actions, pending' \subseteq pending, download' \subseteq download
  PROVE  NothingAdded
BY TabAddsNothing

LEMMA BeginningsSee ==
  ASSUME JournalInv, NEW t \in Tabs,
         \/ \E mode \in {"replay", "start"} : BeginReplay(t, mode)
         \/ \E a \in Slots : SendDirectly(t, a)
         \/ BeginDownload(t)
  PROVE  ServerMoves /\ NothingAdded
<1>1. UNCHANGED serverVars /\ UNCHANGED <<actions, pending, download>>
  BY DEF BeginReplay, SendDirectly, BeginDownload, LocalOnly
<1>2. ServerMoves
  BY <1>1, StandsStill
<1>3. ASSUME NEW mode, BeginReplay(t, mode) PROVE NothingAdded
  <2> DEFINE r == Begun("scan", mode, {})
  <2>1. tab' = [tab EXCEPT ![t] = r]
    BY <1>3 DEF BeginReplay
  <2>2. r.pc = "scan"
    BY DEF Begun
  <2> HIDE DEF r
  <2> QED BY <1>1, <2>1, <2>2, TabChanges
<1>4. ASSUME NEW a, SendDirectly(t, a) PROVE NothingAdded
  <2> DEFINE r == Begun("sent", "direct", {a})
  <2>1. tab' = [tab EXCEPT ![t] = r]
    BY <1>4 DEF SendDirectly
  <2>2. r.pc = "sent"
    BY DEF Begun
  <2> HIDE DEF r
  <2> QED BY <1>1, <2>1, <2>2, TabChanges
<1>5. ASSUME BeginDownload(t) PROVE NothingAdded
  <2> DEFINE r == Begun("before", "page", {})
  <2>1. tab' = [tab EXCEPT ![t] = r]
    BY <1>5 DEF BeginDownload
  <2>2. r.pc = "before"
    BY DEF Begun
  <2> HIDE DEF r
  <2> QED BY <1>1, <2>1, <2>2, TabChanges
<1> QED BY <1>2, <1>3, <1>4, <1>5

LEMMA EndingsSee ==
  ASSUME JournalInv, NEW t \in Tabs,
         \/ Abandon(t) \/ EndUpdate(t) \/ FinishExit(t) \/ Die(t) \/ StartRound(t)
  PROVE  ServerMoves /\ NothingAdded
<1>1. Release(t) /\ UNCHANGED <<actions, pending, download>>
  BY DEF Abandon, EndUpdate, FinishExit, Die, StartRound, LocalOnly, StoreUnchanged, store
<1>2. NothingAdded
  BY <1>1, TabRests
<1>3. CASE StartRound(t)
  <2>1. UNCHANGED <<history, version>> /\ \E stamp \in tab[t].seen : Started(stamp)
    BY <1>3 DEF StartRound
  <2> QED BY <1>2, <2>1, StartMoves
<1>4. CASE Abandon(t) \/ EndUpdate(t) \/ FinishExit(t) \/ Die(t)
  <2>1. UNCHANGED serverVars
    BY <1>4 DEF Abandon, EndUpdate, FinishExit, Die, LocalOnly
  <2> QED BY <1>2, <2>1, StandsStill
<1> QED BY <1>3, <1>4

LEMMA LeavingSees ==
  ASSUME JournalInv, NEW t \in Tabs, PrepareExit(t) \/ BeginUpdate(t)
  PROVE  ServerMoves /\ NothingAdded
<1>1. UNCHANGED serverVars /\ UNCHANGED <<actions, pending, download>>
  BY DEF PrepareExit, BeginUpdate, LocalOnly, StoreUnchanged, store
<1>2. PICK p \in {"leaving", "updating"} : tab' = [tab EXCEPT ![t] = [tab[t] EXCEPT !.pc = p]]
  BY DEF PrepareExit, BeginUpdate, Goto
<1> QED BY <1>1, <1>2, StandsStill, TabGoes

LEMMA SubmitSees ==
  ASSUME JournalInv, NEW t \in Tabs, Submit(t)
  PROVE  ServerMoves /\ NothingAdded
<1>0. tab[t] \in TabRecord /\ Ready(t) \in SUBSET Nat
  BY TabFacts, CapturedAreSlots DEF Ready, Slots
<1>1. UNCHANGED serverVars /\ UNCHANGED <<actions, pending, download>>
  BY DEF Submit, LocalOnly, StoreUnchanged, store
<1> DEFINE C == tab[t].attempted \cup Ready(t)
           r == [tab[t] EXCEPT !.pc = "sent", !.answers = {}, !.batch = Ready(t),
                               !.attempted = C]
<1>2. tab' = [tab EXCEPT ![t] = r]
  BY DEF Submit
<1>3. C \in SUBSET Nat
  BY <1>0 DEF TabRecord
<1> HIDE DEF C
<1>4. r.pc = "sent"
  <2>1. r = [pc |-> "sent", mode |-> tab[t].mode, batch |-> Ready(t), answers |-> {},
             attempted |-> C, seen |-> tab[t].seen, rounds |-> tab[t].rounds]
    BY <1>0, <1>3, TabSubmits
  <2> QED BY <2>1
<1> HIDE DEF r
<1> QED BY <1>1, <1>2, <1>4, StandsStill, TabChanges

LEMMA HandlingSees ==
  ASSUME JournalInv, NEW t \in Tabs, HandleFirst(t)
  PROVE  ServerMoves /\ NothingAdded
<1>0. tab[t] \in TabRecord /\ tab[t].pc = "sent" /\ UNCHANGED <<actions, pending, download>>
  BY TabFacts DEF HandleFirst, store
<1>1. PICK a \in First(tab[t].batch) :
        /\ Handle(a)
        /\ tab' = [tab EXCEPT ![t] =
             [tab[t] EXCEPT !.batch = tab[t].batch \ {a},
                !.answers = tab[t].answers \cup {b \in {a} : result'[b] # "none"}]]
  BY <1>0 DEF HandleFirst
<1>2. a \in Captured /\ a \in Nat
  BY TabFacts, KnownIsCaptured DEF First
<1> DEFINE A == tab[t].answers \cup {b \in {a} : result'[b] # "none"}
           B == tab[t].batch \ {a}
<1>3. A \in SUBSET Nat /\ B \in SUBSET Nat
  BY <1>0, <1>2 DEF TabRecord
<1>4. tab' = [tab EXCEPT ![t] = [tab[t] EXCEPT !.batch = B, !.answers = A]]
  BY <1>1
<1> HIDE DEF A, B
<1> DEFINE r == [tab[t] EXCEPT !.batch = B, !.answers = A]
<1>5. r = [pc |-> tab[t].pc, mode |-> tab[t].mode, batch |-> B, answers |-> A,
           attempted |-> tab[t].attempted, seen |-> tab[t].seen, rounds |-> tab[t].rounds]
  BY <1>0, <1>3, TabHandles
<1>6. tab' = [tab EXCEPT ![t] = r]
  BY <1>4
<1> HIDE DEF r
<1>7. r.pc = "sent"
  BY <1>0, <1>5
<1> QED BY <1>0, <1>1, <1>2, <1>6, <1>7, HandleMoves, TabChanges

LEMMA FailureSees ==
  ASSUME JournalInv, NEW t \in Tabs, FailFirst(t)
  PROVE  ServerMoves /\ NothingAdded
<1>0. tab[t] \in TabRecord /\ tab[t].pc = "sent" /\ UNCHANGED serverVars
      /\ UNCHANGED <<actions, pending, download>>
  BY TabFacts DEF FailFirst, store
<1> DEFINE B == tab[t].batch \ First(tab[t].batch)
           r == [tab[t] EXCEPT !.batch = B]
<1>1. B \in SUBSET Nat
  BY <1>0 DEF TabRecord
<1>2. tab' = [tab EXCEPT ![t] = r]
  BY DEF FailFirst
<1> HIDE DEF B
<1>3. r.pc = "sent"
  BY <1>0 DEF TabRecord
<1> HIDE DEF r
<1> QED BY <1>0, <1>2, <1>3, StandsStill, TabChanges

LEMMA ReceiptSees ==
  ASSUME JournalInv, NEW t \in Tabs, SaveReceipt(t)
  PROVE  ServerMoves /\ NothingAdded
<1>0. tab[t] \in TabRecord /\ tab[t].pc = "sent" /\ UNCHANGED serverVars
      /\ UNCHANGED <<actions, download>>
  BY TabFacts DEF SaveReceipt, LocalOnly
<1>1. PICK a \in tab[t].answers :
        /\ Acknowledge(a)
        /\ tab' = [tab EXCEPT ![t] = [tab[t] EXCEPT !.answers = tab[t].answers \ {a}]]
  BY <1>0 DEF SaveReceipt
<1>2. pending' \subseteq pending
  BY <1>1 DEF Acknowledge
<1> DEFINE A == tab[t].answers \ {a}
           r == [tab[t] EXCEPT !.answers = A]
<1>3. A \in SUBSET Nat
  BY <1>0 DEF TabRecord
<1>4. tab' = [tab EXCEPT ![t] = r]
  BY <1>1
<1> HIDE DEF A
<1>5. r.pc = "sent"
  BY <1>0 DEF TabRecord
<1> HIDE DEF r
<1> QED BY <1>0, <1>2, <1>4, <1>5, StandsStill, TabChanges

LEMMA BatchEndSees ==
  ASSUME JournalInv, NEW t \in Tabs, EndBatch(t)
  PROVE  ServerMoves /\ NothingAdded
<1>1. UNCHANGED serverVars /\ UNCHANGED <<actions, pending, download>>
  BY DEF EndBatch, LocalOnly, StoreUnchanged, store
<1>2. CASE Release(t)
  BY <1>1, <1>2, StandsStill, TabRests
<1>3. CASE Goto(t, "scan")
  BY <1>1, <1>3, StandsStill, TabGoes DEF Goto
<1> QED BY <1>2, <1>3 DEF EndBatch

LEMMA ScanEndSees ==
  ASSUME JournalInv, NEW t \in Tabs, EndScan(t)
  PROVE  ServerMoves /\ NothingAdded
<1>1. UNCHANGED serverVars /\ UNCHANGED <<actions, pending, download>>
  BY DEF EndScan, LocalOnly, StoreUnchanged, store
<1>2. CASE Release(t)
  BY <1>1, <1>2, StandsStill, TabRests
<1>3. CASE tab' = [tab EXCEPT ![t] =
                [tab[t] EXCEPT !.pc = "owner", !.rounds = {actions[a].round : a \in pending}]]
  <2> DEFINE A == {actions[a].round : a \in pending}
             r == [tab[t] EXCEPT !.pc = "owner", !.rounds = A]
  <2>1. \A a \in pending : a \in Captured
    BY DEF JournalInv, JournalTypes
  <2>2. A \in SUBSET Nat /\ "owner" \in {"idle"} \cup Locking \cup Reading
    BY <2>1, KnownIsCaptured DEF ActionRecord, Locking
  <2>3. tab' = [tab EXCEPT ![t] = r] /\ tab[t] \in TabRecord
    BY <1>3, TabFacts
  <2> HIDE DEF A
  <2>5. r = [pc |-> "owner", mode |-> tab[t].mode, batch |-> tab[t].batch,
             answers |-> tab[t].answers, attempted |-> tab[t].attempted,
             seen |-> tab[t].seen, rounds |-> A]
    BY <2>2, <2>3, TabHolds
  <2> HIDE DEF r
  <2>4. r.pc = "owner"
    BY <2>5
  <2> QED BY <1>1, <2>3, <2>4, StandsStill, TabChanges
<1> QED BY <1>2, <1>3 DEF EndScan

LEMMA OwnerSees ==
  ASSUME JournalInv, NEW t \in Tabs, ReadOwner(t)
  PROVE  ServerMoves /\ NothingAdded
<1> DEFINE held == tab[t].rounds \cup {d.round : d \in download}
           lost == {n \in held : n # server.round \/ ~Owned}
           r == [tab[t] EXCEPT !.pc = "retire", !.seen = lost]
<1>1. UNCHANGED serverVars /\ UNCHANGED <<actions, pending, download>>
  BY DEF ReadOwner, LocalOnly, StoreUnchanged, store
<1>2. tab' = [tab EXCEPT ![t] = r] /\ tab[t] \in TabRecord
  BY TabFacts DEF ReadOwner
<1>3. lost \in SUBSET (Nat \cup Copy) /\ "retire" \in {"idle"} \cup Locking \cup Reading
  <2>1. \A d \in download : d.round \in Nat
    BY DEF JournalInv, JournalTypes, Copy
  <2>2. lost \subseteq Nat
    BY <1>2, <2>1 DEF TabRecord
  <2> HIDE DEF lost
  <2> QED BY <2>2 DEF Locking
<1> HIDE DEF held, lost
<1>4. r = [pc |-> "retire", mode |-> tab[t].mode, batch |-> tab[t].batch,
           answers |-> tab[t].answers, attempted |-> tab[t].attempted, seen |-> lost,
           rounds |-> tab[t].rounds]
  BY <1>2, <1>3, TabSees
<1> HIDE DEF r
<1>5. r.pc = "retire"
  BY <1>4
<1> QED BY <1>1, <1>2, <1>5, StandsStill, TabChanges

LEMMA RetireSees ==
  ASSUME JournalInv, NEW t \in Tabs, Retire(t)
  PROVE  ServerMoves /\ NothingAdded
<1> DEFINE p == IF download' # {} /\ tab[t].rounds # {} THEN "before" ELSE "synced"
           r == [tab[t] EXCEPT !.seen = {}, !.pc = p]
<1>1. UNCHANGED serverVars /\ UNCHANGED actions
      /\ pending' \subseteq pending /\ download' \subseteq download
  BY DEF Retire, RetireConfirmed, LocalOnly
<1>2. tab' = [tab EXCEPT ![t] = r] /\ tab[t] \in TabRecord
  BY TabFacts DEF Retire
<1>3. p \in {"before", "synced"}
  OBVIOUS
<1> HIDE DEF p
<1>4. {} \in SUBSET (Nat \cup Copy) /\ p \in {"idle"} \cup Locking \cup Reading
  BY <1>3 DEF Locking, Reading
<1>5. r = [pc |-> p, mode |-> tab[t].mode, batch |-> tab[t].batch,
           answers |-> tab[t].answers, attempted |-> tab[t].attempted, seen |-> {},
           rounds |-> tab[t].rounds]
  BY <1>2, <1>4, TabForgets
<1> HIDE DEF r
<1>6. r.pc = p /\ p \notin {"after", "save"}
  BY <1>3, <1>5
<1> QED BY <1>1, <1>2, <1>6, StandsStill, TabChanges

LEMMA SnapshotsSee ==
  ASSUME JournalInv, NEW t \in Tabs, ReadBefore(t) \/ ReadAfter(t)
  PROVE  ServerMoves /\ NothingAdded
<1>1. UNCHANGED serverVars /\ UNCHANGED <<actions, pending>> /\ download' \subseteq download
      /\ tab[t] \in TabRecord
  BY TabFacts DEF ReadBefore, ReadAfter, LocalOnly, StoreUnchanged, store
<1>2. CASE Release(t)
  BY <1>1, <1>2, StandsStill, TabRests
<1>3. CASE tab[t].pc = "after" /\ Goto(t, "save")
  <2>1. tab' = [tab EXCEPT ![t] = [tab[t] EXCEPT !.pc = "save"]]
    BY <1>3 DEF Goto
  <2> QED BY <1>1, <1>3, <2>1, StandsStill, TabGoes
<1>4. CASE tab' = [tab EXCEPT ![t] = [tab[t] EXCEPT !.pc = "after", !.seen = {Snapshot}]]
  <2> DEFINE r == [tab[t] EXCEPT !.pc = "after", !.seen = {Snapshot}]
  <2>1. {Snapshot} \in SUBSET (Nat \cup Copy) /\ "after" \in {"idle"} \cup Locking \cup Reading
    BY SnapshotTyped DEF Reading
  <2>2. r = [pc |-> "after", mode |-> tab[t].mode, batch |-> tab[t].batch,
             answers |-> tab[t].answers, attempted |-> tab[t].attempted,
             seen |-> {Snapshot}, rounds |-> tab[t].rounds]
    BY <1>1, <2>1, TabSees
  <2>3. tab' = [tab EXCEPT ![t] = r]
    BY <1>4
  <2> HIDE DEF r
  <2>4. r.seen = {Snapshot}
    BY <2>2
  <2> QED BY <1>1, <2>3, <2>4, StandsStill, TabAddsNothing
<1>5. Release(t) \/ (tab[t].pc = "after" /\ Goto(t, "save"))
      \/ tab' = [tab EXCEPT ![t] = [tab[t] EXCEPT !.pc = "after", !.seen = {Snapshot}]]
  BY DEF ReadBefore, ReadAfter
<1> QED BY <1>2, <1>3, <1>4, <1>5

LEMMA SavingSees ==
  ASSUME JournalInv, NEW t \in Tabs, SaveDownload(t)
  PROVE  ServerMoves /\ NothingAdded
<1>1. UNCHANGED serverVars /\ UNCHANGED actions /\ tab[t].pc = "save"
  BY DEF SaveDownload, LocalOnly
<1>2. pending' \subseteq pending /\ download' \subseteq download \cup Held(t)
  BY <1>1 DEF SaveDownload, Held
<1>3. Release(t) \/ Goto(t, "synced")
  BY DEF SaveDownload
<1>4. CASE Goto(t, "synced")
  <2>1. tab' = [tab EXCEPT ![t] = [tab[t] EXCEPT !.pc = "synced"]]
    BY <1>4 DEF Goto
  <2> QED BY <1>1, <1>2, <2>1, StandsStill, TabGoes
<1> QED BY <1>1, <1>2, <1>3, <1>4, StandsStill, TabRests

LEMMA ReplayEndSees ==
  ASSUME JournalInv, NEW t \in Tabs, EndReplay(t)
  PROVE  ServerMoves /\ NothingAdded
<1>1. UNCHANGED serverVars /\ UNCHANGED <<actions, pending, download>> /\ tab[t] \in TabRecord
  BY TabFacts DEF EndReplay, LocalOnly, StoreUnchanged, store
<1>2. CASE Release(t)
  BY <1>1, <1>2, StandsStill, TabRests
<1>3. CASE tab' = [tab EXCEPT ![t] =
                [tab[t] EXCEPT !.pc = "starting", !.seen = {server.generation}]]
  <2> DEFINE r == [tab[t] EXCEPT !.pc = "starting", !.seen = {server.generation}]
  <2>1. {server.generation} \in SUBSET (Nat \cup Copy)
        /\ "starting" \in {"idle"} \cup Locking \cup Reading
    BY KnownIsCaptured DEF Locking, ServerRecord
  <2>2. r = [pc |-> "starting", mode |-> tab[t].mode, batch |-> tab[t].batch,
             answers |-> tab[t].answers, attempted |-> tab[t].attempted,
             seen |-> {server.generation}, rounds |-> tab[t].rounds]
    BY <1>1, <2>1, TabSees
  <2>3. tab' = [tab EXCEPT ![t] = r]
    BY <1>3
  <2> HIDE DEF r
  <2>4. r.pc = "starting"
    BY <2>2
  <2> QED BY <1>1, <2>3, <2>4, StandsStill, TabChanges
<1> QED BY <1>2, <1>3 DEF EndReplay

(* The steps that are no tab's.                                              *)
LEMMA WorldSees ==
  ASSUME JournalInv,
         \/ TakeOver \/ OtherWorks \/ EndRound \/ LateStart \/ OtherLeaves \/ BlockLostOwner
         \/ \E a \in wire : LateRequest(a)
         \/ \E account \in {"this", "other"} : Login(account)
         \/ UNCHANGED journalVars
  PROVE  ServerMoves /\ NothingAdded
<1>1. UNCHANGED <<actions, pending, download, tab>>
  BY DEF TakeOver, OtherWorks, EndRound, LateStart, OtherLeaves, BlockLostOwner, LateRequest,
         Login, store, journalVars
<1>2. NothingAdded
  BY <1>1, TabsAsBefore
<1>3. CASE TakeOver \/ OtherWorks \/ EndRound
  BY <1>2, <1>3, OthersMove
<1>4. CASE LateStart
  BY <1>2, <1>4, StartMoves DEF LateStart
<1>5. ASSUME NEW a \in wire, LateRequest(a) PROVE ServerMoves
  <2>1. a \in Captured
    BY TabFacts DEF JournalInv, Resolved
  <2> QED BY <1>5, <2>1, HandleMoves DEF LateRequest
<1>6. CASE OtherLeaves \/ BlockLostOwner \/ (\E account \in {"this", "other"} : Login(account))
           \/ UNCHANGED journalVars
  <2>1. UNCHANGED serverVars
    BY <1>6 DEF OtherLeaves, BlockLostOwner, Login, LocalOnly, journalVars
  <2> QED BY <1>2, <2>1, StandsStill
<1> QED BY <1>2, <1>3, <1>4, <1>5, <1>6

LEMMA SeenGoesOn ==
  ASSUME JournalInv, SeenInv, NEW t \in Tabs,
         \/ \E mode \in {"replay", "start"} : BeginReplay(t, mode)
         \/ \E a \in Slots : SendDirectly(t, a)
         \/ Replay(t) \/ FailFirst(t) \/ BeginDownload(t)
         \/ PrepareExit(t) \/ BeginUpdate(t) \/ Die(t)
  PROVE  SeenInv'
<1>1. CASE \/ Submit(t) \/ HandleFirst(t) \/ SaveReceipt(t) \/ EndBatch(t) \/ EndScan(t)
           \/ Abandon(t) \/ ReadOwner(t) \/ Retire(t)
  BY <1>1, SubmitSees, HandlingSees, ReceiptSees, BatchEndSees, ScanEndSees, EndingsSee,
     OwnerSees, RetireSees, SeenStays
<1>2. CASE \/ ReadBefore(t) \/ ReadAfter(t) \/ SaveDownload(t) \/ EndReplay(t)
           \/ StartRound(t) \/ FinishExit(t) \/ EndUpdate(t)
  BY <1>2, SnapshotsSee, SavingSees, ReplayEndSees, EndingsSee, SeenStays
<1>3. CASE \/ \E mode \in {"replay", "start"} : BeginReplay(t, mode)
           \/ \E a \in Slots : SendDirectly(t, a)
           \/ FailFirst(t) \/ BeginDownload(t) \/ PrepareExit(t) \/ BeginUpdate(t) \/ Die(t)
  BY <1>3, BeginningsSee, FailureSees, LeavingSees, EndingsSee, SeenStays
<1> QED BY <1>1, <1>2, <1>3 DEF Replay

-----------------------------------------------------------------------------
(* A capture is composed on what is shown.                                   *)

(* A set of captured work that is not empty has a last member.               *)
LEMMA LastMember ==
  ASSUME NEW N \in Nat, NEW S \in SUBSET (1..N), S # {}
  PROVE  \E e \in S : \A f \in S : f <= e
<1> DEFINE G == {m \in 0..N : N - m \in S}
           R == OpToRel(<, Nat)
<1>1. G # {} /\ G \subseteq Nat
  <2>1. PICK x \in S : TRUE
    OBVIOUS
  <2>2. x \in 1..N /\ N - (N - x) = x /\ N - x \in 0..N
    BY <2>1
  <2>3. N - x \in G
    BY <2>1, <2>2
  <2>4. G \subseteq Nat
    OBVIOUS
  <2> HIDE DEF G
  <2> QED BY <2>3, <2>4
<1>2. IsWellFoundedOn(R, Nat)
  BY NatLessThanWellFounded
<1> HIDE DEF R
<1>3. PICK n \in G : \A m \in G : ~(<<m, n>> \in R)
  BY <1>1, <1>2, WFMin
<1>4. \A m \in G : ~(m < n)
  <2>1. \A m \in G : m \in Nat /\ n \in Nat
    BY <1>1
  <2> QED BY <1>3, <2>1 DEF R, OpToRel
<1>5. ASSUME NEW f \in S PROVE f <= N - n
  <2>1. N - f \in 0..N /\ N - (N - f) = f
    OBVIOUS
  <2>2. N - f \in G
    BY <2>1
  <2>3. ~(N - f < n)
    BY <1>4, <2>2
  <2> QED BY <2>1, <2>3
<1>6. N - n \in S
  OBVIOUS
<1> QED BY <1>5, <1>6

LEMMA CaptureSeen ==
  ASSUME JournalInv, SeenInv, NEW a, NEW new \in ActionRecord, Record(a, new),
         new.generation <= server.generation,
         new.deps = {e \in pending : \A f \in pending : f <= e},
         new.kind # "offline" \/
           \E s \in Copies, shown \in SUBSET pending :
             /\ s.round = new.round /\ s.generation = new.generation
             /\ new.shown = s.known \cup shown
             /\ new.base = s.revision + Cardinality(shown)
             /\ \A b \in shown : /\ actions[b].kind = "offline" /\ actions[b].base >= s.revision
                                 /\ actions[b].round = new.round
  PROVE  SeenInv'
<1>1. /\ a = Len(actions) + 1
      /\ actions' = Append(actions, new) /\ pending' = pending \cup {a}
      /\ UNCHANGED serverVars
      /\ UNCHANGED <<download, tab>>
  BY DEF Record
<1>2. actions \in Seq(ActionRecord) /\ Len(actions) \in Nat /\ Captured = 1..Len(actions)
      /\ Known \subseteq Captured /\ pending \subseteq Captured
  BY CapturedAreSlots, KnownIsCaptured DEF JournalInv, JournalTypes
<1>3. Captured' = Captured \cup {a} /\ a \notin Captured /\ a \in Nat
      /\ \A e \in Captured : e < a
  <2>1. Len(actions') = Len(actions) + 1 /\ actions' \in Seq(ActionRecord)
    BY <1>1, <1>2
  <2>2. Captured' = 1..(Len(actions) + 1)
    BY <2>1 DEF Captured
  <2> QED BY <1>1, <1>2, <2>2
<1>4. actions'[a] = new /\ \A b \in Captured : actions'[b] = actions[b]
  BY <1>1, <1>2
<1>5. server' = server /\ version' = version /\ history' = history /\ Known' = Known
  BY <1>1 DEF serverVars, Known
<1>6. \A r : Work(r)' = Work(r)
  BY <1>2, <1>4, <1>5 DEF Work
<1>7. \A r, g, n, known : Kept(r, g, n, known)' <=> Kept(r, g, n, known)
  BY <1>5, <1>6 DEF Kept
<1>8. Copies' = Copies
  <2>1. \A u \in Tabs : Held(u)' = Held(u)
    BY <1>1 DEF Held
  <2> QED BY <1>1, <2>1 DEF Copies
<1>9. \A e \in Captured' : actions'[e].generation <= server'.generation
  BY <1>3, <1>4, <1>5 DEF SeenInv
<1>10. Numbered'
  BY <1>2, <1>4, <1>5, <1>6 DEF SeenInv, Numbered
<1>11. CopiesKept'
  BY <1>7, <1>8 DEF SeenInv, CopiesKept
<1>12. AcceptedAsShown'
  <2>1. \A i \in DOMAIN history : history[i] \in Captured
    BY <1>2 DEF Known
  <2> QED BY <1>4, <1>5, <2>1 DEF SeenInv, AcceptedAsShown
<1>13. PICK was : Witnessed(was)
  BY DEF SeenInv
<1>0. PICK now : now = [e \in Captured \cup {a} |-> IF e = a THEN pending ELSE was[e]]
  OBVIOUS
<1>14. now[a] = pending /\ (\A e \in Captured : now[e] = was[e])
       /\ now \in [Captured' -> SUBSET Captured']
  BY <1>0, <1>2, <1>3, <1>13 DEF Witnessed
<1>15. pending # {} => new.deps # {}
  <2>1. Len(actions) \in Nat /\ pending \in SUBSET (1..Len(actions))
    BY <1>2
  <2>2. pending # {} => \E e \in pending : \A f \in pending : f <= e
    BY <2>1, LastMember
  <2> QED BY <2>2
<1>16. Follows(now)'
  <2>0. Follows(was) /\ \A e \in Captured : was[e] \subseteq Captured
    BY <1>13 DEF Witnessed
  <2>1. \A b \in Captured' : \A e \in now[b] : e < b
    BY <1>2, <1>3, <1>14, <2>0 DEF Follows
  <2>2. \A b \in Captured' : actions'[b].deps = {e \in now[b] : \A f \in now[b] : f <= e}
    BY <1>3, <1>4, <1>14, <2>0 DEF Follows
  <2>3. \A b \in Captured' : now[b] # {} => actions'[b].deps # {}
    BY <1>3, <1>4, <1>14, <1>15, <2>0 DEF Follows
  <2>4. \A b \in Captured' : \A e, f \in now[b] : e < f => e \in now[f]
    BY <1>2, <1>3, <1>14, <2>0 DEF Follows
  <2>5. \A e, f \in pending' : e < f => e \in now[f]
    <3> SUFFICES ASSUME NEW e \in pending', NEW f \in pending', e < f PROVE e \in now[f]
      OBVIOUS
    <3>1. e # a
      BY <1>1, <1>2, <1>3
    <3>2. e \in pending
      BY <1>1, <3>1
    <3>3. CASE f = a
      BY <1>14, <3>2, <3>3
    <3>4. CASE f # a
      BY <1>1, <1>2, <1>14, <2>0, <3>2, <3>4 DEF Follows
    <3> QED BY <3>3, <3>4
  <2>6. \A b \in Captured' : b \in Known' => now[b] \subseteq Known'
    BY <1>2, <1>3, <1>5, <1>14, <2>0 DEF Follows
  <2> QED BY <2>1, <2>2, <2>3, <2>4, <2>5, <2>6 DEF Follows
<1>17. ASSUME NEW b \in Captured', actions'[b].kind = "offline" PROVE Composed(b, now[b])'
  <2>1. CASE b = a
    <3>1. PICK s \in Copies, shown \in SUBSET pending :
             /\ s.round = new.round /\ s.generation = new.generation
             /\ new.shown = s.known \cup shown
             /\ new.base = s.revision + Cardinality(shown)
             /\ \A c \in shown : /\ actions[c].kind = "offline" /\ actions[c].base >= s.revision
                                 /\ actions[c].round = new.round
      BY <1>4, <1>17, <2>1
    <3>2. s.revision \in Nat /\ s.known \in SUBSET Nat
      BY CopiesTyped DEF Copy
    <3>3. Kept(new.round, new.generation, s.revision, s.known)'
      BY <1>7, <3>1 DEF SeenInv, CopiesKept
    <3>4. \A c \in shown : actions'[c] = actions[c]
      BY <1>2, <1>4
    <3>5. /\ actions'[a].shown = s.known \cup shown
          /\ actions'[a].base = s.revision + Cardinality(shown)
          /\ \A c \in shown : /\ actions'[c].kind = "offline" /\ actions'[c].base >= s.revision
                              /\ actions'[c].round = actions'[a].round
      BY <1>4, <3>1, <3>4
    <3>6. shown \in SUBSET now[a]
      BY <1>14
    <3>7. Kept(actions[a].round, actions[a].generation, s.revision, s.known)'
      BY <1>4, <3>3 DEF Kept
    <3> QED BY <2>1, <3>2, <3>5, <3>6, <3>7 DEF Composed
  <2>2. CASE b \in Captured
    <3>1. Composed(b, was[b]) /\ actions'[b] = actions[b] /\ now[b] = was[b]
      BY <1>4, <1>13, <1>14, <1>17, <2>2 DEF Witnessed
    <3>2. PICK n \in Nat, known \in SUBSET Nat, shown \in SUBSET was[b] :
            /\ actions[b].shown = known \cup shown
            /\ actions[b].base = n + Cardinality(shown)
            /\ \A c \in shown : /\ actions[c].kind = "offline" /\ actions[c].base >= n
                                /\ actions[c].round = actions[b].round
            /\ Kept(actions[b].round, actions[b].generation, n, known)
      BY <3>1 DEF Composed
    <3>3. \A c \in shown : actions'[c] = actions[c]
      BY <1>4, <1>13, <2>2 DEF Witnessed
    <3>4. Kept(actions[b].round, actions[b].generation, n, known)'
      BY <1>5, <1>6, <3>1, <3>2 DEF Kept
    <3> QED BY <3>1, <3>2, <3>3, <3>4 DEF Composed
  <2> QED BY <1>3, <2>1, <2>2
<1>18. Witnessed(now)'
  BY <1>14, <1>16, <1>17 DEF Witnessed
<1> QED BY <1>9, <1>10, <1>11, <1>12, <1>18 DEF SeenInv

LEMMA CapturesSee ==
  ASSUME JournalInv, SeenInv, NEW t \in Tabs, CaptureOffline(t) \/ CaptureConnected(t)
  PROVE  SeenInv'
<1>0. server \in ServerRecord /\ Known \subseteq Nat
  BY SnapshotTyped DEF Copy
<1>1. CASE CaptureOffline(t)
  <2>1. PICK d \in download, a \in Slots :
          /\ \A e \in pending : actions[e].kind = "offline" /\ actions[e].round = d.round
          /\ Continues(d)
          /\ Record(a, [kind |-> "offline", round |-> d.round, generation |-> d.generation,
                        base |-> d.revision + Cardinality(Projected(d)),
                        deps |-> {e \in pending : \A f \in pending : f <= e},
                        shown |-> d.known \cup Projected(d)])
    BY <1>1 DEF CaptureOffline, Slots
  <2>2. d \in Copy /\ d \in Copies /\ d.generation <= server.generation
    BY DEF JournalInv, JournalTypes, InThePast, Copies
  <2>3. PICK shown \in SUBSET pending : shown = Projected(d)
    BY DEF Projected, Effects
  <2>4. Cardinality(shown) \in Nat /\ shown \subseteq Nat /\ pending \subseteq Nat
    BY PendingFinite
  <2> DEFINE new == [kind |-> "offline", round |-> d.round, generation |-> d.generation,
                     base |-> d.revision + Cardinality(shown),
                     deps |-> {e \in pending : \A f \in pending : f <= e},
                     shown |-> d.known \cup shown]
  <2>5. new \in ActionRecord
    <3>1. d.revision + Cardinality(shown) \in Nat
      BY <2>2, <2>4 DEF Copy
    <3>2. {e \in pending : \A f \in pending : f <= e} \in SUBSET Nat
          /\ d.known \cup shown \in SUBSET Nat
      BY <2>2, <2>4 DEF Copy
    <3> QED BY <2>2, <3>1, <3>2 DEF Copy, ActionRecord
  <2>6. Record(a, new)
    BY <2>1, <2>3
  <2>7. ASSUME NEW b \in shown
        PROVE  /\ actions[b].kind = "offline" /\ actions[b].round = d.round
               /\ actions[b].base >= d.revision
    <3>1. actions[b].base = d.revision + Cardinality({c \in Projected(d) : c < b})
      BY <2>1, <2>3 DEF Continues
    <3>2. {c \in Projected(d) : c < b} \in SUBSET pending
      BY <2>3
    <3>3. Cardinality({c \in Projected(d) : c < b}) \in Nat
      BY <3>2, PendingFinite
    <3>4. d.revision \in Nat
      BY <2>2 DEF Copy
    <3> QED BY <2>1, <3>1, <3>3, <3>4
  <2>8. /\ new.round = d.round /\ new.generation = d.generation
        /\ new.shown = d.known \cup shown
        /\ new.base = d.revision + Cardinality(shown)
        /\ new.deps = {e \in pending : \A f \in pending : f <= e}
    OBVIOUS
  <2> HIDE DEF new
  <2>9. \E s \in Copies, seen \in SUBSET pending :
          /\ s.round = new.round /\ s.generation = new.generation
          /\ new.shown = s.known \cup seen
          /\ new.base = s.revision + Cardinality(seen)
          /\ \A b \in seen : /\ actions[b].kind = "offline" /\ actions[b].base >= s.revision
                             /\ actions[b].round = new.round
    BY <2>2, <2>7, <2>8
  <2> QED BY <2>2, <2>5, <2>6, <2>8, <2>9, CaptureSeen
<1>2. CASE CaptureConnected(t)
  <2>1. PICK a \in Slots, kind \in {"connected", "takeover"} :
          /\ pending = {}
          /\ Record(a, [kind |-> kind, round |-> server.round, generation |-> server.generation,
                        base |-> server.revision, deps |-> {}, shown |-> Known])
    BY <1>2 DEF CaptureConnected, Slots
  <2> DEFINE new == [kind |-> kind, round |-> server.round, generation |-> server.generation,
                     base |-> server.revision, deps |-> {}, shown |-> Known]
  <2>2. new \in ActionRecord /\ Record(a, new)
    BY <1>0, <2>1 DEF ActionRecord, ServerRecord
  <2>3. new.kind # "offline" /\ new.generation = server.generation /\ new.deps = {}
    OBVIOUS
  <2>4. new.deps = {e \in pending : \A f \in pending : f <= e}
    BY <2>1, <2>3
  <2>5. server.generation \in Nat
    BY <1>0 DEF ServerRecord
  <2> HIDE DEF new
  <2> QED BY <2>2, <2>3, <2>4, <2>5, CaptureSeen
<1> QED BY <1>1, <1>2

LEMMA SeenStarts == JournalInit => SeenInv
<1> SUFFICES ASSUME JournalInit PROVE SeenInv
  OBVIOUS
<1>1. history = <<>> /\ actions = <<>> /\ pending = {} /\ download = {}
      /\ tab = [t \in Tabs |-> Idle]
  BY DEF JournalInit
<1>2. Captured = {} /\ DOMAIN history = {}
  BY <1>1 DEF Captured
<1>3. Known = {} /\ \A r : Work(r) = {}
  BY <1>1, <1>2 DEF Known, Work
<1>4. \A t \in Tabs : Held(t) = {}
  BY <1>1, IdleFacts DEF Held
<1>5. Copies = {}
  BY <1>1, <1>4 DEF Copies
<1>6. Numbered /\ CopiesKept /\ AcceptedAsShown
  BY <1>2, <1>3, <1>5 DEF Numbered, CopiesKept, AcceptedAsShown
<1>7. PICK was : was \in [Captured -> SUBSET Captured]
  <2>1. [e \in Captured |-> {}] \in [Captured -> SUBSET Captured]
    OBVIOUS
  <2> QED BY <2>1
<1>8. Witnessed(was)
  BY <1>1, <1>2, <1>7 DEF Witnessed, Follows
<1> QED BY <1>2, <1>6, <1>8 DEF SeenInv

LEMMA SeenSteps == JournalInv /\ SeenInv /\ [JournalNext]_journalVars => SeenInv'
<1> SUFFICES ASSUME JournalInv, SeenInv, [JournalNext]_journalVars PROVE SeenInv'
  OBVIOUS
<1>1. CASE \/ TakeOver \/ OtherWorks \/ EndRound \/ LateStart \/ OtherLeaves \/ BlockLostOwner
           \/ \E a \in wire : LateRequest(a)
           \/ \E account \in {"this", "other"} : Login(account)
           \/ UNCHANGED journalVars
  BY <1>1, WorldSees, SeenStays
<1>2. ASSUME NEW t \in Tabs,
             \/ CaptureOffline(t) \/ CaptureConnected(t)
             \/ \E mode \in {"replay", "start"} : BeginReplay(t, mode)
             \/ \E a \in Slots : SendDirectly(t, a)
             \/ Replay(t) \/ FailFirst(t) \/ BeginDownload(t)
             \/ PrepareExit(t) \/ BeginUpdate(t) \/ Die(t)
      PROVE  SeenInv'
  BY <1>2, CapturesSee, SeenGoesOn
<1> QED BY <1>1, <1>2 DEF JournalNext, Slots

(* What every capture was composed on: while its generation stands, what the *)
(* server accepted since its copy is the pending work it showed, one         *)
(* revision each (captureLocked, executionDependencies, the revision check). *)
THEOREM SeenInvariant == JournalSpec => []SeenInv
<1>1. JournalInit => SeenInv
  BY SeenStarts
<1>2. JournalInv /\ SeenInv /\ [JournalNext]_journalVars => SeenInv'
  BY SeenSteps
<1> QED BY <1>1, <1>2, JournalInvariant, PTL DEF JournalSpec

(* Offline work is accepted on exactly the state the driver saw when it was  *)
(* captured: all earlier accepted work, and nothing that was refused         *)
(* (preview, captureLocked, executionDependencies and the revision check).   *)
THEOREM AcceptedAsSeen == JournalSpec => []AcceptedAsShown
<1>1. SeenInv => AcceptedAsShown
  BY DEF SeenInv
<1> QED BY <1>1, SeenInvariant, PTL

-----------------------------------------------------------------------------
(* The preparation of a round (RoundPreparation).                            *)
-----------------------------------------------------------------------------
(* The inductive invariant.                                                  *)

Verdicts == {"none", "accepted", "refused"}

RevisionRecord == [mode : Modes, work : Nat, whole : BOOLEAN]

DraftRecord == [kind : {"save", "manual"}, mode : Modes, seen : Nat, result : Verdicts]

StartRecord ==
  [plan : Nat, shown : SUBSET Modes, result : Verdicts, on : Nat, known : BOOLEAN]

Phases == {"closed", "idle", "saving", "checking", "starting", "round"}

ScreenRecord ==
  [phase : Phases, draft : Modes, server : Modes, plan : Nat, seen : Nat, target : Nat,
   shown : SUBSET Modes]

StoredRecord == [draft : Modes, touched : BOOLEAN, drafted : Nat, start : Nat]

PrepTypes ==
  /\ choices \in [mode : Modes, from : Nat] /\ work \in Nat /\ trip \in Int
  /\ revisions \in Seq(RevisionRecord) /\ revisions # << >>
  /\ drafts \in Seq(DraftRecord) /\ starts \in Seq(StartRecord)
  /\ screen \in ScreenRecord /\ stored \in StoredRecord

PlanOf(n) == revisions[starts[n].plan]

(* The plan a page offers, asks for or has sent is one the driver saw.       *)
PlansSeen ==
  /\ screen.plan # None =>
       screen.plan \in DOMAIN revisions /\ revisions[screen.plan].mode = screen.server
  /\ screen.phase = "checking" =>
       screen.target \in DOMAIN revisions /\ revisions[screen.target].mode \in screen.shown
  /\ \A n \in DOMAIN starts :
       starts[n].plan \in DOMAIN revisions /\ PlanOf(n).mode \in starts[n].shown

(* The page keeps the one start it does not know the outcome of.             *)
StartsKept ==
  /\ trip \in DOMAIN starts => starts[trip].result # "none" /\ PlanOf(trip).work = starts[trip].on
  /\ \A n \in DOMAIN starts : ~starts[n].known => stored.start = n
  /\ stored.start # None => stored.start \in DOMAIN starts
  /\ screen.phase = "checking" => stored.start = None
  /\ screen.phase = "starting" =>
       screen.target \in DOMAIN starts /\ stored.start \in {None, screen.target}

PrepInv == PrepTypes /\ PlansSeen /\ StartsKept

-----------------------------------------------------------------------------
(* Records of which several fields change.                                   *)
LEMMA ScreenAims ==
  ASSUME NEW r \in ScreenRecord, NEW p \in Phases, NEW n \in Nat
  PROVE  [r EXCEPT !.phase = p, !.target = n] =
         [phase |-> p, draft |-> r.draft, server |-> r.server, plan |-> r.plan,
          seen |-> r.seen, target |-> n, shown |-> r.shown]
<1> DEFINE q1 == [r EXCEPT !.phase = p]
           q2 == [q1 EXCEPT !.target = n]
<1>1. q1 \in ScreenRecord /\ q1 = [phase |-> p, draft |-> r.draft, server |-> r.server, plan |-> r.plan,
        seen |-> r.seen, target |-> r.target, shown |-> r.shown]
  BY DEF ScreenRecord
<1> HIDE DEF q1
<1>2. q2 \in ScreenRecord /\ q2 = [phase |-> p, draft |-> r.draft, server |-> r.server, plan |-> r.plan,
        seen |-> r.seen, target |-> n, shown |-> r.shown]
  BY <1>1 DEF ScreenRecord
<1> HIDE DEF q2
<1>3. q2 = [r EXCEPT !.phase = p, !.target = n]
  BY DEF q1, q2
<1> QED BY <1>2, <1>3

LEMMA ScreenTurns ==
  ASSUME NEW r \in ScreenRecord, NEW p \in Phases, NEW n \in Nat, NEW S \in SUBSET Modes
  PROVE  [r EXCEPT !.phase = p, !.target = n, !.shown = S] =
         [phase |-> p, draft |-> r.draft, server |-> r.server, plan |-> r.plan,
          seen |-> r.seen, target |-> n, shown |-> S]
<1> DEFINE q1 == [r EXCEPT !.phase = p]
           q2 == [q1 EXCEPT !.target = n]
           q3 == [q2 EXCEPT !.shown = S]
<1>1. q1 \in ScreenRecord /\ q1 = [phase |-> p, draft |-> r.draft, server |-> r.server, plan |-> r.plan,
        seen |-> r.seen, target |-> r.target, shown |-> r.shown]
  BY DEF ScreenRecord
<1> HIDE DEF q1
<1>2. q2 \in ScreenRecord /\ q2 = [phase |-> p, draft |-> r.draft, server |-> r.server, plan |-> r.plan,
        seen |-> r.seen, target |-> n, shown |-> r.shown]
  BY <1>1 DEF ScreenRecord
<1> HIDE DEF q2
<1>3. q3 \in ScreenRecord /\ q3 = [phase |-> p, draft |-> r.draft, server |-> r.server, plan |-> r.plan,
        seen |-> r.seen, target |-> n, shown |-> S]
  BY <1>2 DEF ScreenRecord
<1> HIDE DEF q3
<1>4. q3 = [r EXCEPT !.phase = p, !.target = n, !.shown = S]
  BY DEF q1, q2, q3
<1> QED BY <1>3, <1>4

LEMMA StoredEdits ==
  ASSUME NEW r \in StoredRecord, NEW d \in Modes, NEW b \in BOOLEAN, NEW n \in Nat
  PROVE  [r EXCEPT !.draft = d, !.touched = b, !.drafted = n] =
         [draft |-> d, touched |-> b, drafted |-> n, start |-> r.start]
<1> DEFINE q1 == [r EXCEPT !.draft = d]
           q2 == [q1 EXCEPT !.touched = b]
           q3 == [q2 EXCEPT !.drafted = n]
<1>1. q1 \in StoredRecord /\ q1 = [draft |-> d, touched |-> r.touched, drafted |-> r.drafted, start |-> r.start]
  BY DEF StoredRecord
<1> HIDE DEF q1
<1>2. q2 \in StoredRecord /\ q2 = [draft |-> d, touched |-> b, drafted |-> r.drafted, start |-> r.start]
  BY <1>1 DEF StoredRecord
<1> HIDE DEF q2
<1>3. q3 \in StoredRecord /\ q3 = [draft |-> d, touched |-> b, drafted |-> n, start |-> r.start]
  BY <1>2 DEF StoredRecord
<1> HIDE DEF q3
<1>4. q3 = [r EXCEPT !.draft = d, !.touched = b, !.drafted = n]
  BY DEF q1, q2, q3
<1> QED BY <1>3, <1>4

LEMMA StoredClears ==
  ASSUME NEW r \in StoredRecord, NEW n \in Nat, NEW b \in BOOLEAN, NEW d \in Modes
  PROVE  [r EXCEPT !.drafted = n, !.touched = b, !.draft = d] =
         [draft |-> d, touched |-> b, drafted |-> n, start |-> r.start]
<1> DEFINE q1 == [r EXCEPT !.drafted = n]
           q2 == [q1 EXCEPT !.touched = b]
           q3 == [q2 EXCEPT !.draft = d]
<1>1. q1 \in StoredRecord /\ q1 = [draft |-> r.draft, touched |-> r.touched, drafted |-> n, start |-> r.start]
  BY DEF StoredRecord
<1> HIDE DEF q1
<1>2. q2 \in StoredRecord /\ q2 = [draft |-> r.draft, touched |-> b, drafted |-> n, start |-> r.start]
  BY <1>1 DEF StoredRecord
<1> HIDE DEF q2
<1>3. q3 \in StoredRecord /\ q3 = [draft |-> d, touched |-> b, drafted |-> n, start |-> r.start]
  BY <1>2 DEF StoredRecord
<1> HIDE DEF q3
<1>4. q3 = [r EXCEPT !.drafted = n, !.touched = b, !.draft = d]
  BY DEF q1, q2, q3
<1> QED BY <1>3, <1>4

LEMMA StartKnows ==
  ASSUME NEW r \in StartRecord, NEW b \in BOOLEAN
  PROVE  [r EXCEPT !.known = b] =
         [plan |-> r.plan, shown |-> r.shown, result |-> r.result, on |-> r.on, known |-> b]
BY DEF StartRecord

LEMMA StartResults ==
  ASSUME NEW r \in StartRecord, NEW v \in Verdicts
  PROVE  [r EXCEPT !.result = v] =
         [plan |-> r.plan, shown |-> r.shown, result |-> v, on |-> r.on, known |-> r.known]
BY DEF StartRecord

LEMMA StartOn ==
  ASSUME NEW r \in StartRecord, NEW k \in Nat
  PROVE  [r EXCEPT !.on = k] =
         [plan |-> r.plan, shown |-> r.shown, result |-> r.result, on |-> k, known |-> r.known]
BY DEF StartRecord

LEMMA SequenceSet ==
  ASSUME NEW R, NEW S \in Seq(R), NEW n \in DOMAIN S, NEW x \in R, NEW T, T = [S EXCEPT ![n] = x]
  PROVE  /\ T \in Seq(R) /\ DOMAIN T = DOMAIN S /\ T[n] = x
         /\ \A i \in DOMAIN S : i # n => T[i] = S[i]
OBVIOUS

LEMMA StartLearnt ==
  ASSUME starts \in Seq(StartRecord), NEW n \in DOMAIN starts, Learnt(n)
  PROVE  /\ starts' \in Seq(StartRecord) /\ DOMAIN starts' = DOMAIN starts
         /\ \A i \in DOMAIN starts : i # n => starts'[i] = starts[i]
         /\ starts'[n].known /\ starts'[n].plan = starts[n].plan /\ starts'[n].shown = starts[n].shown
         /\ starts'[n].result = starts[n].result /\ starts'[n].on = starts[n].on
<1> DEFINE T == [starts EXCEPT ![n].known = TRUE]
           new == [starts[n] EXCEPT !.known = TRUE]
<1>1. starts[n] \in StartRecord
  OBVIOUS
<1>2. new = [plan |-> starts[n].plan, shown |-> starts[n].shown, result |-> starts[n].result, on |-> starts[n].on,
             known |-> TRUE]
  BY <1>1, StartKnows
<1>3. T = [starts EXCEPT ![n] = new]
  OBVIOUS
<1> HIDE DEF new, T
<1>4. new \in StartRecord
  BY <1>1, <1>2 DEF StartRecord
<1>5. new.known = TRUE /\ new.plan = starts[n].plan /\ new.shown = starts[n].shown
      /\ new.result = starts[n].result /\ new.on = starts[n].on
  BY <1>2
<1>6. T \in Seq(StartRecord) /\ DOMAIN T = DOMAIN starts /\ T[n] = new
      /\ \A i \in DOMAIN starts : i # n => T[i] = starts[i]
  BY <1>3, <1>4, SequenceSet
<1>7. /\ T \in Seq(StartRecord) /\ DOMAIN T = DOMAIN starts
      /\ \A i \in DOMAIN starts : i # n => T[i] = starts[i]
      /\ T[n].known /\ T[n].plan = starts[n].plan /\ T[n].shown = starts[n].shown
      /\ T[n].result = starts[n].result /\ T[n].on = starts[n].on
  BY <1>5, <1>6
<1>8. T = starts'
  BY DEF T, Learnt
<1> QED BY <1>7, <1>8

LEMMA StartDecided ==
  ASSUME starts \in Seq(StartRecord), work \in Nat, NEW n \in DOMAIN starts,
         NEW v \in Verdicts, Decided(n, v)
  PROVE  /\ starts' \in Seq(StartRecord) /\ DOMAIN starts' = DOMAIN starts
         /\ \A i \in DOMAIN starts : i # n => starts'[i] = starts[i]
         /\ starts'[n].known = starts[n].known /\ starts'[n].plan = starts[n].plan /\ starts'[n].shown = starts[n].shown
         /\ starts'[n].result = v /\ starts'[n].on = work
<1> DEFINE T == [starts EXCEPT ![n].result = v, ![n].on = work]
           U == [starts EXCEPT ![n].result = v]
           new == [starts[n] EXCEPT !.result = v]
           newer == [U[n] EXCEPT !.on = work]
<1>1. starts[n] \in StartRecord
  OBVIOUS
<1>2. new = [plan |-> starts[n].plan, shown |-> starts[n].shown, result |-> v, on |-> starts[n].on,
             known |-> starts[n].known]
  BY <1>1, StartResults
<1>3. U = [starts EXCEPT ![n] = new]
  OBVIOUS
<1>4. T = [U EXCEPT ![n] = newer]
  OBVIOUS
<1> HIDE DEF new, U, T
<1>5. new \in StartRecord /\ new.plan = starts[n].plan /\ new.shown = starts[n].shown
      /\ new.result = v /\ new.known = starts[n].known
  BY <1>1, <1>2 DEF StartRecord
<1>6. U \in Seq(StartRecord) /\ DOMAIN U = DOMAIN starts /\ U[n] = new
      /\ \A i \in DOMAIN starts : i # n => U[i] = starts[i]
  BY <1>3, <1>5, SequenceSet
<1>7. U[n] \in StartRecord
  BY <1>5, <1>6
<1>8. newer = [plan |-> U[n].plan, shown |-> U[n].shown, result |-> U[n].result, on |-> work,
               known |-> U[n].known]
  BY <1>7, StartOn
<1> HIDE DEF newer
<1>9. newer \in StartRecord /\ newer.plan = starts[n].plan /\ newer.shown = starts[n].shown
      /\ newer.result = v /\ newer.known = starts[n].known /\ newer.on = work
  BY <1>5, <1>6, <1>7, <1>8 DEF StartRecord
<1>10. T \in Seq(StartRecord) /\ DOMAIN T = DOMAIN U /\ T[n] = newer
       /\ \A i \in DOMAIN U : i # n => T[i] = U[i]
  BY <1>4, <1>6, <1>9, SequenceSet
<1>11. /\ T \in Seq(StartRecord) /\ DOMAIN T = DOMAIN starts
       /\ \A i \in DOMAIN starts : i # n => T[i] = starts[i]
       /\ T[n].known = starts[n].known /\ T[n].plan = starts[n].plan /\ T[n].shown = starts[n].shown
       /\ T[n].result = v /\ T[n].on = work
  BY <1>6, <1>9, <1>10
<1>12. T = starts'
  BY DEF T, Decided
<1> QED BY <1>11, <1>12

-----------------------------------------------------------------------------
(* The server: plans are appended, starts and pages stay.                    *)
LEMMA ServerKeeps ==
  ASSUME PrepInv, choices' \in [mode : Modes, from : Nat], work' \in Nat,
         revisions' \in Seq(RevisionRecord), revisions' # << >>, drafts' \in Seq(DraftRecord),
         \A n \in DOMAIN revisions : n \in DOMAIN revisions' /\ revisions'[n] = revisions[n],
         UNCHANGED <<starts, screen, stored>>, trip' \in {trip, Elsewhere}
  PROVE  PrepInv'
<1>1. starts' = starts /\ screen' = screen /\ stored' = stored /\ starts \in Seq(StartRecord)
  BY DEF PrepInv, PrepTypes
<1>2. PrepTypes'
  BY <1>1 DEF PrepInv, PrepTypes, Elsewhere
<1>3. \A n \in DOMAIN starts : PlanOf(n)' = PlanOf(n)
  BY <1>1 DEF PlanOf, PrepInv, PlansSeen
<1>4. PlansSeen'
  BY <1>1, <1>3 DEF PrepInv, PlansSeen
<1>5. DOMAIN starts = 1..Len(starts) /\ Len(starts) \in Nat
  BY <1>1
<1>6. Elsewhere \notin DOMAIN starts
  BY <1>5 DEF Elsewhere
<1>7. StartsKept'
  BY <1>1, <1>3, <1>6 DEF PrepInv, StartsKept
<1> QED BY <1>2, <1>4, <1>7 DEF PrepInv

LEMMA Appended ==
  ASSUME PrepInv, NEW mode \in Modes, NEW n \in Nat, NEW whole \in BOOLEAN,
         Published(mode, n, whole)
  PROVE  /\ revisions' \in Seq(RevisionRecord) /\ revisions' # << >>
         /\ \A k \in DOMAIN revisions : k \in DOMAIN revisions' /\ revisions'[k] = revisions[k]
<1> DEFINE new == [mode |-> mode, work |-> n, whole |-> whole]
<1>1. new \in RevisionRecord /\ revisions \in Seq(RevisionRecord)
      /\ revisions' = Append(revisions, new)
  BY DEF RevisionRecord, PrepInv, PrepTypes, Published
<1> HIDE DEF new
<1>2. revisions' \in Seq(RevisionRecord) /\ Len(revisions') = Len(revisions) + 1
      /\ Len(revisions) \in Nat /\ DOMAIN revisions = 1..Len(revisions)
      /\ DOMAIN revisions' = 1..Len(revisions')
  BY <1>1
<1>3. revisions' # << >>
  BY <1>2
<1>4. \A k \in DOMAIN revisions : k \in DOMAIN revisions' /\ revisions'[k] = revisions[k]
  BY <1>1, <1>2
<1> QED BY <1>2, <1>3, <1>4

LEMMA ServerSteps ==
  ASSUME PrepInv, WorkChanges \/ StartElsewhere \/ (\E mode \in Modes : SaveElsewhere(mode))
                  \/ \E whole \in BOOLEAN : PlanPublished(whole)
  PROVE  PrepInv'
<1>0. choices \in [mode : Modes, from : Nat] /\ work \in Nat /\ work + 1 \in Nat
      /\ revisions \in Seq(RevisionRecord) /\ revisions # << >> /\ drafts \in Seq(DraftRecord)
  BY DEF PrepInv, PrepTypes
<1>1. CASE WorkChanges
  BY <1>0, <1>1, ServerKeeps DEF WorkChanges
<1>2. CASE StartElsewhere
  BY <1>0, <1>2, ServerKeeps DEF StartElsewhere
<1>3. ASSUME NEW mode \in Modes, SaveElsewhere(mode) PROVE PrepInv'
  <2>1. choices' = [mode |-> mode, from |-> work'] /\ work' = work + 1
        /\ UNCHANGED <<revisions, trip, drafts, starts, screen, stored>>
    BY <1>3 DEF SaveElsewhere
  <2> QED BY <1>0, <2>1, ServerKeeps
<1>4. ASSUME NEW whole \in BOOLEAN, PlanPublished(whole) PROVE PrepInv'
  <2>1. Published(choices.mode, work, whole)
        /\ UNCHANGED <<choices, work, trip, drafts, starts, screen, stored>>
    BY <1>4 DEF PlanPublished
  <2>2. choices.mode \in Modes
    BY <1>0
  <2> QED BY <1>0, <2>1, <2>2, Appended, ServerKeeps
<1> QED BY <1>1, <1>2, <1>3, <1>4

LEMMA DraftHandled ==
  ASSUME PrepInv, NEW n \in DOMAIN drafts, HandleDraft(n)
  PROVE  PrepInv'
<1>0. choices \in [mode : Modes, from : Nat] /\ work \in Nat /\ work + 1 \in Nat
      /\ revisions \in Seq(RevisionRecord) /\ revisions # << >> /\ drafts \in Seq(DraftRecord)
      /\ drafts[n] \in DraftRecord /\ choices.mode \in Modes
  BY DEF PrepInv, PrepTypes
<1>1. PICK v \in Verdicts : drafts' = [drafts EXCEPT ![n].result = v]
  BY DEF HandleDraft, Verdicts
<1>2. drafts' \in Seq(DraftRecord)
  <2> DEFINE new == [drafts[n] EXCEPT !.result = v]
  <2>1. new = [kind |-> drafts[n].kind, mode |-> drafts[n].mode, seen |-> drafts[n].seen,
               result |-> v]
    BY <1>0 DEF DraftRecord
  <2>2. new \in DraftRecord
    BY <1>0, <2>1 DEF DraftRecord
  <2>3. drafts' = [drafts EXCEPT ![n] = new]
    BY <1>1
  <2> HIDE DEF new
  <2> QED BY <1>0, <2>2, <2>3
<1>3. UNCHANGED <<trip, starts, screen, stored>>
  BY DEF HandleDraft
<1>4. \/ UNCHANGED <<choices, work, revisions>>
      \/ work' = work + 1 /\ Published(choices.mode, work', TRUE) /\ UNCHANGED choices
      \/ work' = work + 1 /\ choices' = [mode |-> drafts[n].mode, from |-> work']
         /\ UNCHANGED revisions
  BY DEF HandleDraft
<1>5. CASE UNCHANGED <<choices, work, revisions>>
  BY <1>0, <1>2, <1>3, <1>5, ServerKeeps
<1>6. CASE work' = work + 1 /\ Published(choices.mode, work', TRUE) /\ UNCHANGED choices
  BY <1>0, <1>2, <1>3, <1>6, Appended, ServerKeeps
<1>7. CASE work' = work + 1 /\ choices' = [mode |-> drafts[n].mode, from |-> work']
           /\ UNCHANGED revisions
  <2>1. drafts[n].mode \in Modes
    BY <1>0 DEF DraftRecord
  <2> QED BY <1>0, <1>2, <1>3, <1>7, <2>1, ServerKeeps
<1> QED BY <1>4, <1>5, <1>6, <1>7

(* A start is decided once, on the work it was planned for.                  *)
LEMMA StartHandled ==
  ASSUME PrepInv, NEW n \in DOMAIN starts, NEW live \in BOOLEAN, HandleStart(n, live)
  PROVE  PrepInv'
<1>0. work \in Nat /\ work + 1 \in Nat /\ starts \in Seq(StartRecord) /\ trip \in Int
      /\ DOMAIN starts = 1..Len(starts) /\ Len(starts) \in Nat
  BY DEF PrepInv, PrepTypes
<1>1. PICK v \in {"accepted", "refused"} :
        Decided(n, v)
  BY DEF HandleStart
<1>2. v \in Verdicts
  BY DEF Verdicts
<1>3. /\ starts' \in Seq(StartRecord) /\ DOMAIN starts' = DOMAIN starts
      /\ \A i \in DOMAIN starts : i # n => starts'[i] = starts[i]
      /\ starts'[n].known = starts[n].known /\ starts'[n].plan = starts[n].plan
      /\ starts'[n].shown = starts[n].shown
      /\ starts'[n].result = v /\ starts'[n].on = work
  <2>1. starts \in Seq(StartRecord) /\ work \in Nat
    BY <1>0
  <2> QED BY <2>1, <1>1, <1>2, StartDecided
<1>4. UNCHANGED <<choices, revisions, drafts, screen, stored>> /\ starts[n].result = "none"
  BY DEF HandleStart
<1>5. \/ trip' = n /\ work' = work + 1 /\ Startable(starts[n].plan)
      \/ UNCHANGED <<trip, work>>
  BY DEF HandleStart
<1>6. PrepTypes'
  BY <1>0, <1>3, <1>4, <1>5 DEF PrepInv, PrepTypes
<1>7. \A i \in DOMAIN starts : PlanOf(i)' = PlanOf(i)
  BY <1>3, <1>4 DEF PlanOf
<1>8. PlansSeen'
  BY <1>3, <1>4, <1>7 DEF PrepInv, PlansSeen
<1>9. trip' \in DOMAIN starts =>
        starts'[trip'].result # "none" /\ revisions'[starts'[trip'].plan].work = starts'[trip'].on
  <2>1. CASE trip' = n /\ Startable(starts[n].plan)
    <3>1. PlanOf(n).work = work
      BY <2>1 DEF Startable, PlanOf
    <3> QED BY <1>3, <1>7, <2>1, <3>1 DEF PlanOf
  <2>2. CASE trip' = trip
    <3>1. trip \in DOMAIN starts => trip # n
      BY <1>4 DEF PrepInv, StartsKept
    <3> QED BY <1>3, <1>7, <2>2, <3>1 DEF PrepInv, StartsKept, PlanOf
  <2> QED BY <1>5, <2>1, <2>2
<1>10. StartsKept'
  BY <1>3, <1>4, <1>9 DEF PrepInv, StartsKept, PlanOf
<1> QED BY <1>6, <1>8, <1>10 DEF PrepInv

-----------------------------------------------------------------------------
(* The page: the server stays as it is.                                      *)
ScreenSound(scr, held) ==
  /\ scr.plan # None =>
       scr.plan \in DOMAIN revisions /\ revisions[scr.plan].mode = scr.server
  /\ scr.phase = "checking" =>
       /\ scr.target \in DOMAIN revisions /\ revisions[scr.target].mode \in scr.shown
       /\ held = None
  /\ scr.phase = "starting" => scr.target \in DOMAIN starts /\ held \in {None, scr.target}

LEMMA SoundScreen == PrepInv => ScreenSound(screen, stored.start)
BY DEF PrepInv, PlansSeen, StartsKept, ScreenSound

LEMMA PageKeeps ==
  ASSUME PrepInv, UNCHANGED <<Server, starts>>, drafts' \in Seq(DraftRecord),
         screen' \in ScreenRecord, stored' \in StoredRecord, stored'.start = stored.start,
         ScreenSound(screen', stored.start)
  PROVE  PrepInv'
<1>1. UNCHANGED <<choices, work, revisions, trip, starts>>
  BY DEF Server
<1>2. PrepTypes'
  BY <1>1 DEF PrepInv, PrepTypes
<1>3. \A n \in DOMAIN starts : PlanOf(n)' = PlanOf(n)
  BY <1>1 DEF PlanOf
<1>4. PlansSeen'
  BY <1>1, <1>3 DEF PrepInv, PlansSeen, ScreenSound
<1>5. StartsKept'
  BY <1>1, <1>3 DEF PrepInv, StartsKept, ScreenSound
<1> QED BY <1>2, <1>4, <1>5 DEF PrepInv

(* The outcome of the one start the page did not know is learnt.             *)
LEMMA PageLearns ==
  ASSUME PrepInv, UNCHANGED <<Server, drafts>>, NEW n \in DOMAIN starts, Learnt(n),
         stored.start \in {None, n}, screen' \in ScreenRecord, stored' \in StoredRecord,
         stored'.start = None, ScreenSound(screen', None)
  PROVE  PrepInv'
<1>1. UNCHANGED <<choices, work, revisions, trip, drafts>>
  BY DEF Server
<1>0. starts \in Seq(StartRecord)
  BY DEF PrepInv, PrepTypes
<1>2. /\ starts' \in Seq(StartRecord) /\ DOMAIN starts' = DOMAIN starts
      /\ \A i \in DOMAIN starts : i # n => starts'[i] = starts[i]
      /\ starts'[n].known /\ starts'[n].plan = starts[n].plan
      /\ starts'[n].shown = starts[n].shown
      /\ starts'[n].result = starts[n].result /\ starts'[n].on = starts[n].on
  BY <1>0, StartLearnt
<1>3. PrepTypes'
  BY <1>1, <1>2 DEF PrepInv, PrepTypes
<1>4. \A i \in DOMAIN starts : PlanOf(i)' = PlanOf(i)
  BY <1>1, <1>2 DEF PlanOf
<1>5. PlansSeen'
  BY <1>1, <1>2, <1>4 DEF PrepInv, PlansSeen, ScreenSound
<1>6. \A i \in DOMAIN starts : i # n => starts[i].known
  BY DEF PrepInv, StartsKept, PrepTypes, None
<1>7. \A i \in DOMAIN starts' : starts'[i].known
  BY <1>2, <1>6
<1>8. StartsKept'
  BY <1>1, <1>2, <1>4, <1>7 DEF PrepInv, StartsKept, ScreenSound
<1> QED BY <1>3, <1>5, <1>8 DEF PrepInv

LEMMA Types ==
  PrepInv => /\ starts \in Seq(StartRecord) /\ drafts \in Seq(DraftRecord)
             /\ revisions \in Seq(RevisionRecord) /\ revisions # << >> /\ work \in Nat
             /\ screen \in ScreenRecord /\ stored \in StoredRecord
             /\ Len(revisions) \in Nat /\ Len(starts) \in Nat /\ Len(drafts) \in Nat
             /\ Len(revisions) \in DOMAIN revisions /\ DOMAIN starts = 1..Len(starts)
             /\ DOMAIN drafts = 1..Len(drafts) /\ DOMAIN revisions = 1..Len(revisions)
BY DEF PrepInv, PrepTypes

LEMMA ClosedScreens ==
  ASSUME NEW held \in Nat
  PROVE  /\ Closed \in ScreenRecord /\ ScreenSound(Closed, held)
         /\ [Closed EXCEPT !.phase = "round"] \in ScreenRecord
         /\ ScreenSound([Closed EXCEPT !.phase = "round"], held)
BY DEF Closed, ScreenRecord, Phases, Modes, None, ScreenSound

LEMMA ReloadKeeps ==
  ASSUME PrepInv, Reload
  PROVE  PrepInv'
<1>1. UNCHANGED <<Server, drafts, starts, stored>> /\ screen' = Closed
  BY DEF Reload
<1>2. stored.start \in Nat
  BY Types DEF StoredRecord
<1>3. screen' \in ScreenRecord /\ ScreenSound(screen', stored.start)
  BY <1>1, <1>2, ClosedScreens
<1>4. drafts' \in Seq(DraftRecord) /\ stored' \in StoredRecord /\ stored'.start = stored.start
  BY <1>1, Types
<1> QED BY <1>1, <1>3, <1>4, PageKeeps

LEMMA EditKeeps ==
  ASSUME PrepInv, NEW mode \in Modes, Edit(mode)
  PROVE  PrepInv'
<1> DEFINE scr == [screen EXCEPT !.draft = mode]
           sto == [stored EXCEPT !.draft = mode, !.touched = TRUE, !.drafted = None]
<1>1. screen' = scr /\ stored' = sto /\ UNCHANGED <<Server, drafts, starts>>
  BY DEF Edit
<1>2. screen \in ScreenRecord /\ stored \in StoredRecord /\ drafts \in Seq(DraftRecord)
  BY Types
<1>3. scr = [phase |-> screen.phase, draft |-> mode, server |-> screen.server,
             plan |-> screen.plan, seen |-> screen.seen, target |-> screen.target,
             shown |-> screen.shown]
  BY <1>2 DEF ScreenRecord
<1>4. sto = [draft |-> mode, touched |-> TRUE, drafted |-> None, start |-> stored.start]
  <2>1. None \in Nat
    BY DEF None
  <2> QED BY <1>2, <2>1, StoredEdits
<1> HIDE DEF scr, sto
<1>5. scr \in ScreenRecord /\ sto \in StoredRecord /\ sto.start = stored.start
  BY <1>2, <1>3, <1>4 DEF ScreenRecord, StoredRecord, None
<1>6. ScreenSound(scr, stored.start)
  BY <1>3, SoundScreen DEF ScreenSound
<1> QED BY <1>1, <1>2, <1>5, <1>6, PageKeeps

(* The stored command, or a new one: only the screen and the drafts change.  *)
LEMMA DraftSent ==
  ASSUME PrepInv, NEW kind \in {"save", "manual"}, SendDraft(kind)
  PROVE  PrepInv'
<1>1. PICK n \in Nat : /\ screen' = [screen EXCEPT !.phase = "saving", !.target = n]
                       /\ stored' = [stored EXCEPT !.drafted = n]
  <2>1. stored.drafted \in Nat /\ Len(drafts) + 1 \in Nat
    BY Types DEF StoredRecord
  <2> QED BY <2>1 DEF SendDraft
<1>2. drafts' \in Seq(DraftRecord)
  <2> DEFINE new == [kind |-> kind, mode |-> screen.draft, seen |-> screen.seen,
                     result |-> "none"]
  <2>1. new \in DraftRecord
    BY Types DEF DraftRecord, ScreenRecord, Verdicts
  <2>2. drafts' = drafts \/ drafts' = Append(drafts, new)
    BY DEF SendDraft
  <2> HIDE DEF new
  <2>3. drafts \in Seq(DraftRecord)
    BY Types
  <2> QED BY <2>1, <2>2, <2>3
<1>3. screen \in ScreenRecord /\ stored \in StoredRecord /\ "saving" \in Phases
  BY Types DEF Phases
<1>4. screen' = [phase |-> "saving", draft |-> screen.draft, server |-> screen.server,
                 plan |-> screen.plan, seen |-> screen.seen, target |-> n,
                 shown |-> screen.shown]
  BY <1>1, <1>3, ScreenAims
<1>5. stored' \in StoredRecord /\ stored'.start = stored.start
  BY <1>1, <1>3 DEF StoredRecord
<1>6. screen' \in ScreenRecord
  BY <1>3, <1>4 DEF ScreenRecord
<1>7. ScreenSound(screen', stored.start)
  BY <1>4, SoundScreen DEF ScreenSound
<1>8. UNCHANGED <<Server, starts>>
  BY DEF SendDraft
<1> QED BY <1>2, <1>5, <1>6, <1>7, <1>8, PageKeeps

LEMMA DraftKnown ==
  ASSUME PrepInv, DraftAnswered
  PROVE  PrepInv'
<1>1. screen \in ScreenRecord /\ stored \in StoredRecord /\ drafts \in Seq(DraftRecord)
      /\ "idle" \in Phases /\ None \in Nat /\ "car" \in Modes
  BY Types DEF Phases, None, Modes
<1>2. screen' = [screen EXCEPT !.phase = "idle", !.target = None]
      /\ UNCHANGED <<Server, drafts, starts>>
  BY DEF DraftAnswered
<1>3. screen' = [phase |-> "idle", draft |-> screen.draft, server |-> screen.server,
                 plan |-> screen.plan, seen |-> screen.seen, target |-> None,
                 shown |-> screen.shown]
  BY <1>1, <1>2, ScreenAims
<1>4. stored' \in StoredRecord /\ stored'.start = stored.start
  <2>1. CASE stored' = stored
    BY <1>1, <2>1
  <2>2. CASE stored' = [stored EXCEPT !.drafted = None, !.touched = FALSE, !.draft = "car"]
    <3>1. stored' = [draft |-> "car", touched |-> FALSE, drafted |-> None,
                     start |-> stored.start]
      BY <1>1, <2>2, StoredClears
    <3> QED BY <1>1, <3>1 DEF StoredRecord
  <2> QED BY <2>1, <2>2 DEF DraftAnswered
<1>5. screen' \in ScreenRecord
  BY <1>1, <1>3 DEF ScreenRecord
<1>6. ScreenSound(screen', stored.start)
  BY <1>3, SoundScreen DEF ScreenSound
<1>7. drafts' \in Seq(DraftRecord)
  BY <1>1, <1>2
<1> QED BY <1>2, <1>4, <1>5, <1>6, <1>7, PageKeeps

(* What the driver sees when pressing the button: the mode of the plan, also  *)
(* when an accepted command left a draft on the screen.                       *)
LEMMA StartClicked ==
  ASSUME PrepInv, ClickStart
  PROVE  PrepInv'
<1> DEFINE S == IF Slipped THEN Modes ELSE {screen.draft}
<1>1. screen \in ScreenRecord /\ "checking" \in Phases /\ screen.plan \in Nat
      /\ screen.draft \in Modes /\ screen.server \in Modes
  BY Types DEF Phases, ScreenRecord
<1>2. S \in SUBSET Modes
  BY <1>1
<1>3. screen' = [screen EXCEPT !.phase = "checking", !.target = screen.plan, !.shown = S]
      /\ UNCHANGED <<Server, drafts, starts, stored>> /\ stored.start = None
      /\ screen.plan # None /\ ~Dirty
  BY DEF ClickStart
<1>4. screen.server \in S
  <2>1. ~Slipped => screen.draft = screen.server
    BY <1>3 DEF Dirty, Slipped
  <2> QED BY <1>1, <2>1
<1> HIDE DEF S
<1>5. screen' = [phase |-> "checking", draft |-> screen.draft, server |-> screen.server,
                 plan |-> screen.plan, seen |-> screen.seen, target |-> screen.plan,
                 shown |-> S]
  BY <1>1, <1>2, <1>3, ScreenTurns
<1>6. screen' \in ScreenRecord
  BY <1>1, <1>2, <1>5 DEF ScreenRecord
<1>7. ScreenSound(screen', stored.start)
  BY <1>3, <1>4, <1>5, SoundScreen DEF ScreenSound
<1>8. drafts' \in Seq(DraftRecord) /\ stored' \in StoredRecord /\ stored'.start = stored.start
  BY <1>3, Types
<1> QED BY <1>3, <1>6, <1>7, <1>8, PageKeeps

(* A start is sent when every earlier one is known.                          *)
LEMMA StartSent ==
  ASSUME PrepInv, SendStart
  PROVE  PrepInv'
<1> DEFINE new == [plan |-> screen.target, shown |-> screen.shown, result |-> "none",
                   on |-> 0, known |-> FALSE]
           k == Len(starts) + 1
<1>0. screen \in ScreenRecord /\ stored \in StoredRecord /\ starts \in Seq(StartRecord)
      /\ Len(starts) \in Nat /\ k \in Nat /\ "starting" \in Phases /\ {} \in SUBSET Modes
      /\ DOMAIN starts = 1..Len(starts)
  BY Types DEF Phases
<1>1. screen.phase = "checking" /\ starts' = Append(starts, new)
      /\ UNCHANGED <<choices, work, revisions, trip, drafts>> /\ trip = None
  BY DEF SendStart, Server
<1>2. new \in StartRecord
  BY <1>0 DEF ScreenRecord, StartRecord, Verdicts
<1>3. new.plan = screen.target /\ new.shown = screen.shown
  OBVIOUS
<1>4. /\ screen' = [screen EXCEPT !.phase = "starting", !.target = Len(starts'), !.shown = {}]
      /\ stored' = [stored EXCEPT !.start = Len(starts')]
  BY DEF SendStart
<1> HIDE DEF new
<1>5. starts' \in Seq(StartRecord) /\ Len(starts') = k /\ DOMAIN starts' = 1..k
      /\ starts'[k] = new /\ \A i \in DOMAIN starts : starts'[i] = starts[i]
  BY <1>0, <1>1, <1>2
<1>6. screen' = [phase |-> "starting", draft |-> screen.draft, server |-> screen.server,
                 plan |-> screen.plan, seen |-> screen.seen, target |-> k,
                 shown |-> {}]
  <2>1. screen' = [screen EXCEPT !.phase = "starting", !.target = k, !.shown = {}]
    BY <1>4, <1>5
  <2> QED BY <1>0, <2>1, ScreenTurns
<1>7. screen' \in ScreenRecord
  BY <1>0, <1>6 DEF ScreenRecord
<1>8. stored' \in StoredRecord /\ stored'.start = k
  BY <1>0, <1>4, <1>5 DEF StoredRecord
<1>9. PrepTypes'
  BY <1>1, <1>5, <1>7, <1>8 DEF PrepInv, PrepTypes
<1>10. \A i \in DOMAIN starts : PlanOf(i)' = PlanOf(i)
  BY <1>1, <1>5 DEF PlanOf
<1>11. screen.target \in DOMAIN revisions /\ revisions[screen.target].mode \in screen.shown
       /\ stored.start = None
  BY <1>1 DEF PrepInv, PlansSeen, StartsKept
<1>12. DOMAIN starts' = DOMAIN starts \cup {k} /\ k # None /\ k \notin DOMAIN starts
  BY <1>0, <1>5 DEF None
<1>13. PlansSeen'
  <2>1. starts'[k].plan \in DOMAIN revisions' /\ revisions'[starts'[k].plan].mode \in starts'[k].shown
    BY <1>1, <1>3, <1>5, <1>11
  <2>2. \A i \in DOMAIN starts : starts'[i].plan \in DOMAIN revisions'
                              /\ revisions'[starts'[i].plan].mode \in starts'[i].shown
    BY <1>1, <1>5 DEF PrepInv, PlansSeen, PlanOf
  <2>3. screen'.plan = screen.plan /\ screen'.server = screen.server
        /\ screen'.phase # "checking"
    BY <1>6
  <2> QED BY <1>1, <1>12, <2>1, <2>2, <2>3 DEF PrepInv, PlansSeen, PlanOf
<1>14. StartsKept'
  <2>1. \A i \in DOMAIN starts : starts[i].known
    BY <1>0, <1>11 DEF PrepInv, StartsKept, None
  <2>2. \A i \in DOMAIN starts' : ~starts'[i].known => stored'.start = i
    BY <1>5, <1>8, <1>12, <2>1
  <2>3. trip' \notin DOMAIN starts'
    BY <1>1, <1>5, <1>0 DEF None
  <2>4. screen'.phase = "starting" /\ screen'.target = k
    BY <1>6
  <2> QED BY <1>8, <1>12, <2>2, <2>3, <2>4 DEF StartsKept
<1> QED BY <1>9, <1>13, <1>14 DEF PrepInv

LEMMA StartResent ==
  ASSUME PrepInv, ResendStart
  PROVE  PrepInv'
<1>1. screen \in ScreenRecord /\ stored.start \in Nat /\ "starting" \in Phases
  BY Types DEF Phases, StoredRecord
<1>2. screen' = [screen EXCEPT !.phase = "starting", !.target = stored.start]
      /\ UNCHANGED <<Server, drafts, starts, stored>> /\ stored.start # None
  BY DEF ResendStart
<1>3. screen' = [phase |-> "starting", draft |-> screen.draft, server |-> screen.server,
                 plan |-> screen.plan, seen |-> screen.seen, target |-> stored.start,
                 shown |-> screen.shown]
  BY <1>1, <1>2, ScreenAims
<1>4. screen' \in ScreenRecord
  BY <1>1, <1>3 DEF ScreenRecord
<1>5. stored.start \in DOMAIN starts
  BY <1>2 DEF PrepInv, StartsKept
<1>6. ScreenSound(screen', stored.start)
  BY <1>3, <1>5, SoundScreen DEF ScreenSound
<1>7. drafts' \in Seq(DraftRecord) /\ stored' \in StoredRecord /\ stored'.start = stored.start
  BY <1>2, Types
<1> QED BY <1>2, <1>4, <1>6, <1>7, PageKeeps

LEMMA RequestGivenUp ==
  ASSUME PrepInv, GiveUp
  PROVE  PrepInv'
<1>1. screen \in ScreenRecord /\ "idle" \in Phases /\ None \in Nat /\ {} \in SUBSET Modes
  BY Types DEF Phases, None
<1>2. screen' = [screen EXCEPT !.phase = "idle", !.target = None, !.shown = {}]
      /\ UNCHANGED <<Server, drafts, starts, stored>>
  BY DEF GiveUp, KeepsStart
<1>3. screen' = [phase |-> "idle", draft |-> screen.draft, server |-> screen.server,
                 plan |-> screen.plan, seen |-> screen.seen, target |-> None,
                 shown |-> {}]
  BY <1>1, <1>2, ScreenTurns
<1>4. screen' \in ScreenRecord
  BY <1>1, <1>3 DEF ScreenRecord
<1>5. ScreenSound(screen', stored.start)
  BY <1>3, SoundScreen DEF ScreenSound
<1>6. drafts' \in Seq(DraftRecord) /\ stored' \in StoredRecord /\ stored'.start = stored.start
  BY <1>2, Types
<1> QED BY <1>2, <1>4, <1>5, <1>6, PageKeeps

LEMMA OutcomeKnown ==
  ASSUME PrepInv, NEW n \in DOMAIN starts, stored.start \in {None, n}, StartKnown(n)
  PROVE  PrepInv'
<1>1. screen \in ScreenRecord /\ stored \in StoredRecord /\ "idle" \in Phases /\ None \in Nat
  BY Types DEF Phases, None
<1>2. stored' = [stored EXCEPT !.start = None] /\ Learnt(n) /\ UNCHANGED <<Server, drafts>>
  BY DEF StartKnown
<1>3. stored' \in StoredRecord /\ stored'.start = None
  BY <1>1, <1>2 DEF StoredRecord
<1>4. screen' \in ScreenRecord /\ ScreenSound(screen', None)
  <2>1. CASE screen' = [Closed EXCEPT !.phase = "round"]
    BY <1>1, <2>1, ClosedScreens
  <2>2. CASE screen' = [screen EXCEPT !.phase = "idle", !.target = None]
    <3>1. screen' = [phase |-> "idle", draft |-> screen.draft, server |-> screen.server,
                     plan |-> screen.plan, seen |-> screen.seen, target |-> None,
                     shown |-> screen.shown]
      BY <1>1, <2>2, ScreenAims
    <3>2. screen' \in ScreenRecord
      BY <1>1, <3>1 DEF ScreenRecord
    <3> QED BY <3>1, <3>2, SoundScreen DEF ScreenSound
  <2> QED BY <2>1, <2>2 DEF StartKnown
<1> QED BY <1>2, <1>3, <1>4, PageLearns

LEMMA StartAnswers ==
  ASSUME PrepInv, StartAnswered \/ CheckStart
  PROVE  PrepInv'
<1>1. CASE StartAnswered
  <2>1. screen.target \in DOMAIN starts /\ stored.start \in {None, screen.target}
    BY <1>1 DEF StartAnswered, PrepInv, StartsKept
  <2> QED BY <1>1, <2>1, OutcomeKnown DEF StartAnswered
<1>2. CASE CheckStart
  <2>1. stored.start \in DOMAIN starts
    BY <1>2 DEF CheckStart, PrepInv, StartsKept
  <2> QED BY <1>2, <2>1, OutcomeKnown DEF CheckStart
<1> QED BY <1>1, <1>2

(* A load shows the newest plan, and only one of the present work.           *)
LEMMA PageLoaded ==
  ASSUME PrepInv, NEW answered \in BOOLEAN, Load(answered)
  PROVE  PrepInv'
<1> DEFINE last == Len(revisions)
           mode == revisions[last].mode
           phase == IF screen.phase = "closed" THEN "idle" ELSE screen.phase
           draft == IF stored.touched THEN stored.draft ELSE mode
           plan == IF Startable(last) THEN last ELSE None
<1>1. screen \in ScreenRecord /\ stored \in StoredRecord /\ drafts \in Seq(DraftRecord)
      /\ work \in Nat /\ last \in DOMAIN revisions /\ last \in Nat
      /\ mode \in Modes /\ None \in Nat /\ stored.start \in Nat
  <2>1. revisions \in Seq(RevisionRecord) /\ last \in DOMAIN revisions
    BY Types
  <2>2. revisions[last] \in RevisionRecord
    BY <2>1
  <2>3. mode \in Modes
    BY <2>2 DEF RevisionRecord
  <2> QED BY <2>3, Types DEF StoredRecord, None
<1>2. phase \in Phases /\ draft \in Modes /\ plan \in Nat
  BY <1>1 DEF ScreenRecord, StoredRecord, Phases
<1>3. UNCHANGED <<Server, drafts>>
  BY DEF Load
<1>4. \/ screen' = [Closed EXCEPT !.phase = "round"]
      \/ screen' = [screen EXCEPT !.phase = phase, !.server = mode, !.seen = work,
                                  !.draft = draft, !.plan = plan]
  BY DEF Load
<1>5. /\ screen' \in ScreenRecord
      /\ \A held \in Nat : held \in {stored.start, None} => ScreenSound(screen', held)
  <2>1. CASE screen' = [Closed EXCEPT !.phase = "round"]
    BY <2>1, ClosedScreens
  <2>2. CASE screen' = [screen EXCEPT !.phase = phase, !.server = mode, !.seen = work,
                                      !.draft = draft, !.plan = plan]
    <3> HIDE DEF phase, draft, plan, mode
    <3>0. screen \in ScreenRecord /\ work \in Nat /\ mode \in Modes
      BY <1>1
    <3>1. screen' = [phase |-> phase, draft |-> draft, server |-> mode, plan |-> plan,
                     seen |-> work, target |-> screen.target, shown |-> screen.shown]
      <4> DEFINE q1 == [screen EXCEPT !.phase = phase]
                 q2 == [q1 EXCEPT !.server = mode]
                 q3 == [q2 EXCEPT !.seen = work]
                 q4 == [q3 EXCEPT !.draft = draft]
                 q5 == [q4 EXCEPT !.plan = plan]
      <4>1. q1 \in ScreenRecord
            /\ q1 = [phase |-> phase, draft |-> screen.draft, server |-> screen.server, plan |-> screen.plan,
                     seen |-> screen.seen, target |-> screen.target, shown |-> screen.shown]
        BY <3>0, <1>2 DEF ScreenRecord
      <4> HIDE DEF q1
      <4>2. q2 \in ScreenRecord
            /\ q2 = [phase |-> phase, draft |-> screen.draft, server |-> mode, plan |-> screen.plan,
                     seen |-> screen.seen, target |-> screen.target, shown |-> screen.shown]
        BY <3>0, <1>2, <4>1 DEF ScreenRecord
      <4> HIDE DEF q2
      <4>3. q3 \in ScreenRecord
            /\ q3 = [phase |-> phase, draft |-> screen.draft, server |-> mode, plan |-> screen.plan,
                     seen |-> work, target |-> screen.target, shown |-> screen.shown]
        BY <3>0, <1>2, <4>2 DEF ScreenRecord
      <4> HIDE DEF q3
      <4>4. q4 \in ScreenRecord
            /\ q4 = [phase |-> phase, draft |-> draft, server |-> mode, plan |-> screen.plan,
                     seen |-> work, target |-> screen.target, shown |-> screen.shown]
        BY <3>0, <1>2, <4>3 DEF ScreenRecord
      <4> HIDE DEF q4
      <4>5. q5 \in ScreenRecord
            /\ q5 = [phase |-> phase, draft |-> draft, server |-> mode, plan |-> plan,
                     seen |-> work, target |-> screen.target, shown |-> screen.shown]
        BY <3>0, <1>2, <4>4 DEF ScreenRecord
      <4> HIDE DEF q5
      <4>6. screen' = q5
        BY <2>2 DEF q1, q2, q3, q4, q5
      <4> QED BY <4>5, <4>6
    <3>2. screen' \in ScreenRecord
      BY <1>1, <1>2, <3>1 DEF ScreenRecord
    <3>3. plan # None => plan \in DOMAIN revisions /\ revisions[plan].mode = mode
      BY <1>1 DEF plan, mode
    <3>4. phase \in {"checking", "starting"} => phase = screen.phase
      BY DEF phase
    <3> QED BY <3>1, <3>2, <3>3, <3>4, SoundScreen DEF ScreenSound
  <2> QED BY <1>4, <2>1, <2>2
<1>6. \/ UNCHANGED <<starts, stored>>
      \/ Learnt(stored.start) /\ stored' = [stored EXCEPT !.start = None] /\ stored.start # None
  <2>1. [stored EXCEPT !.start = stored.start] = stored
    BY <1>1 DEF StoredRecord
  <2> QED BY <2>1 DEF Load
<1>7. CASE UNCHANGED <<starts, stored>>
  <2>1. drafts' \in Seq(DraftRecord) /\ stored' \in StoredRecord
        /\ stored'.start = stored.start /\ ScreenSound(screen', stored.start)
    BY <1>1, <1>3, <1>5, <1>7
  <2> QED BY <1>3, <1>5, <1>7, <2>1, PageKeeps
<1>8. CASE Learnt(stored.start) /\ stored' = [stored EXCEPT !.start = None]
           /\ stored.start # None
  <2>1. stored' \in StoredRecord /\ stored'.start = None /\ ScreenSound(screen', None)
    BY <1>1, <1>5, <1>8 DEF StoredRecord
  <2>2. stored.start \in DOMAIN starts
    BY <1>8 DEF PrepInv, StartsKept
  <2> QED BY <1>3, <1>5, <1>8, <2>1, <2>2, PageLearns
<1> QED BY <1>6, <1>7, <1>8

-----------------------------------------------------------------------------
LEMMA PrepStarts == PrepInit => PrepInv
<1> SUFFICES ASSUME PrepInit PROVE PrepInv
  OBVIOUS
<1>1. starts = << >> /\ drafts = << >> /\ trip = None /\ screen = Closed /\ work = 0
      /\ choices = [mode |-> "car", from |-> 0]
      /\ revisions = <<[mode |-> "car", work |-> 0, whole |-> TRUE]>>
      /\ stored = [draft |-> "car", touched |-> FALSE, drafted |-> None, start |-> None]
  BY DEF PrepInit
<1>2. [mode |-> "car", work |-> 0, whole |-> TRUE] \in RevisionRecord
  BY DEF RevisionRecord, Modes
<1>3. revisions \in Seq(RevisionRecord) /\ revisions # << >>
  BY <1>1, <1>2
<1>4. PrepTypes
  <2>1. screen \in ScreenRecord
    BY <1>1, ClosedScreens DEF None
  <2>2. stored \in StoredRecord
    BY <1>1 DEF StoredRecord, Modes, None
  <2> QED BY <1>1, <1>3, <2>1, <2>2 DEF PrepTypes, Modes, None
<1>5. PlansSeen
  BY <1>1 DEF PlansSeen, Closed, None
<1>6. StartsKept
  BY <1>1 DEF StartsKept, Closed, None
<1> QED BY <1>4, <1>5, <1>6 DEF PrepInv

LEMMA PrepSteps ==
  ASSUME PrepInv, [PrepNext]_prepVars
  PROVE  PrepInv'
<1>1. CASE WorkChanges \/ StartElsewhere \/ (\E mode \in Modes : SaveElsewhere(mode))
           \/ \E whole \in BOOLEAN : PlanPublished(whole)
  BY <1>1, ServerSteps
<1>2. CASE \E n \in DOMAIN drafts : HandleDraft(n)
  BY <1>2, DraftHandled
<1>3. CASE \E n \in DOMAIN starts : \E live \in BOOLEAN : HandleStart(n, live)
  BY <1>3, StartHandled
<1>4. CASE \E answered \in BOOLEAN : Load(answered)
  BY <1>4, PageLoaded
<1>5. CASE \E mode \in Modes : Edit(mode)
  BY <1>5, EditKeeps
<1>6. CASE \E kind \in {"save", "manual"} : SendDraft(kind)
  BY <1>6, DraftSent
<1>7. CASE Reload \/ DraftAnswered \/ ClickStart
  BY <1>7, ReloadKeeps, DraftKnown, StartClicked
<1>8. CASE SendStart \/ ResendStart \/ GiveUp
  BY <1>8, StartSent, StartResent, RequestGivenUp
<1>9. CASE StartAnswered \/ CheckStart
  BY <1>9, StartAnswers
<1>10. CASE UNCHANGED prepVars
  BY <1>10 DEF prepVars, PrepInv, PrepTypes, PlansSeen, StartsKept, PlanOf
<1> QED BY <1>1, <1>2, <1>3, <1>4, <1>5, <1>6, <1>7, <1>8, <1>9, <1>10 DEF PrepNext

(* What a page offers, asks for and has sent are plans of the mode its driver *)
(* saw, and of the starts it has sent it stores the one whose outcome it does *)
(* not know (preparation-flow.tsx 237-318).                                   *)
THEOREM PrepInvariant == PrepSpec => []PrepInv
<1>1. PrepInit => PrepInv
  BY PrepStarts
<1>2. PrepInv /\ [PrepNext]_prepVars => PrepInv'
  BY PrepSteps
<1> QED BY <1>1, <1>2, PTL DEF PrepSpec

(* A round starts with the choices its driver saw and on a plan of exactly    *)
(* the work there is, and a start of unknown outcome stays the one the page   *)
(* asks after (preparation-flow.tsx 237-318, rounds/service.ts 44-58, 97-109). *)
THEOREM StartsAsPrepared == PrepSpec => []PreparedStart
<1>1. PrepInv => PreparedStart
  BY DEF PrepInv, PlansSeen, StartsKept, PlanOf, PreparedStart
<1> QED BY <1>1, PrepInvariant, PTL
=============================================================================
