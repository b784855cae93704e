--------------------------- MODULE Recovery_proofs ----------------------------
(*****************************************************************************)
(* Proofs about the consumer of events and its reports: the projection of a  *)
(* stream is the prefix its cursor names, the history is never invented, and *)
(* what the workers report of it is accepted and stays true, for any         *)
(* streams, events, dependencies and workers.                                *)
(*****************************************************************************)
EXTENDS Recovery, FiniteSetTheorems, WellFoundedInduction, TLAPS

-----------------------------------------------------------------------------
(* The tables of the consumer (ReceiverInbox).                               *)
LEMMA EventFacts ==
  ASSUME NEW e \in Event
  PROVE  e.stream \in Streams /\ e.seq \in Seqs /\ e.seq \in Nat
  BY InboxAssumption DEF Event, Seqs

\* The events of a pass can be counted.
LEMMA SelectedFinite ==
  ASSUME InboxTypeOK, NEW S \in SUBSET Selected
  PROVE  Cardinality(S) \in Nat
<1>1. IsFiniteSet(Seqs)
  BY FS_Interval, InboxAssumption DEF Seqs
<1>2. IsFiniteSet(Streams \X Seqs)
  BY <1>1, FS_Product, InboxAssumption
<1> DEFINE ev == [p \in Streams \X Seqs |-> [stream |-> p[1], seq |-> p[2]]]
<1>3. \A e \in Event : \E p \in Streams \X Seqs : ev[p] = e
  <2> SUFFICES ASSUME NEW e \in Event
               PROVE  \E p \in Streams \X Seqs : ev[p] = e
    OBVIOUS
  <2>1. <<e.stream, e.seq>> \in Streams \X Seqs
    BY EventFacts
  <2>2. ev[<<e.stream, e.seq>>] = e
    BY <2>1 DEF Event
  <2> QED
    BY <2>1, <2>2
<1>4. \A p \in Streams \X Seqs : ev[p] \in Event
  BY DEF Event, Seqs
<1>5. ev \in Surjection(Streams \X Seqs, Event)
  BY <1>3, <1>4 DEF Surjection
<1>6. IsFiniteSet(Event)
  BY <1>2, <1>5, FS_Surjection
<1>7. S \subseteq Event
  BY DEF Selected, InboxTypeOK
<1> QED
  BY <1>6, <1>7, FS_Subset, FS_CardinalityType
-----------------------------------------------------------------------------
\* The longest contiguous prefix exists ...
LEMMA ThroughExists ==
  ASSUME NEW N \in SUBSET Seqs
  PROVE  \E n \in 0..MaxSequence : 1..n \subseteq N /\ n + 1 \notin N
<1> DEFINE G == {n \in 0..MaxSequence : n + 1 \notin N}
           R == OpToRel(<, Nat)
<1>1. MaxSequence \in Nat /\ MaxSequence + 1 \notin N
  BY InboxAssumption DEF Seqs
<1>2. G # {} /\ G \subseteq Nat
  BY <1>1
<1>3. IsWellFoundedOn(R, Nat)
  BY NatLessThanWellFounded
<1> HIDE DEF R
<1>4. PICK n \in G : \A m \in G : ~(<<m, n>> \in R)
  BY <1>2, <1>3, WFMin
<1>5. \A m \in G : ~(m < n)
  <2>1. \A m \in G : m \in Nat /\ n \in Nat
    BY <1>2
  <2> QED
    BY <1>4, <2>1 DEF R, OpToRel
<1>6. 1..n \subseteq N
  <2> SUFFICES ASSUME NEW k \in 1..n, k \notin N
               PROVE  FALSE
    OBVIOUS
  <2>1. k - 1 \in G /\ k - 1 < n
    BY <1>1
  <2> QED
    BY <1>5, <2>1
<1> QED
  BY <1>6

\* ... is within bounds, and grows with the set.
LEMMA ThroughGrows ==
  ASSUME NEW N \in SUBSET Seqs, NEW M \in SUBSET Seqs, N \subseteq M
  PROVE  Through(N) \in 0..MaxSequence /\ Through(N) <= Through(M)
<1>1. Through(N) \in 0..MaxSequence /\ 1..Through(N) \subseteq N
  BY ThroughExists DEF Through
<1>2. Through(M) \in 0..MaxSequence /\ Through(M) + 1 \notin M
  BY ThroughExists DEF Through
<1>3. ASSUME Through(M) < Through(N)
      PROVE  FALSE
  <2>1. Through(M) + 1 \in 1..Through(N)
    BY <1>1, <1>2, <1>3, InboxAssumption
  <2> QED
    BY <1>1, <1>2, <2>1
<1> QED
  BY <1>1, <1>2, <1>3, InboxAssumption
-----------------------------------------------------------------------------
\* An application either records a covered event, or advances its stream's
\* cursor by one and folds the event in.
LEMMA ApplicationEffect ==
  ASSUME InboxTypeOK, NEW e \in Event, ApplyEvent(e)
  PROVE  /\ e \in inbox /\ e \notin applied /\ applied' = applied \cup {e}
         /\ UNCHANGED <<inbox, snapshot>>
         /\ \/ Covered(e) /\ UNCHANGED <<cursor, effects>>
            \/ /\ ~Covered(e) /\ Satisfied(e)
               /\ e.seq = cursor[e.stream] + 1
               /\ cursor' = [cursor EXCEPT ![e.stream] = e.seq]
               /\ effects' = [effects EXCEPT ![e.stream][e.seq] = @ + 1]
  BY DEF ApplyEvent, Project, Selected, InOrder, Waits

LEMMA InboxTypeStep ==
  ASSUME InboxTypeOK, [InboxNext]_inboxVars
  PROVE  InboxTypeOK'
<1>0. MaxSequence \in Nat /\ revision \in Nat /\ unproductive \in Nat
      /\ \A s \in Streams : cursor[s] \in Nat
  BY InboxAssumption DEF InboxTypeOK
<1>1. ASSUME NEW e \in Event, StoreEvent(e)
      PROVE  InboxTypeOK'
  BY <1>0, <1>1, EventFacts DEF StoreEvent, InboxTypeOK
<1>2. ASSUME NEW e \in Event, ApplyEvent(e)
      PROVE  InboxTypeOK'
  <2>1. revision' \in Nat
    <3>1. PICK skipped \in SUBSET {f \in Selected : Waits(f)} :
               revision' = revision + 1 + Cardinality(skipped)
      BY <1>2 DEF ApplyEvent
    <3>2. skipped \in SUBSET Selected
      OBVIOUS
    <3> QED
      BY <1>0, <3>1, <3>2, SelectedFinite
  <2>2. cursor' \in [Streams -> 0..MaxSequence] /\ effects' \in [Streams -> [Seqs -> Nat]]
        /\ applied' \subseteq Event
    <3>1. e.stream \in Streams /\ e.seq \in Seqs /\ e.seq \in 0..MaxSequence
      BY <1>0, EventFacts DEF Seqs
    <3>2. applied' \subseteq Event
      BY <1>2, ApplicationEffect DEF InboxTypeOK
    <3>3. CASE UNCHANGED <<cursor, effects>>
      BY <3>2, <3>3 DEF InboxTypeOK
    <3>4. CASE /\ cursor' = [cursor EXCEPT ![e.stream] = e.seq]
               /\ effects' = [effects EXCEPT ![e.stream][e.seq] = @ + 1]
      <4>1. effects[e.stream] \in [Seqs -> Nat] /\ effects[e.stream][e.seq] + 1 \in Nat
        BY <3>1 DEF InboxTypeOK
      <4>2. [effects[e.stream] EXCEPT ![e.seq] = @ + 1] \in [Seqs -> Nat]
        BY <4>1
      <4>3. effects' = [effects EXCEPT ![e.stream] = [effects[e.stream] EXCEPT ![e.seq] = @ + 1]]
        BY <3>1, <3>4 DEF InboxTypeOK
      <4>4. effects' \in [Streams -> [Seqs -> Nat]]
        BY <4>2, <4>3 DEF InboxTypeOK
      <4>5. cursor' \in [Streams -> 0..MaxSequence]
        BY <3>1, <3>4 DEF InboxTypeOK
      <4> QED
        BY <3>2, <4>4, <4>5
    <3> QED
      BY <1>2, <3>3, <3>4, ApplicationEffect
  <2> QED
    BY <1>2, <2>1, <2>2 DEF ApplyEvent, InboxTypeOK
<1>3. ASSUME ApplyNothing
      PROVE  InboxTypeOK'
  <2> DEFINE waiting == {f \in Selected : Waits(f)}
  <2>1. waiting \in SUBSET Selected
    OBVIOUS
  <2>2. \A S \in SUBSET waiting : Cardinality(S) \in Nat
    BY <2>1, SelectedFinite
  <2>3. revision' \in Nat
    BY <1>0, <1>3, <2>2 DEF ApplyNothing
  <2> QED
    BY <1>0, <1>3, <2>3 DEF ApplyNothing, InboxTypeOK
<1>4. ASSUME NEW s \in Streams, NEW n \in Seqs, AdoptSnapshot(s, n)
      PROVE  InboxTypeOK'
  <2>1. n \in 0..MaxSequence
    BY <1>0 DEF Seqs
  <2>2. [k \in Seqs |-> IF k <= n THEN 1 ELSE 0] \in [Seqs -> Nat]
    OBVIOUS
  <2>3. streamRows' \subseteq Streams /\ inbox' \subseteq Event /\ applied' \subseteq Event
        /\ revision' \in Nat /\ unproductive' \in Nat
    BY <1>0, <1>4 DEF AdoptSnapshot, InboxTypeOK
  <2>4. CASE cursor[s] >= n
    BY <1>4, <2>3, <2>4 DEF AdoptSnapshot, InboxTypeOK
  <2>5. CASE ~(cursor[s] >= n)
    BY <1>4, <2>1, <2>2, <2>3, <2>5 DEF AdoptSnapshot, InboxTypeOK
  <2> QED
    BY <2>4, <2>5
<1>5. ASSUME NEW s \in Streams, TouchStream(s)
      PROVE  InboxTypeOK'
  BY <1>5 DEF TouchStream, InboxTypeOK
<1>6. CASE UNCHANGED inboxVars
  BY <1>6 DEF inboxVars, InboxTypeOK
<1> QED
  BY <1>1, <1>2, <1>3, <1>4, <1>5, <1>6 DEF InboxNext

LEMMA ExactStep ==
  ASSUME InboxTypeOK, ProjectionExact, [InboxNext]_inboxVars
  PROVE  ProjectionExact'
<1>1. ASSUME NEW e \in Event, ApplyEvent(e)
      PROVE  ProjectionExact'
  <2>1. CASE UNCHANGED <<cursor, effects>>
    BY <2>1 DEF ProjectionExact
  <2>2. CASE ~UNCHANGED <<cursor, effects>>
    <3>1. /\ e.seq = cursor[e.stream] + 1
          /\ cursor' = [cursor EXCEPT ![e.stream] = e.seq]
          /\ effects' = [effects EXCEPT ![e.stream][e.seq] = @ + 1]
      BY <1>1, <2>2, ApplicationEffect
    <3> SUFFICES ASSUME NEW s \in Streams, NEW n \in Seqs
                 PROVE  effects'[s][n] = IF n <= cursor'[s] THEN 1 ELSE 0
      BY DEF ProjectionExact
    <3>2. /\ e.stream \in Streams /\ e.seq \in Seqs /\ n \in Nat
          /\ cursor[s] \in Nat /\ cursor[e.stream] \in Nat /\ e.seq \in Nat
          /\ effects[s] \in [Seqs -> Nat] /\ effects \in [Streams -> [Seqs -> Nat]]
          /\ cursor \in [Streams -> 0..MaxSequence]
      BY EventFacts, InboxAssumption DEF InboxTypeOK, Seqs
    <3>3. effects[s][n] = IF n <= cursor[s] THEN 1 ELSE 0
      BY DEF ProjectionExact
    <3>4. CASE s = e.stream /\ n = e.seq
      BY <3>1, <3>2, <3>3, <3>4
    <3>5. CASE s = e.stream /\ n # e.seq
      BY <3>1, <3>2, <3>3, <3>5
    <3>6. CASE s # e.stream
      BY <3>1, <3>2, <3>3, <3>6
    <3> QED
      BY <3>4, <3>5, <3>6
  <2> QED
    BY <2>1, <2>2
<1>2. ASSUME NEW s \in Streams, NEW n \in Seqs, AdoptSnapshot(s, n)
      PROVE  ProjectionExact'
  BY <1>2 DEF AdoptSnapshot, ProjectionExact, InboxTypeOK
<1> QED
  BY <1>1, <1>2 DEF InboxNext, inboxVars, StoreEvent, ApplyNothing, TouchStream,
     ProjectionExact

LEMMA HonestStep ==
  ASSUME InboxTypeOK, HistoryHonest, [InboxNext]_inboxVars
  PROVE  HistoryHonest'
<1>0. /\ \A s \in Streams : cursor[s] \in Nat /\ snapshot[s] \in Nat
      /\ cursor \in [Streams -> 0..MaxSequence] /\ snapshot \in [Streams -> 0..MaxSequence]
  BY InboxAssumption DEF InboxTypeOK
<1>1. ASSUME NEW e \in Event, ApplyEvent(e)
      PROVE  HistoryHonest'
  <2>1. /\ e \in inbox /\ applied' = applied \cup {e} /\ UNCHANGED <<inbox, snapshot>>
        /\ \/ Covered(e) /\ UNCHANGED cursor
           \/ /\ ~Covered(e) /\ e.seq = cursor[e.stream] + 1
              /\ cursor' = [cursor EXCEPT ![e.stream] = e.seq]
    BY <1>1, ApplicationEffect
  <2>2. applied' \subseteq inbox'
    BY <2>1 DEF HistoryHonest
  <2>3. ASSUME NEW s \in Streams
        PROVE  snapshot'[s] <= cursor'[s]
    BY <1>0, <2>1, EventFacts DEF HistoryHonest
  <2>4. ASSUME NEW f \in Event, f.seq > snapshot'[f.stream]
        PROVE  f \in applied' <=> f.seq <= cursor'[f.stream]
    <3>1. f.seq \in Nat /\ f.stream \in Streams /\ e.seq \in Nat /\ e.stream \in Streams
      BY EventFacts
    <3>2. f \in applied <=> f.seq <= cursor[f.stream]
      BY <2>1, <2>4 DEF HistoryHonest
    <3>3. (f.stream = e.stream /\ f.seq = e.seq) <=> f = e
      BY DEF Event
    <3>4. CASE Covered(e) /\ UNCHANGED cursor
      <4>1. e.seq <= snapshot[e.stream] /\ f.seq > snapshot[f.stream]
        BY <2>1, <2>4, <3>4 DEF Covered
      <4>2. f # e
        BY <1>0, <3>1, <4>1
      <4> QED
        BY <2>1, <3>2, <3>4, <4>2
    <3>5. CASE e.seq = cursor[e.stream] + 1 /\ cursor' = [cursor EXCEPT ![e.stream] = e.seq]
      BY <1>0, <2>1, <3>1, <3>2, <3>3, <3>5
    <3> QED
      BY <2>1, <3>4, <3>5
  <2> QED
    BY <2>2, <2>3, <2>4 DEF HistoryHonest
<1>2. ASSUME NEW s \in Streams, NEW n \in Seqs, AdoptSnapshot(s, n)
      PROVE  HistoryHonest'
  <2>1. CASE cursor[s] >= n
    BY <1>2, <2>1 DEF AdoptSnapshot, HistoryHonest
  <2>2. CASE ~(cursor[s] >= n)
    <3>1. /\ cursor' = [cursor EXCEPT ![s] = n] /\ snapshot' = [snapshot EXCEPT ![s] = n]
          /\ UNCHANGED <<inbox, applied>> /\ n \in Nat
      BY <1>2, <2>2, InboxAssumption DEF AdoptSnapshot, Seqs
    <3>2. ASSUME NEW t \in Streams
          PROVE  snapshot'[t] <= cursor'[t]
      BY <1>0, <3>1 DEF HistoryHonest
    <3>3. ASSUME NEW f \in Event, f.seq > snapshot'[f.stream]
          PROVE  f \in applied' <=> f.seq <= cursor'[f.stream]
      <4>1. f.seq \in Nat /\ f.stream \in Streams
        BY EventFacts
      <4>2. /\ f.seq > snapshot[f.stream] => (f \in applied <=> f.seq <= cursor[f.stream])
            /\ \A t \in Streams : snapshot[t] <= cursor[t]
        BY DEF HistoryHonest
      <4>3. CASE f.stream = s
        <5>1. snapshot'[s] = n /\ cursor'[s] = n
          BY <1>0, <3>1
        <5>2. f.seq > n
          BY <3>3, <4>3, <5>1
        <5>3. snapshot[s] <= cursor[s]
          BY <4>2
        <5>4. cursor[s] \in Nat /\ snapshot[s] \in Nat
          BY <1>0, InboxAssumption
        <5>5. cursor[s] < n
          BY <2>2, <3>1, <5>4
        <5>6. f.seq > snapshot[f.stream] /\ ~(f.seq <= cursor[f.stream])
          BY <3>1, <4>1, <4>3, <5>2, <5>3, <5>4, <5>5
        <5>7. f \notin applied
          BY <4>2, <5>6
        <5> QED
          BY <3>1, <4>1, <4>3, <5>1, <5>2, <5>7
      <4>4. CASE f.stream # s
        BY <1>0, <3>1, <3>3, <4>1, <4>2, <4>4
      <4> QED
        BY <4>3, <4>4
    <3> QED
      BY <3>1, <3>2, <3>3 DEF HistoryHonest
  <2> QED
    BY <2>1, <2>2
<1>3. ASSUME NEW e \in Event, StoreEvent(e)
      PROVE  HistoryHonest'
  BY <1>3 DEF StoreEvent, HistoryHonest
<1> QED
  BY <1>1, <1>2, <1>3 DEF InboxNext, inboxVars, ApplyNothing, TouchStream, HistoryHonest

LEMMA DependenciesStep ==
  ASSUME InboxTypeOK, HistoryHonest, DependenciesVisible, [InboxNext]_inboxVars
  PROVE  DependenciesVisible'
<1>0. /\ \A s \in Streams : cursor[s] \in Nat /\ snapshot[s] \in Nat
      /\ cursor \in [Streams -> 0..MaxSequence] /\ snapshot \in [Streams -> 0..MaxSequence]
      /\ applied \subseteq Event /\ \A e \in Event : Requires[e] \subseteq Event
  BY InboxAssumption DEF InboxTypeOK
<1>1. ASSUME NEW e \in Event, ApplyEvent(e)
      PROVE  DependenciesVisible'
  <2>1. /\ applied' = applied \cup {e} /\ UNCHANGED snapshot
        /\ \/ Covered(e) /\ UNCHANGED cursor
           \/ /\ ~Covered(e) /\ Satisfied(e) /\ e.seq = cursor[e.stream] + 1
              /\ cursor' = [cursor EXCEPT ![e.stream] = e.seq]
    BY <1>1, ApplicationEffect
  <2>2. \A d \in Event : d.seq <= cursor[d.stream] => d.seq <= cursor'[d.stream]
    BY <1>0, <2>1, EventFacts
  <2>3. \A f \in applied' : f.seq > snapshot'[f.stream] =>
           \A d \in Requires[f] : d \in applied \/ d.seq <= cursor[d.stream]
    <3>1. ~Covered(e) => Satisfied(e)
      BY <2>1
    <3>2. e.seq > snapshot[e.stream] => ~Covered(e)
      BY <1>0, EventFacts DEF Covered
    <3> QED
      BY <2>1, <3>1, <3>2 DEF DependenciesVisible, Satisfied
  <2>4. applied' \subseteq Event
    BY <1>0, <2>1
  <2> QED
    BY <1>0, <2>1, <2>2, <2>3, <2>4 DEF DependenciesVisible
<1>2. ASSUME NEW s \in Streams, NEW n \in Seqs, AdoptSnapshot(s, n)
      PROVE  DependenciesVisible'
  <2>1. UNCHANGED applied
        /\ \A t \in Streams : cursor'[t] >= cursor[t] /\ snapshot'[t] >= snapshot[t]
                              /\ cursor'[t] \in Nat /\ snapshot'[t] \in Nat
    BY <1>0, <1>2, InboxAssumption DEF AdoptSnapshot, HistoryHonest, Seqs
  <2>2. \A d \in Event : d.seq <= cursor[d.stream] => d.seq <= cursor'[d.stream]
    BY <1>0, <2>1, EventFacts
  <2>3. \A f \in Event : f.seq > snapshot'[f.stream] => f.seq > snapshot[f.stream]
    BY <1>0, <2>1, EventFacts
  <2> QED
    BY <1>0, <2>1, <2>2, <2>3 DEF DependenciesVisible
<1> QED
  BY <1>1, <1>2 DEF InboxNext, inboxVars, StoreEvent, ApplyNothing, TouchStream,
     DependenciesVisible
-----------------------------------------------------------------------------
LEMMA InboxInitInv == InboxInit => InboxInv
<1> SUFFICES ASSUME InboxInit PROVE InboxInv
  OBVIOUS
<1>1. MaxSequence \in Nat /\ \A n \in Seqs : n \in Nat /\ ~(n <= 0)
  BY InboxAssumption DEF Seqs
<1>2. \A e \in Event : e.stream \in Streams /\ ~(e.seq <= 0)
  BY <1>1, EventFacts
<1>3. InboxTypeOK
  BY <1>1 DEF InboxInit, InboxTypeOK
<1>4. ProjectionExact
  BY <1>1 DEF InboxInit, ProjectionExact
<1>5. HistoryHonest
  BY <1>2 DEF InboxInit, HistoryHonest
<1>6. DependenciesVisible
  BY DEF InboxInit, DependenciesVisible
<1> QED
  BY <1>3, <1>4, <1>5, <1>6 DEF InboxInv

LEMMA InboxNextInv ==
  ASSUME InboxInv, [InboxNext]_inboxVars
  PROVE  InboxInv'
  BY InboxTypeStep, ExactStep, HonestStep, DependenciesStep DEF InboxInv

\* The conjunction of the properties is inductive.
THEOREM InboxInvariant == InboxSpec => []InboxInv
  BY InboxInitInv, InboxNextInv, PTL DEF InboxSpec

\* The consumer's tables are well typed.
THEOREM InboxTypes == InboxSpec => []InboxTypeOK
<1>1. InboxInv => InboxTypeOK
  BY DEF InboxInv
<1> QED
  BY <1>1, InboxInvariant, PTL

\* Duplicates, reordering and snapshots never count an event twice nor leave one
\* out of the projection.
THEOREM ProjectionIsExact == InboxSpec => []ProjectionExact
<1>1. InboxInv => ProjectionExact
  BY DEF InboxInv
<1> QED
  BY <1>1, InboxInvariant, PTL

\* A snapshot never manufactures history.
THEOREM HistoryIsHonest == InboxSpec => []HistoryHonest
<1>1. InboxInv => HistoryHonest
  BY DEF InboxInv
<1> QED
  BY <1>1, InboxInvariant, PTL

\* An event that names others is projected after them.
THEOREM DependenciesFirst == InboxSpec => []DependenciesVisible
<1>1. InboxInv => DependenciesVisible
  BY DEF InboxInv
<1> QED
  BY <1>1, InboxInvariant, PTL

\* No transaction takes a table of the consumer back.
LEMMA TablesAdvance ==
  ASSUME InboxInv, InboxInv', [InboxNext]_inboxVars
  PROVE  /\ inbox \subseteq inbox' /\ applied \subseteq applied'
         /\ \A s \in Streams :
              /\ cursor'[s] >= cursor[s]
              /\ snapshot'[s] >= snapshot[s]
              /\ ReceivedThrough(s)' >= ReceivedThrough(s)
              /\ AppliedThrough(s)' >= AppliedThrough(s)
<1>1. /\ inbox \subseteq inbox' /\ applied \subseteq applied'
      /\ \A s \in Streams : cursor'[s] >= cursor[s] /\ snapshot'[s] >= snapshot[s]
  <2>1. InboxTypeOK /\ HistoryHonest
    BY DEF InboxInv
  <2>2. \A s \in Streams : cursor[s] \in Nat /\ snapshot[s] \in Nat
                           /\ snapshot[s] <= cursor[s]
    BY <2>1, InboxAssumption DEF InboxTypeOK, HistoryHonest
  <2>3. ASSUME NEW e \in Event, ApplyEvent(e)
        PROVE  /\ inbox \subseteq inbox' /\ applied \subseteq applied'
               /\ \A s \in Streams : cursor'[s] >= cursor[s] /\ snapshot'[s] >= snapshot[s]
    <3>1. /\ applied' = applied \cup {e} /\ UNCHANGED <<inbox, snapshot>>
          /\ \/ Covered(e) /\ UNCHANGED cursor
             \/ /\ e.seq = cursor[e.stream] + 1
                /\ cursor' = [cursor EXCEPT ![e.stream] = e.seq]
      BY <2>1, <2>3, ApplicationEffect
    <3>2. e.stream \in Streams /\ e.seq \in Nat /\ cursor \in [Streams -> 0..MaxSequence]
      BY <2>1, EventFacts DEF InboxTypeOK
    <3>3. ASSUME NEW s \in Streams
          PROVE  cursor'[s] >= cursor[s]
      BY <2>2, <3>1, <3>2
    <3> QED
      BY <2>2, <3>1, <3>3
  <2>4. ASSUME NEW t \in Streams, NEW n \in Seqs, AdoptSnapshot(t, n)
        PROVE  /\ inbox \subseteq inbox' /\ applied \subseteq applied'
               /\ \A s \in Streams : cursor'[s] >= cursor[s] /\ snapshot'[s] >= snapshot[s]
    <3>1. n \in Nat
      BY InboxAssumption DEF Seqs
    <3> QED
      BY <2>1, <2>2, <2>4, <3>1 DEF AdoptSnapshot, InboxTypeOK
  <2> QED
    BY <2>2, <2>3, <2>4 DEF InboxNext, inboxVars, StoreEvent, ApplyNothing, TouchStream
<1>2. ASSUME NEW s \in Streams
      PROVE  ReceivedThrough(s)' >= ReceivedThrough(s)
             /\ AppliedThrough(s)' >= AppliedThrough(s)
  <2>1. /\ Rows(s) \in SUBSET Seqs /\ Rows(s)' \in SUBSET Seqs /\ Rows(s) \subseteq Rows(s)'
    BY <1>1, EventFacts DEF InboxInv, InboxTypeOK, Rows
  <2>2. /\ AppliedRows(s) \in SUBSET Seqs /\ AppliedRows(s)' \in SUBSET Seqs
        /\ AppliedRows(s) \subseteq AppliedRows(s)'
    BY <1>1, EventFacts DEF InboxInv, InboxTypeOK, AppliedRows
  <2>3. \A N, M \in SUBSET Seqs : N \subseteq M =>
            /\ Through(N) \in 0..MaxSequence /\ Through(M) \in 0..MaxSequence
            /\ Through(N) <= Through(M)
    BY ThroughGrows
  <2>4. Through(Rows(s)') >= Through(Rows(s))
        /\ Through(AppliedRows(s)') >= Through(AppliedRows(s))
    BY <2>1, <2>2, <2>3, InboxAssumption
  <2> QED
    BY <2>4 DEF ReceivedThrough, AppliedThrough, Through
<1> QED
  BY <1>1, <1>2

\* Nothing takes the projection, the history or a reported prefix back.
THEOREM ProgressIsKept == InboxSpec => ProjectionAdvances
<1>1. InboxInv /\ InboxInv' /\ [InboxNext]_inboxVars =>
        [\A s \in Streams :
           /\ cursor'[s] >= cursor[s]
           /\ snapshot'[s] >= snapshot[s]
           /\ ReceivedThrough(s)' >= ReceivedThrough(s)
           /\ AppliedThrough(s)' >= AppliedThrough(s)]_inboxVars
  BY TablesAdvance
<1> QED
  BY <1>1, InboxInvariant, PTL DEF InboxSpec, ProjectionAdvances

-----------------------------------------------------------------------------
(* The workers that report them (Recovery).                                  *)
(* What the consumer could report of each stream now.                         *)
Now == [s \in Streams |-> Checkpoint(s)]

(* A checkpoint that was read from the consumer's tables at some time, and    *)
(* that the sender can tell to be true.                                       *)
Past(s, c) ==
  /\ c \in CheckpointRecord
  /\ Consistent(s, c)
  /\ c.revision <= Now[s].revision
  /\ c.receivedThrough <= Now[s].receivedThrough
  /\ c.appliedThrough <= Now[s].appliedThrough
  /\ c.projectedThrough <= Now[s].projectedThrough
  /\ c.revision = Now[s].revision => c = Now[s]

(* The later of two checkpoints regresses in nothing.                         *)
Ordered(c, d) ==
  /\ c.revision >= d.revision => ~Regressed(c, d)
  /\ d.revision >= c.revision => ~Regressed(d, c)

SenderSound ==
  /\ lastSequence \in [Streams -> 0..MaxSequence]
  /\ retained \subseteq Event
  /\ \A e \in retained : e.seq <= lastSequence[e.stream]
  /\ \A e \in Event : e.seq <= lastSequence[e.stream] =>
       \A d \in Requires[e] : d.seq <= lastSequence[d.stream]

(* Whatever the consumer has was published.                                   *)
ReceivedWasPublished ==
  /\ \A e \in inbox : e.seq <= lastSequence[e.stream]
  /\ \A s \in Streams : cursor[s] <= lastSequence[s]
  /\ \A s \in streamRows : lastSequence[s] > 0

(* Reports are made and accepted one after the other, each above the last.     *)
ReportsInTurn ==
  /\ reports \in [Streams -> ReportRecord \cup {NoReport}]
  /\ recorded \in [Streams -> CheckpointRecord \cup {NoReport}]
  /\ \A s \in Streams : reports[s] # NoReport =>
       /\ Past(s, reports[s].checkpoint)
       /\ \A k \in Nat \ {0} : k < reports[s].id => <<s, k>> \in executed
       /\ reports[s].reported => <<s, reports[s].id>> \in executed
  /\ \A s \in Streams : recorded[s] # NoReport =>
       /\ Past(s, recorded[s])
       /\ reports[s] # NoReport
       /\ recorded[s].revision <= reports[s].checkpoint.revision
       /\ Ordered(reports[s].checkpoint, recorded[s])

StatusJob(s, c) ==
  /\ Past(s, c)
  /\ reports[s] # NoReport => Ordered(c, reports[s].checkpoint)
  /\ recorded[s] # NoReport => Ordered(c, recorded[s])

CommandJob(s, r) ==
  /\ reports[s] # NoReport
  /\ r.id <= reports[s].id
  /\ r.id = reports[s].id => r.checkpoint = reports[s].checkpoint

JobSound(g) ==
  /\ step[g] = "replay" => job[g] \in [stream : Streams, after : Nat]
  /\ step[g] = "store" =>
       /\ job[g] \in [stream : Streams, after : Nat, upTo : Nat, more : BOOLEAN]
       /\ job[g].upTo <= lastSequence[job[g].stream]
  /\ step[g] = "expired" => job[g] \in [stream : Streams]
  /\ step[g] = "adopt" =>
       /\ job[g] \in [stream : Streams, through : Seqs]
       /\ job[g].through <= lastSequence[job[g].stream]
  /\ step[g] = "status" =>
       /\ job[g] \in [stream : Streams, status : CheckpointRecord]
       /\ StatusJob(job[g].stream, job[g].status)
  /\ step[g] \in {"submit", "submitted"} =>
       /\ job[g] \in [stream : Streams, command : ReportRecord]
       /\ CommandJob(job[g].stream, job[g].command)
  /\ step[g] = "submitted" => <<job[g].stream, job[g].command.id>> \in executed

JobsSound ==
  /\ step \in [Agents -> {"idle", "replay", "store", "expired", "adopt", "status", "submit",
                          "submitted"}]
  /\ job = [g \in Agents |-> job[g]]
  /\ \A g \in Agents : JobSound(g)

StatusesOrdered ==
  \A g, h \in Agents :
    step[g] = "status" /\ step[h] = "status" /\ job[g].stream = job[h].stream =>
      Ordered(job[g].status, job[h].status)

RecoveryInv ==
  /\ InboxInv /\ SenderSound /\ ReceivedWasPublished /\ ReportsInTurn /\ JobsSound
  /\ StatusesOrdered

-----------------------------------------------------------------------------
LEMMA ReceivedHighBounds ==
  ASSUME InboxInv, NEW s \in Streams
  PROVE  /\ ReceivedHigh(s) \in Rows(s) \cup {0}
         /\ \A m \in Rows(s) : m <= ReceivedHigh(s)
         /\ ReceivedHigh(s) \in Nat
<1> DEFINE N == Rows(s) \cup {0}
           G == {n \in 0..MaxSequence : \A m \in N : m <= n}
           R == OpToRel(<, Nat)
<1>1. MaxSequence \in Nat /\ Rows(s) \subseteq Seqs
  BY InboxAssumption, EventFacts DEF Rows, InboxInv, InboxTypeOK
<1>2. N \subseteq 0..MaxSequence
  BY <1>1 DEF Seqs
<1> HIDE DEF N
<1>3. MaxSequence \in G /\ G \subseteq Nat
  BY <1>1, <1>2
<1>4. IsWellFoundedOn(R, Nat)
  BY NatLessThanWellFounded
<1> HIDE DEF R
<1>5. PICK n \in G : \A m \in G : ~(<<m, n>> \in R)
  BY <1>3, <1>4, WFMin
<1>6. \A m \in G : ~(m < n)
  <2>1. \A m \in G : m \in Nat /\ n \in Nat
    BY <1>3
  <2> QED
    BY <1>5, <2>1 DEF R, OpToRel
<1>7. n \in N
  <2> SUFFICES ASSUME n \notin N
               PROVE  FALSE
    OBVIOUS
  <2>1. \A m \in N : m \in Nat /\ m < n
    BY <1>2
  <2>2. n # 0
    BY DEF N
  <2>3. n - 1 \in G /\ n - 1 < n
    BY <1>1, <1>2, <2>1, <2>2
  <2> QED
    BY <1>6, <2>3
<1>8. n \in N /\ \A m \in Rows(s) : m <= n
  BY <1>7 DEF N
<1>9. \E k \in N : \A m \in Rows(s) : m <= k
  BY <1>8
<1>10. ReceivedHigh(s) \in N /\ \A m \in Rows(s) : m <= ReceivedHigh(s)
  BY <1>9 DEF ReceivedHigh, N
<1> QED
  BY <1>1, <1>2, <1>10 DEF N

LEMMA ThroughPrefix ==
  ASSUME NEW N \in SUBSET Seqs
  PROVE  Through(N) \in 0..MaxSequence /\ 1..Through(N) \subseteq N
  BY ThroughExists DEF Through

(* The status of a stream that has a row is a true checkpoint.                *)
LEMMA CheckpointIsPast ==
  ASSUME InboxInv, SenderSound, ReceivedWasPublished, NEW s \in streamRows
  PROVE  s \in Streams /\ Past(s, Checkpoint(s)) /\ Now[s] = Checkpoint(s)
<1> DEFINE r == ReceivedThrough(s)
           a == AppliedThrough(s)
           h == ReceivedHigh(s)
<1>0. /\ s \in Streams /\ MaxSequence \in Nat
      /\ cursor[s] \in Nat /\ snapshot[s] \in Nat /\ revision \in Nat
      /\ lastSequence[s] \in Nat /\ lastSequence[s] > 0
      /\ snapshot[s] <= cursor[s] /\ cursor[s] <= lastSequence[s]
  BY InboxAssumption DEF InboxInv, InboxTypeOK, HistoryHonest, SenderSound, ReceivedWasPublished
<1>1. Rows(s) \in SUBSET Seqs /\ AppliedRows(s) \in SUBSET Seqs
      /\ AppliedRows(s) \subseteq Rows(s)
  BY EventFacts DEF InboxInv, InboxTypeOK, HistoryHonest, Rows, AppliedRows
<1>2. /\ r \in 0..MaxSequence /\ 1..r \subseteq Rows(s)
      /\ a \in 0..MaxSequence /\ 1..a \subseteq AppliedRows(s)
  BY <1>1, ThroughPrefix DEF ReceivedThrough, AppliedThrough
<1>3. a <= r
  BY <1>1, ThroughGrows DEF ReceivedThrough, AppliedThrough
<1>4. h \in Rows(s) \cup {0} /\ (\A m \in Rows(s) : m <= h) /\ h \in Nat
  BY <1>0, ReceivedHighBounds
<1> HIDE DEF r, a, h
<1>5. r <= h
  <2>1. CASE r = 0
    BY <2>1, <1>4
  <2>2. CASE r # 0
    <3>1. r \in Rows(s)
      BY <2>2, <1>0, <1>2
    <3> QED BY <3>1, <1>4
  <2> QED BY <2>1, <2>2
<1>6. h <= lastSequence[s]
  <2>1. \A m \in Rows(s) : m <= lastSequence[s]
    BY DEF Rows, ReceivedWasPublished
  <2> QED BY <2>1, <1>0, <1>4
<1>7. a <= cursor[s]
  <2> SUFFICES ASSUME a > cursor[s] PROVE FALSE
    BY <1>0, <1>2
  <2>1. a \in AppliedRows(s) /\ a > snapshot[s]
    BY <1>0, <1>2
  <2>2. PICK e \in applied : e.stream = s /\ e.seq = a
    BY <2>1 DEF AppliedRows
  <2>3. e \in Event /\ e.seq > snapshot[e.stream]
    BY <2>1, <2>2 DEF InboxInv, InboxTypeOK
  <2>4. e.seq <= cursor[e.stream]
    BY <2>2, <2>3 DEF InboxInv, HistoryHonest
  <2> QED BY <2>2, <2>4, <1>0, <1>2
<1>8. Checkpoint(s) = [revision |-> revision, receivedThrough |-> r,
         receivedHigh |-> h, appliedThrough |-> a,
         projectedThrough |-> cursor[s], snapshotThrough |-> snapshot[s],
         historyComplete |-> (a >= snapshot[s])]
  BY DEF Checkpoint, HistoryComplete, r, a, h
<1>9. Checkpoint(s) \in CheckpointRecord
  BY <1>0, <1>2, <1>4, <1>8 DEF CheckpointRecord
<1>10. Consistent(s, Checkpoint(s))
  BY <1>0, <1>2, <1>3, <1>4, <1>5, <1>6, <1>7, <1>8 DEF Consistent
<1>11. Now[s] = Checkpoint(s)
  BY <1>0 DEF Now
<1> QED BY <1>0, <1>2, <1>8, <1>9, <1>10, <1>11 DEF Past, CheckpointRecord

LEMMA NowTyped ==
  ASSUME InboxInv, NEW s \in Streams
  PROVE  /\ Now[s].revision = revision /\ revision \in Nat
         /\ Now[s].receivedThrough = ReceivedThrough(s) /\ ReceivedThrough(s) \in Nat
         /\ Now[s].appliedThrough = AppliedThrough(s) /\ AppliedThrough(s) \in Nat
         /\ Now[s].projectedThrough = cursor[s] /\ cursor[s] \in Nat
<1>1. Now[s] = Checkpoint(s)
  BY DEF Now
<1>2. Rows(s) \in SUBSET Seqs /\ AppliedRows(s) \in SUBSET Seqs
  BY EventFacts DEF InboxInv, InboxTypeOK, Rows, AppliedRows
<1>3. ReceivedThrough(s) \in 0..MaxSequence /\ AppliedThrough(s) \in 0..MaxSequence
  BY <1>2, ThroughPrefix DEF ReceivedThrough, AppliedThrough
<1> QED BY <1>1, <1>3, InboxAssumption DEF Checkpoint, InboxInv, InboxTypeOK

LEMMA RevisionAdvances ==
  ASSUME InboxInv, [InboxNext]_inboxVars
  PROVE  /\ revision' >= revision
         /\ revision' = revision => UNCHANGED <<inbox, applied, cursor, snapshot>>
<1>0. revision \in Nat /\ InboxTypeOK
  BY DEF InboxInv, InboxTypeOK
<1>1. ASSUME NEW e \in Event, ApplyEvent(e)
      PROVE  revision' >= revision /\ revision' # revision
  <2>1. PICK skipped \in SUBSET {f \in Selected : Waits(f)} :
             revision' = revision + 1 + Cardinality(skipped)
    BY <1>1 DEF ApplyEvent
  <2>2. Cardinality(skipped) \in Nat
    BY <1>0, SelectedFinite
  <2> QED BY <1>0, <2>1, <2>2
<1>2. ASSUME ApplyNothing
      PROVE  revision' >= revision /\ UNCHANGED <<inbox, applied, cursor, snapshot>>
  <2> DEFINE waiting == {f \in Selected : Waits(f)}
  <2>1. \A S \in SUBSET waiting : Cardinality(S) \in Nat
    BY <1>0, SelectedFinite
  <2>2. \/ revision' = revision + Cardinality(waiting)
        \/ \E skipped \in SUBSET waiting : revision' = revision + 1 + Cardinality(skipped)
    BY <1>2 DEF ApplyNothing
  <2>3. waiting \in SUBSET waiting
    OBVIOUS
  <2> HIDE DEF waiting
  <2>4. revision' >= revision
    BY <1>0, <2>1, <2>2, <2>3
  <2> QED BY <1>2, <2>4 DEF ApplyNothing
<1>3. ASSUME NEW e \in Event, StoreEvent(e)
      PROVE  /\ revision' >= revision
             /\ revision' = revision => UNCHANGED <<inbox, applied, cursor, snapshot>>
  BY <1>0, <1>3 DEF StoreEvent
<1>4. ASSUME NEW s \in Streams, NEW n \in Seqs, AdoptSnapshot(s, n)
      PROVE  /\ revision' >= revision
             /\ revision' = revision => UNCHANGED <<inbox, applied, cursor, snapshot>>
  BY <1>0, <1>4 DEF AdoptSnapshot
<1>5. ASSUME NEW s \in Streams, TouchStream(s)
      PROVE  revision' = revision /\ UNCHANGED <<inbox, applied, cursor, snapshot>>
  BY <1>5 DEF TouchStream
<1>6. CASE UNCHANGED inboxVars
  BY <1>0, <1>6 DEF inboxVars
<1> QED BY <1>0, <1>1, <1>2, <1>3, <1>4, <1>5, <1>6 DEF InboxNext

LEMMA NowAdvances ==
  ASSUME InboxInv, InboxInv', [InboxNext]_inboxVars, NEW s \in Streams
  PROVE  /\ Now'[s].revision >= Now[s].revision
         /\ Now'[s].receivedThrough >= Now[s].receivedThrough
         /\ Now'[s].appliedThrough >= Now[s].appliedThrough
         /\ Now'[s].projectedThrough >= Now[s].projectedThrough
         /\ Now'[s].revision = Now[s].revision => Now'[s] = Now[s]
         /\ Now'[s].revision \in Nat /\ Now'[s].receivedThrough \in Nat
         /\ Now'[s].appliedThrough \in Nat /\ Now'[s].projectedThrough \in Nat
<1>1. /\ Now[s].revision = revision /\ Now[s].receivedThrough = ReceivedThrough(s)
      /\ Now[s].appliedThrough = AppliedThrough(s) /\ Now[s].projectedThrough = cursor[s]
  BY NowTyped
<1>2. /\ Now'[s].revision = revision' /\ Now'[s].receivedThrough = ReceivedThrough(s)'
      /\ Now'[s].appliedThrough = AppliedThrough(s)' /\ Now'[s].projectedThrough = cursor'[s]
  <2>1. Now'[s] = Checkpoint(s)'
    BY DEF Now
  <2> QED BY <2>1 DEF Checkpoint
<1>3. /\ cursor'[s] >= cursor[s] /\ ReceivedThrough(s)' >= ReceivedThrough(s)
      /\ AppliedThrough(s)' >= AppliedThrough(s)
  BY TablesAdvance
<1>4. ASSUME revision' = revision
      PROVE  Now'[s] = Now[s]
  <2>1. UNCHANGED <<inbox, applied, cursor, snapshot, revision>>
    BY <1>4, RevisionAdvances
  <2>2. Checkpoint(s)' = Checkpoint(s)
    BY <2>1 DEF Checkpoint, ReceivedThrough, ReceivedHigh, AppliedThrough, HistoryComplete,
                Rows, AppliedRows, Through
  <2> QED BY <2>2 DEF Now
<1>5. revision' \in Nat /\ cursor'[s] \in Nat
  BY InboxAssumption DEF InboxInv, InboxTypeOK
<1>6. Rows(s)' \in SUBSET Seqs /\ AppliedRows(s)' \in SUBSET Seqs
  BY EventFacts DEF InboxInv, InboxTypeOK, Rows, AppliedRows
<1>7. Through(Rows(s)') \in 0..MaxSequence /\ Through(AppliedRows(s)') \in 0..MaxSequence
  BY <1>6, ThroughPrefix
<1>8. ReceivedThrough(s)' \in Nat /\ AppliedThrough(s)' \in Nat
  BY <1>7, InboxAssumption DEF ReceivedThrough, AppliedThrough, Through
<1> QED BY <1>1, <1>2, <1>3, <1>4, <1>5, <1>8, RevisionAdvances

(* What stays true of a checkpoint when the consumer and the sender go on.    *)
Onwards ==
  \A s \in Streams :
    /\ lastSequence'[s] >= lastSequence[s]
    /\ Now'[s].revision >= Now[s].revision
    /\ Now'[s].receivedThrough >= Now[s].receivedThrough
    /\ Now'[s].appliedThrough >= Now[s].appliedThrough
    /\ Now'[s].projectedThrough >= Now[s].projectedThrough
    /\ Now'[s].revision = Now[s].revision => Now'[s] = Now[s]
    /\ Now'[s].revision \in Nat /\ Now'[s].receivedThrough \in Nat
    /\ Now'[s].appliedThrough \in Nat /\ Now'[s].projectedThrough \in Nat

LEMMA GoesOn ==
  ASSUME RecoveryInv, [InboxNext]_inboxVars,
         \A s \in Streams : lastSequence'[s] >= lastSequence[s]
  PROVE  InboxInv' /\ Onwards
<1>1. InboxInv'
  BY InboxNextInv DEF RecoveryInv
<1> QED BY <1>1, NowAdvances DEF RecoveryInv, Onwards

LEMMA PastStays ==
  ASSUME InboxInv, InboxInv', SenderSound, SenderSound', Onwards
  PROVE  \A s \in Streams : \A c : Past(s, c) => Past(s, c)'
<1> SUFFICES ASSUME NEW s \in Streams, NEW c, Past(s, c)
             PROVE  Past(s, c)'
  OBVIOUS
<1>1. /\ c \in CheckpointRecord
      /\ lastSequence[s] \in Nat /\ lastSequence'[s] \in Nat
  BY InboxAssumption DEF SenderSound, Past
<1>2. /\ Now[s].revision \in Nat /\ Now[s].receivedThrough \in Nat
      /\ Now[s].appliedThrough \in Nat /\ Now[s].projectedThrough \in Nat
  BY NowTyped
<1>3. Now'[s].revision \in Nat /\ Now'[s].receivedThrough \in Nat
      /\ Now'[s].appliedThrough \in Nat /\ Now'[s].projectedThrough \in Nat
  BY DEF Onwards
<1>4. Consistent(s, c)'
  BY <1>1 DEF Past, Consistent, CheckpointRecord, Onwards
<1>5. c.revision <= Now'[s].revision
  BY <1>1, <1>2, <1>3 DEF Past, CheckpointRecord, Onwards
<1>6. /\ c.receivedThrough <= Now'[s].receivedThrough
      /\ c.appliedThrough <= Now'[s].appliedThrough
      /\ c.projectedThrough <= Now'[s].projectedThrough
  BY <1>1, <1>2, <1>3 DEF Past, CheckpointRecord, Onwards
<1>7. c.revision = Now'[s].revision => c = Now'[s]
  BY <1>1, <1>2, <1>3 DEF Past, CheckpointRecord, Onwards
<1> QED BY <1>1, <1>4, <1>5, <1>6, <1>7 DEF Past, Consistent

-----------------------------------------------------------------------------
(* One agent moves, the others stay where they are.                           *)
OnlyMoves(g) ==
  /\ step' \in [Agents -> {"idle", "replay", "store", "expired", "adopt", "status", "submit",
                           "submitted"}]
  /\ job' = [h \in Agents |-> job'[h]]
  /\ \A h \in Agents \ {g} : step'[h] = step[h] /\ job'[h] = job[h]

LEMMA GotoMoves ==
  ASSUME JobsSound, NEW g \in Agents,
         NEW to \in {"idle", "replay", "store", "expired", "adopt", "status", "submit",
                     "submitted"},
         NEW j, Goto(g, to, j)
  PROVE  OnlyMoves(g) /\ step'[g] = to /\ job'[g] = j
<1>1. /\ step \in [Agents -> {"idle", "replay", "store", "expired", "adopt", "status",
                              "submit", "submitted"}]
      /\ job = [h \in Agents |-> job[h]]
  BY DEF JobsSound
<1>2. step' = [step EXCEPT ![g] = to] /\ job' = [job EXCEPT ![g] = j]
  BY DEF Goto
<1>3. \A h \in Agents : job'[h] = IF h = g THEN j ELSE job[h]
  BY <1>1, <1>2
<1>4. job' = [h \in Agents |-> job'[h]]
  BY <1>1, <1>2
<1> QED BY <1>1, <1>2, <1>3, <1>4 DEF OnlyMoves

LEMMA JobStays ==
  ASSUME RecoveryInv, InboxInv', SenderSound', Onwards, NEW h \in Agents,
         step'[h] = step[h], job'[h] = job[h],
         UNCHANGED <<reports, recorded>>, executed \subseteq executed'
  PROVE  JobSound(h)'
<1>1. JobSound(h)
  BY DEF RecoveryInv, JobsSound
<1>2. \A s \in Streams : \A c : Past(s, c) => Past(s, c)'
  BY PastStays DEF RecoveryInv
<1>3. \A s \in Streams : /\ lastSequence'[s] >= lastSequence[s]
                         /\ lastSequence[s] \in Nat /\ lastSequence'[s] \in Nat
  BY InboxAssumption DEF RecoveryInv, SenderSound, Onwards
<1>4. CASE step[h] = "status"
  <2>1. PICK s \in Streams, c \in CheckpointRecord : job[h] = [stream |-> s, status |-> c]
    BY <1>1, <1>4 DEF JobSound
  <2>2. StatusJob(s, c)
    BY <1>1, <1>4, <2>1 DEF JobSound
  <2>3. StatusJob(s, c)'
    BY <1>2, <2>2 DEF StatusJob
  <2>4. job'[h] = [stream |-> s, status |-> c]
    BY <2>1
  <2>5. /\ job'[h].stream = s /\ job'[h].status = c
        /\ job'[h] \in [stream : Streams, status : CheckpointRecord]
    BY <2>4
  <2>6. StatusJob(job[h].stream, job[h].status)'
    BY <2>3, <2>5 DEF StatusJob, Past, Consistent
  <2> QED BY <1>4, <2>5, <2>6 DEF JobSound
<1>5. CASE step[h] = "store"
  <2>1. /\ job[h] \in [stream : Streams, after : Nat, upTo : Nat, more : BOOLEAN]
        /\ job[h].upTo <= lastSequence[job[h].stream]
    BY <1>1, <1>5 DEF JobSound
  <2>2. job[h].stream \in Streams /\ job[h].upTo \in Nat
    BY <2>1
  <2>3. job[h].upTo <= lastSequence'[job[h].stream]
    BY <2>1, <2>2, <1>3
  <2> QED BY <2>1, <2>3, <1>5 DEF JobSound
<1>8. CASE step[h] = "adopt"
  <2>1. /\ job[h] \in [stream : Streams, through : Seqs]
        /\ job[h].through <= lastSequence[job[h].stream]
    BY <1>1, <1>8 DEF JobSound
  <2>2. job[h].stream \in Streams /\ job[h].through \in Nat
    BY <2>1, InboxAssumption DEF Seqs
  <2>3. job[h].through <= lastSequence'[job[h].stream]
    BY <2>1, <2>2, <1>3
  <2> QED BY <2>1, <2>3, <1>8 DEF JobSound
<1>6. CASE step[h] \in {"submit", "submitted"}
  BY <1>1, <1>6 DEF JobSound, CommandJob
<1>7. CASE step[h] \notin {"status", "store", "adopt", "submit", "submitted"}
  BY <1>1, <1>7 DEF JobSound
<1> QED BY <1>4, <1>5, <1>6, <1>7, <1>8

LEMMA ReportsStay ==
  ASSUME RecoveryInv, InboxInv', SenderSound', Onwards, UNCHANGED <<reports, recorded, executed>>
  PROVE  ReportsInTurn'
<1>1. ReportsInTurn
  BY DEF RecoveryInv
<1>2. \A s \in Streams : \A c : Past(s, c) => Past(s, c)'
  BY PastStays DEF RecoveryInv
<1>3. ASSUME NEW s \in Streams, reports[s] # NoReport
      PROVE  Past(s, reports[s].checkpoint)'
  <2>1. PICK c : c = reports[s].checkpoint
    OBVIOUS
  <2>2. Past(s, c)'
    BY <1>1, <1>2, <1>3, <2>1 DEF ReportsInTurn
  <2> QED BY <2>1, <2>2 DEF Past, Consistent
<1>4. ASSUME NEW s \in Streams, recorded[s] # NoReport
      PROVE  Past(s, recorded[s])'
  <2>1. PICK c : c = recorded[s]
    OBVIOUS
  <2>2. Past(s, c)'
    BY <1>1, <1>2, <1>4, <2>1 DEF ReportsInTurn
  <2> QED BY <2>1, <2>2 DEF Past, Consistent
<1> QED BY <1>1, <1>3, <1>4 DEF ReportsInTurn

(* Steps that leave the reports alone: it is enough to look at the agent that  *)
(* moves.                                                                     *)
LEMMA MoveKeeps ==
  ASSUME RecoveryInv, InboxInv', SenderSound', ReceivedWasPublished', Onwards,
         UNCHANGED <<reports, recorded, executed>>,
         NEW g \in Agents, OnlyMoves(g), JobSound(g)', step'[g] # "status"
  PROVE  RecoveryInv'
<1>1. \A h \in Agents : JobSound(h)'
  <2> SUFFICES ASSUME NEW h \in Agents PROVE JobSound(h)'
    OBVIOUS
  <2>1. CASE h = g
    BY <2>1
  <2>2. CASE h # g
    BY <2>2, JobStays DEF OnlyMoves
  <2> QED BY <2>1, <2>2
<1>2. JobsSound'
  BY <1>1 DEF JobsSound, OnlyMoves
<1>3. StatusesOrdered'
  BY DEF StatusesOrdered, OnlyMoves, RecoveryInv
<1> QED BY <1>2, <1>3, ReportsStay DEF RecoveryInv

(* The same for steps in which no agent moves.                                *)
LEMMA StillKeeps ==
  ASSUME RecoveryInv, InboxInv', SenderSound', ReceivedWasPublished', Onwards,
         UNCHANGED <<reports, recorded, executed, step, job>>
  PROVE  RecoveryInv'
<1>1. \A h \in Agents : JobSound(h)'
  BY JobStays
<1>2. JobsSound'
  BY <1>1 DEF JobsSound, RecoveryInv
<1>3. StatusesOrdered'
  BY DEF StatusesOrdered, RecoveryInv
<1> QED BY <1>2, <1>3, ReportsStay DEF RecoveryInv

-----------------------------------------------------------------------------
(* The sender publishes, or its damaged database forgets.                     *)
LEMMA PublishKeeps ==
  ASSUME RecoveryInv, NEW s \in Streams, Publish(s)
  PROVE  RecoveryInv'
<1> DEFINE e == [stream |-> s, seq |-> lastSequence[s] + 1]
<1>0. /\ lastSequence \in [Streams -> 0..MaxSequence] /\ MaxSequence \in Nat
      /\ lastSequence[s] < MaxSequence
      /\ lastSequence' = [lastSequence EXCEPT ![s] = @ + 1] /\ retained' = retained \cup {e}
      /\ UNCHANGED <<inboxVars, cache, recorded, executed, reports, step, job>>
      /\ \A d \in Requires[e] : d.seq <= lastSequence[d.stream]
  BY InboxAssumption DEF Publish, RecoveryInv, SenderSound, agentState
<1>1. e \in Event /\ e.stream = s /\ e.seq = lastSequence[s] + 1
  BY <1>0 DEF Event
<1>2. \A t \in Streams : /\ lastSequence[t] \in Nat /\ lastSequence'[t] \in Nat
                         /\ lastSequence'[t] >= lastSequence[t]
                         /\ t # s => lastSequence'[t] = lastSequence[t]
  BY <1>0
<1>3. lastSequence'[s] = lastSequence[s] + 1
  BY <1>0
<1>4. InboxInv' /\ Onwards
  BY <1>0, <1>2, GoesOn
<1>5. SenderSound'
  <2>1. lastSequence' \in [Streams -> 0..MaxSequence] /\ retained' \subseteq Event
    BY <1>0, <1>1 DEF RecoveryInv, SenderSound
  <2>2. \A f \in retained' : f.seq <= lastSequence'[f.stream]
    <3> SUFFICES ASSUME NEW f \in retained'
                 PROVE  f.seq <= lastSequence'[f.stream]
      OBVIOUS
    <3>1. CASE f = e
      <4>1. f.stream = s /\ f.seq = lastSequence'[s]
        BY <3>1, <1>1, <1>3
      <4> QED BY <4>1, <1>2
    <3>2. CASE f \in retained
      <4>1. f \in Event /\ f.seq <= lastSequence[f.stream]
        BY <3>2 DEF RecoveryInv, SenderSound
      <4> QED BY <4>1, <1>2, EventFacts
    <3> QED BY <3>1, <3>2, <1>0
  <2>3. ASSUME NEW f \in Event, f.seq <= lastSequence'[f.stream], NEW d \in Requires[f]
        PROVE  d.seq <= lastSequence'[d.stream]
    <3>0. d \in Event /\ f.stream \in Streams /\ f.seq \in Nat /\ f.seq > 0
      <4>1. d \in Event
        BY InboxAssumption
      <4> QED BY <4>1, EventFacts, InboxAssumption DEF Seqs
    <3>1. d.seq <= lastSequence[d.stream]
      <4>1. CASE f.seq <= lastSequence[f.stream]
        BY <4>1 DEF RecoveryInv, SenderSound
      <4>2. CASE f.seq > lastSequence[f.stream]
        <5>1. f.stream = s /\ f.seq = lastSequence[s] + 1
          BY <4>2, <2>3, <1>2, <1>3, <3>0
        <5>2. f = e
          BY <5>1 DEF Event
        <5> QED BY <5>2, <1>0
      <4> QED BY <4>1, <4>2, <1>2, <3>0
    <3> QED BY <3>0, <3>1, <1>2, EventFacts
  <2> QED BY <2>1, <2>2, <2>3 DEF SenderSound
<1>6. ReceivedWasPublished'
  <2>1. \A f \in inbox : f \in Event
    BY DEF RecoveryInv, InboxInv, InboxTypeOK
  <2>2. \A t \in Streams : cursor[t] \in Nat
    BY NowTyped DEF RecoveryInv
  <2>3. \A f \in inbox' : f.seq <= lastSequence'[f.stream]
    BY <2>1, <1>0, <1>2, EventFacts DEF inboxVars, RecoveryInv, ReceivedWasPublished
  <2>4. \A t \in Streams : cursor'[t] <= lastSequence'[t]
    BY <2>2, <1>0, <1>2 DEF inboxVars, RecoveryInv, ReceivedWasPublished
  <2>5. \A t \in streamRows' : lastSequence'[t] > 0
    BY <1>0, <1>2 DEF inboxVars, RecoveryInv, ReceivedWasPublished, InboxInv, InboxTypeOK
  <2> QED BY <2>3, <2>4, <2>5 DEF ReceivedWasPublished
<1> QED BY <1>0, <1>4, <1>5, <1>6, StillKeeps

(* Steps in which the sender does not publish.                                *)
LEMMA SenderStays ==
  ASSUME RecoveryInv, lastSequence' = lastSequence, retained' \subseteq retained
  PROVE  SenderSound' /\ (\A s \in Streams : lastSequence'[s] >= lastSequence[s])
  BY InboxAssumption DEF RecoveryInv, SenderSound

LEMMA TablesStay ==
  ASSUME RecoveryInv, lastSequence' = lastSequence, UNCHANGED inboxVars
  PROVE  ReceivedWasPublished'
  BY DEF RecoveryInv, ReceivedWasPublished, inboxVars

(* An event is stored, applied, or a snapshot adopted: all of it published.    *)
LEMMA StoreFacts ==
  ASSUME RecoveryInv, lastSequence' = lastSequence, NEW e \in Event,
         e.seq <= lastSequence[e.stream], StoreEvent(e)
  PROVE  [InboxNext]_inboxVars /\ ReceivedWasPublished'
<1>1. [InboxNext]_inboxVars
  BY DEF InboxNext
<1>2. lastSequence[e.stream] > 0
  <2>1. e.seq \in Nat /\ e.seq > 0 /\ e.stream \in Streams /\ lastSequence[e.stream] \in Nat
    BY InboxAssumption DEF Event, RecoveryInv, SenderSound
  <2> QED BY <2>1
<1> QED BY <1>1, <1>2 DEF StoreEvent, RecoveryInv, ReceivedWasPublished

LEMMA AdoptFacts ==
  ASSUME RecoveryInv, lastSequence' = lastSequence, NEW s \in Streams, NEW n \in Seqs,
         n <= lastSequence[s], AdoptSnapshot(s, n)
  PROVE  [InboxNext]_inboxVars /\ ReceivedWasPublished'
<1>1. [InboxNext]_inboxVars
  BY DEF InboxNext
<1>2. n \in Nat /\ n > 0 /\ lastSequence[s] \in Nat
  BY InboxAssumption DEF Seqs, RecoveryInv, SenderSound
<1>3. cursor \in [Streams -> 0..MaxSequence]
  BY DEF RecoveryInv, InboxInv, InboxTypeOK
<1>4. \A t \in Streams : cursor'[t] <= lastSequence[t]
  BY <1>2, <1>3 DEF AdoptSnapshot, RecoveryInv, ReceivedWasPublished
<1> QED BY <1>1, <1>2, <1>4 DEF AdoptSnapshot, RecoveryInv, ReceivedWasPublished

LEMMA ApplyFacts ==
  ASSUME RecoveryInv, lastSequence' = lastSequence,
         (\E e \in Event : ApplyEvent(e)) \/ ApplyNothing
  PROVE  [InboxNext]_inboxVars /\ ReceivedWasPublished'
<1>1. [InboxNext]_inboxVars
  BY DEF InboxNext
<1>2. ASSUME NEW e \in Event, ApplyEvent(e)
      PROVE  ReceivedWasPublished'
  <2>1. /\ e \in inbox /\ UNCHANGED inbox
        /\ cursor' = cursor \/ cursor' = [cursor EXCEPT ![e.stream] = e.seq]
    BY <1>2, ApplicationEffect DEF RecoveryInv, InboxInv
  <2>2. streamRows' = streamRows
    BY <1>2 DEF ApplyEvent
  <2>3. cursor \in [Streams -> 0..MaxSequence] /\ e.seq <= lastSequence[e.stream]
    BY <2>1 DEF RecoveryInv, InboxInv, InboxTypeOK, ReceivedWasPublished
  <2>4. \A t \in Streams : cursor'[t] <= lastSequence[t]
    BY <2>1, <2>3 DEF RecoveryInv, ReceivedWasPublished
  <2> QED BY <2>1, <2>2, <2>4 DEF RecoveryInv, ReceivedWasPublished
<1>3. ASSUME ApplyNothing
      PROVE  ReceivedWasPublished'
  BY <1>3 DEF ApplyNothing, RecoveryInv, ReceivedWasPublished
<1> QED BY <1>1, <1>2, <1>3

-----------------------------------------------------------------------------
(* What an agent does.                                                        *)
LEMMA JobOf ==
  ASSUME RecoveryInv, NEW g \in Agents
  PROVE  JobSound(g)
  BY DEF RecoveryInv, JobsSound

LEMMA HeadOf ==
  ASSUME RecoveryInv, NEW s \in Streams
  PROVE  lastSequence[s] \in 0..MaxSequence /\ lastSequence[s] \in Nat /\ MaxSequence \in Nat
  BY InboxAssumption DEF RecoveryInv, SenderSound

LEMMA BeginKeeps ==
  ASSUME RecoveryInv, NEW g \in Agents, NEW s \in Streams, BeginReconcile(g, s)
  PROVE  RecoveryInv'
<1> DEFINE j == [stream |-> s, after |-> ReceivedThrough(s)]
<1>0. /\ TouchStream(s) /\ NeedsReconciling(s) /\ Goto(g, "replay", j)
      /\ UNCHANGED <<senderTables, reports>>
  BY DEF BeginReconcile
<1>1. lastSequence[s] > 0
  <2>1. CASE s \in streamRows
    BY <2>1 DEF RecoveryInv, ReceivedWasPublished
  <2>2. ASSUME NEW e \in Selected, NEW d \in Requires[e], d.stream = s
        PROVE  lastSequence[s] > 0
    <3>1. e \in inbox /\ e \in Event /\ e.seq <= lastSequence[e.stream]
      BY DEF Selected, RecoveryInv, InboxInv, InboxTypeOK, ReceivedWasPublished
    <3>2. d \in Event /\ d.seq <= lastSequence[d.stream]
      BY <3>1, InboxAssumption DEF RecoveryInv, SenderSound
    <3>3. d.seq \in Nat /\ d.seq > 0 /\ lastSequence[s] \in Nat
      BY <3>2, EventFacts, InboxAssumption DEF Seqs, RecoveryInv, SenderSound
    <3> QED BY <3>2, <3>3, <2>2
  <2> QED BY <2>1, <2>2, <1>0 DEF NeedsReconciling
<1>2. [InboxNext]_inboxVars
  BY <1>0 DEF InboxNext
<1>3. SenderSound' /\ InboxInv' /\ Onwards
  BY <1>0, <1>2, SenderStays, GoesOn DEF senderTables
<1>4. ReceivedWasPublished'
  BY <1>0, <1>1 DEF TouchStream, senderTables, RecoveryInv, ReceivedWasPublished
<1>5. OnlyMoves(g) /\ step'[g] = "replay" /\ job'[g] = j
  BY <1>0, GotoMoves DEF RecoveryInv
<1>6. j \in [stream : Streams, after : Nat]
  BY NowTyped DEF RecoveryInv
<1> HIDE DEF j
<1>7. JobSound(g)'
  BY <1>5, <1>6 DEF JobSound
<1> QED BY <1>0, <1>3, <1>4, <1>5, <1>7, MoveKeeps DEF senderTables

LEMMA FetchReplayKeeps ==
  ASSUME RecoveryInv, NEW g \in Agents, FetchReplay(g)
  PROVE  RecoveryInv'
<1> DEFINE s == job[g].stream
           after == job[g].after
           head == lastSequence[s]
           upTo == Lesser(head, after + PageLimit)
           j == [stream |-> s, after |-> after, upTo |-> upTo, more |-> (head > after + PageLimit)]
<1>0. /\ step[g] = "replay" /\ UNCHANGED <<inboxVars, senderTables, reports>>
      /\ Goto(g, "store", j) \/ Goto(g, "expired", [stream |-> s])
  BY DEF FetchReplay
<1>1. s \in Streams /\ after \in Nat /\ head \in Nat
  BY <1>0, JobOf, HeadOf DEF JobSound
<1>2. upTo \in Nat /\ upTo <= head
  BY <1>1, RecoveryAssumption DEF Lesser
<1>3. SenderSound' /\ InboxInv' /\ Onwards /\ ReceivedWasPublished'
  BY <1>0, SenderStays, GoesOn, TablesStay DEF senderTables
<1>4. CASE Goto(g, "store", j)
  <2>1. OnlyMoves(g) /\ step'[g] = "store" /\ job'[g] = j
    BY <1>4, GotoMoves DEF RecoveryInv
  <2>2. lastSequence'[j.stream] = head /\ j.upTo = upTo
    BY <1>0 DEF senderTables
  <2>3. j \in [stream : Streams, after : Nat, upTo : Nat, more : BOOLEAN]
    BY <1>1, <1>2
  <2> HIDE DEF j
  <2>4. JobSound(g)'
    BY <2>1, <2>2, <2>3, <1>2 DEF JobSound
  <2> QED BY <1>0, <1>3, <2>1, <2>4, MoveKeeps DEF senderTables
<1>5. CASE Goto(g, "expired", [stream |-> s])
  <2>1. OnlyMoves(g) /\ step'[g] = "expired" /\ job'[g] = [stream |-> s]
    BY <1>5, GotoMoves DEF RecoveryInv
  <2>2. JobSound(g)'
    BY <2>1, <1>1 DEF JobSound
  <2> QED BY <1>0, <1>3, <2>1, <2>2, MoveKeeps DEF senderTables
<1> QED BY <1>0, <1>4, <1>5

LEMMA StoreKeeps ==
  ASSUME RecoveryInv, NEW g \in Agents, StoreReplayed(g)
  PROVE  RecoveryInv'
<1> DEFINE e == [stream |-> job[g].stream, seq |-> job[g].after + 1]
           j == [job[g] EXCEPT !.after = @ + 1]
<1>0. /\ step[g] = "store" /\ job[g].after < job[g].upTo
      /\ StoreEvent(e) /\ Goto(g, "store", j) /\ UNCHANGED <<senderTables, reports>>
  BY DEF StoreReplayed
<1>1. /\ job[g] \in [stream : Streams, after : Nat, upTo : Nat, more : BOOLEAN]
      /\ job[g].upTo <= lastSequence[job[g].stream]
  BY <1>0, JobOf DEF JobSound
<1>2. lastSequence[job[g].stream] \in 0..MaxSequence /\ MaxSequence \in Nat
  BY <1>1, InboxAssumption DEF RecoveryInv, SenderSound
<1>3. e.stream = job[g].stream /\ e.seq = job[g].after + 1 /\ e.seq <= lastSequence[e.stream]
  BY <1>0, <1>1, <1>2
<1>4. e \in Event
  BY <1>1, <1>2, <1>3 DEF Event
<1>5. /\ j \in [stream : Streams, after : Nat, upTo : Nat, more : BOOLEAN]
      /\ j.upTo = job[g].upTo /\ j.stream = job[g].stream
  BY <1>1
<1> HIDE DEF e, j
<1>6. [InboxNext]_inboxVars /\ ReceivedWasPublished'
  BY <1>0, <1>3, <1>4, StoreFacts DEF senderTables
<1>7. SenderSound' /\ InboxInv' /\ Onwards
  BY <1>0, <1>6, SenderStays, GoesOn DEF senderTables
<1>8. OnlyMoves(g) /\ step'[g] = "store" /\ job'[g] = j
  BY <1>0, GotoMoves DEF RecoveryInv
<1>9. JobSound(g)'
  BY <1>0, <1>1, <1>5, <1>8 DEF JobSound, senderTables
<1> QED BY <1>0, <1>6, <1>7, <1>8, <1>9, MoveKeeps DEF senderTables

(* Steps that move on without touching a table.                               *)
LEMMA QuietKeeps ==
  ASSUME RecoveryInv, NEW g \in Agents, UNCHANGED <<inboxVars, lastSequence, retained>>,
         UNCHANGED <<reports, recorded, executed>>,
         OnlyMoves(g), JobSound(g)', step'[g] # "status"
  PROVE  RecoveryInv'
  BY SenderStays, GoesOn, TablesStay, MoveKeeps

LEMMA RestKeeps ==
  ASSUME RecoveryInv, NEW g \in Agents, Rest(g),
         UNCHANGED <<inboxVars, lastSequence, retained, reports, recorded, executed>>
  PROVE  RecoveryInv'
<1>1. OnlyMoves(g) /\ step'[g] = "idle"
  BY GotoMoves DEF RecoveryInv, Rest
<1>2. JobSound(g)'
  BY <1>1 DEF JobSound
<1> QED BY <1>1, <1>2, QuietKeeps

LEMMA EndPageKeeps ==
  ASSUME RecoveryInv, NEW g \in Agents, EndPage(g)
  PROVE  RecoveryInv'
<1> DEFINE j == [stream |-> job[g].stream, after |-> job[g].after]
<1>0. /\ step[g] = "store" /\ (Goto(g, "replay", j) \/ Rest(g))
      /\ UNCHANGED <<inboxVars, senderTables, reports>>
  BY DEF EndPage
<1>1. CASE Goto(g, "replay", j)
  <2>1. OnlyMoves(g) /\ step'[g] = "replay" /\ job'[g] = j
    BY <1>1, GotoMoves DEF RecoveryInv
  <2>2. j \in [stream : Streams, after : Nat]
    BY <1>0, JobOf DEF JobSound
  <2> HIDE DEF j
  <2>3. JobSound(g)'
    BY <2>1, <2>2 DEF JobSound
  <2> QED BY <1>0, <2>1, <2>3, QuietKeeps DEF senderTables
<1>2. CASE Rest(g)
  BY <1>0, <1>2, RestKeeps DEF senderTables
<1> QED BY <1>0, <1>1, <1>2

LEMMA FetchSnapshotKeeps ==
  ASSUME RecoveryInv, NEW g \in Agents, FetchSnapshot(g)
  PROVE  RecoveryInv'
<1> DEFINE s == job[g].stream
           j == [stream |-> s, through |-> lastSequence[s]]
<1>0. /\ step[g] = "expired"
      /\ UNCHANGED <<inboxVars, lastSequence, retained, recorded, executed, reports>>
      /\ (lastSequence[s] > 0 /\ Goto(g, "adopt", j)) \/ Rest(g)
  BY DEF FetchSnapshot, Extendable
<1>1. CASE lastSequence[s] > 0 /\ Goto(g, "adopt", j)
  <2>1. OnlyMoves(g) /\ step'[g] = "adopt" /\ job'[g] = j
    BY <1>1, GotoMoves DEF RecoveryInv
  <2>2. s \in Streams /\ lastSequence[s] \in Seqs /\ lastSequence[s] <= lastSequence[s]
    <3>1. s \in Streams
      BY <1>0, JobOf DEF JobSound
    <3>2. lastSequence[s] \in 0..MaxSequence /\ lastSequence[s] \in Nat /\ lastSequence[s] > 0
      BY <3>1, <1>1, HeadOf
    <3> QED BY <3>1, <3>2 DEF Seqs
  <2>3. /\ j \in [stream : Streams, through : Seqs] /\ j.through <= lastSequence[j.stream]
    BY <2>2
  <2> HIDE DEF j
  <2>4. JobSound(g)'
    BY <2>1, <2>3, <1>0 DEF JobSound
  <2> QED BY <1>0, <2>1, <2>4, QuietKeeps
<1>2. CASE Rest(g)
  BY <1>0, <1>2, RestKeeps
<1> QED BY <1>0, <1>1, <1>2

LEMMA AdoptKeeps ==
  ASSUME RecoveryInv, NEW g \in Agents, AdoptFetched(g)
  PROVE  RecoveryInv'
<1>0. /\ step[g] = "adopt" /\ AdoptSnapshot(job[g].stream, job[g].through) /\ Rest(g)
      /\ UNCHANGED <<senderTables, reports>>
  BY DEF AdoptFetched
<1>1. /\ job[g].stream \in Streams /\ job[g].through \in Seqs
      /\ job[g].through <= lastSequence[job[g].stream]
  BY <1>0, JobOf DEF JobSound
<1>2. [InboxNext]_inboxVars /\ ReceivedWasPublished'
  BY <1>0, <1>1, AdoptFacts DEF senderTables
<1>3. SenderSound' /\ InboxInv' /\ Onwards
  BY <1>0, <1>2, SenderStays, GoesOn DEF senderTables
<1>4. OnlyMoves(g) /\ step'[g] = "idle"
  BY <1>0, GotoMoves DEF RecoveryInv, Rest
<1>5. JobSound(g)'
  BY <1>4 DEF JobSound
<1> QED BY <1>0, <1>2, <1>3, <1>4, <1>5, MoveKeeps DEF senderTables

LEMMA OrderedBack ==
  ASSUME NEW c, NEW d, Ordered(c, d)
  PROVE  Ordered(d, c)
  BY DEF Ordered

(* What can be reported now is not behind anything that could be before.       *)
LEMMA NowIsLast ==
  ASSUME RecoveryInv, NEW s \in Streams, NEW c, Past(s, c), Past(s, Now[s])
  PROVE  Ordered(Now[s], c)
<1>1. c \in CheckpointRecord /\ Now[s] \in CheckpointRecord
  BY DEF Past
<1>2. ~Regressed(Now[s], c)
  BY <1>1 DEF Past, Regressed, CheckpointRecord
<1>3. ASSUME c.revision >= Now[s].revision
      PROVE  ~Regressed(c, Now[s])
  <2>1. c = Now[s]
    BY <1>1, <1>3 DEF Past, CheckpointRecord
  <2> QED BY <2>1, <1>1 DEF Regressed, CheckpointRecord
<1> QED BY <1>2, <1>3 DEF Ordered

LEMMA ReadStatusKeeps ==
  ASSUME RecoveryInv, NEW g \in Agents, NEW s \in Streams, ReadStatus(g, s)
  PROVE  RecoveryInv'
<1> DEFINE j == [stream |-> s, status |-> Now[s]]
<1>0. /\ s \in streamRows /\ UNCHANGED <<inboxVars, senderTables, reports>>
      /\ Goto(g, "status", [stream |-> s, status |-> Checkpoint(s)])
  BY DEF ReadStatus
<1>1. Past(s, Now[s]) /\ Now[s] = Checkpoint(s)
  BY <1>0, CheckpointIsPast DEF RecoveryInv
<1>2. SenderSound' /\ InboxInv' /\ Onwards /\ ReceivedWasPublished'
  BY <1>0, SenderStays, GoesOn, TablesStay DEF senderTables
<1>3. Now' = Now
  BY <1>0 DEF Now, Checkpoint, ReceivedThrough, ReceivedHigh, AppliedThrough, HistoryComplete,
              Rows, AppliedRows, Through, inboxVars
<1>4. OnlyMoves(g) /\ step'[g] = "status" /\ job'[g] = j
  BY <1>0, <1>1, GotoMoves DEF RecoveryInv
<1>5. StatusJob(s, Now[s])
  BY <1>1, NowIsLast DEF StatusJob, RecoveryInv, ReportsInTurn
<1>6. j \in [stream : Streams, status : CheckpointRecord] /\ j.stream = s /\ j.status = Now[s]
  BY <1>1 DEF Past
<1> HIDE DEF j
<1>7. \A h \in Agents : JobSound(h)'
  <2> SUFFICES ASSUME NEW h \in Agents PROVE JobSound(h)'
    OBVIOUS
  <2>1. CASE h = g
    <3>1. StatusJob(job[h].stream, job[h].status)'
      BY <2>1, <1>0, <1>3, <1>4, <1>5, <1>6
         DEF StatusJob, Past, Consistent, senderTables
    <3> QED BY <2>1, <3>1, <1>4, <1>6 DEF JobSound
  <2>2. CASE h # g
    BY <2>2, <1>0, <1>2, <1>4, JobStays DEF OnlyMoves, senderTables
  <2> QED BY <2>1, <2>2
<1>8. JobsSound'
  BY <1>4, <1>7 DEF JobsSound, OnlyMoves
<1>9. StatusesOrdered'
  <2>1. ASSUME NEW h \in Agents, h # g, step[h] = "status", job[h].stream = s
        PROVE  Ordered(Now[s], job[h].status)
    <3>1. Past(s, job[h].status)
      BY <2>1, JobOf DEF JobSound, StatusJob
    <3> QED BY <3>1, <1>1, NowIsLast
  <2>2. Ordered(Now[s], Now[s])
    BY <1>1, NowIsLast
  <2> SUFFICES ASSUME NEW h \in Agents, NEW k \in Agents, step'[h] = "status",
                      step'[k] = "status", job'[h].stream = job'[k].stream
               PROVE  Ordered(job'[h].status, job'[k].status)
    BY DEF StatusesOrdered
  <2>3. CASE h = g /\ k = g
    BY <2>2, <2>3, <1>4, <1>6
  <2>4. CASE h = g /\ k # g
    BY <2>1, <2>4, <1>4, <1>6 DEF OnlyMoves
  <2>5. CASE h # g /\ k = g
    BY <2>1, <2>5, <1>4, <1>6, OrderedBack DEF OnlyMoves
  <2>6. CASE h # g /\ k # g
    BY <2>6, <1>4 DEF OnlyMoves, RecoveryInv, StatusesOrdered
  <2> QED BY <2>3, <2>4, <2>5, <2>6
<1> QED BY <1>0, <1>2, <1>8, <1>9, ReportsStay DEF RecoveryInv, senderTables

(* Steps that only touch reports.                                             *)
LEMMA TablesSame ==
  ASSUME RecoveryInv, UNCHANGED <<inboxVars, lastSequence, retained>>
  PROVE  /\ SenderSound' /\ InboxInv' /\ Onwards /\ ReceivedWasPublished'
         /\ Now' = Now /\ lastSequence' = lastSequence
<1>1. Now' = Now
  BY DEF Now, Checkpoint, ReceivedThrough, ReceivedHigh, AppliedThrough, HistoryComplete,
         Rows, AppliedRows, Through, inboxVars
<1> QED BY <1>1, SenderStays, GoesOn, TablesStay

LEMMA ReportOf ==
  ASSUME RecoveryInv, NEW s \in Streams, reports[s] # NoReport
  PROVE  /\ reports[s] \in ReportRecord
         /\ reports[s].id \in Nat \ {0} /\ reports[s].checkpoint \in CheckpointRecord
         /\ Past(s, reports[s].checkpoint)
         /\ \A k \in Nat \ {0} : k < reports[s].id => <<s, k>> \in executed
         /\ reports[s].reported => <<s, reports[s].id>> \in executed
  BY DEF RecoveryInv, ReportsInTurn, ReportRecord

LEMMA RecordOf ==
  ASSUME RecoveryInv, NEW s \in Streams, recorded[s] # NoReport
  PROVE  /\ recorded[s] \in CheckpointRecord /\ Past(s, recorded[s])
         /\ reports[s] # NoReport
         /\ recorded[s].revision <= reports[s].checkpoint.revision
         /\ Ordered(reports[s].checkpoint, recorded[s])
  BY DEF RecoveryInv, ReportsInTurn

LEMMA SaveKeeps ==
  ASSUME RecoveryInv, NEW g \in Agents, SaveReport(g)
  PROVE  RecoveryInv'
<1> DEFINE s == job[g].stream
           c == job[g].status
           old == reports[s]
           new == [id |-> IF old = NoReport THEN 1 ELSE old.id + 1, checkpoint |-> c,
                   reported |-> FALSE]
<1>0. step[g] = "status" /\ UNCHANGED <<inboxVars, senderTables>>
  BY DEF SaveReport
<1>1. s \in Streams /\ c \in CheckpointRecord /\ StatusJob(s, c)
  BY <1>0, JobOf DEF JobSound
<1>2. CASE old # NoReport /\ ~old.reported
  <2>1. Goto(g, "submit", [stream |-> s, command |-> old]) /\ UNCHANGED reports
    BY <1>2 DEF SaveReport
  <2>2. OnlyMoves(g) /\ step'[g] = "submit" /\ job'[g] = [stream |-> s, command |-> old]
    BY <2>1, GotoMoves DEF RecoveryInv
  <2>3. old \in ReportRecord /\ old.id \in Nat
    BY <1>1, <1>2, ReportOf
  <2>4. JobSound(g)'
    BY <1>1, <1>2, <2>1, <2>2, <2>3 DEF JobSound, CommandJob
  <2> QED BY <1>0, <2>1, <2>2, <2>4, QuietKeeps DEF senderTables
<1>3. CASE ~(old # NoReport /\ ~old.reported)
           /\ old # NoReport /\ old.checkpoint.revision >= c.revision
  <2>1. Rest(g) /\ UNCHANGED reports
    BY <1>3 DEF SaveReport
  <2> QED BY <1>0, <2>1, RestKeeps DEF senderTables
<1>4. CASE ~(old # NoReport /\ ~old.reported)
           /\ ~(old # NoReport /\ old.checkpoint.revision >= c.revision)
  <2>1. reports' = [reports EXCEPT ![s] = new] /\ Goto(g, "submit", [stream |-> s, command |-> new])
    BY <1>4 DEF SaveReport
  <2>2. new \in ReportRecord /\ new # NoReport
    <3>1. (IF old = NoReport THEN 1 ELSE old.id + 1) \in Nat \ {0}
      <4>1. CASE old = NoReport
        BY <4>1
      <4>2. CASE old # NoReport
        <5>1. old.id \in Nat
          BY <4>2, <1>1, ReportOf
        <5> QED BY <4>2, <5>1
      <4> QED BY <4>1, <4>2
    <3>2. \A n \in Nat \ {0} :
            [id |-> n, checkpoint |-> c, reported |-> FALSE] \in ReportRecord
      BY <1>1 DEF ReportRecord
    <3>3. new \in ReportRecord
      BY <3>1, <3>2
    <3>4. NoReport \notin ReportRecord
      BY RecoveryAssumption
    <3> HIDE DEF new
    <3> QED BY <3>3, <3>4
  <2>3. /\ new.checkpoint = c /\ ~new.reported
        /\ old = NoReport => new.id = 1
        /\ old # NoReport => new.id = old.id + 1
    OBVIOUS
  <2>4. OnlyMoves(g) /\ step'[g] = "submit" /\ job'[g] = [stream |-> s, command |-> new]
    BY <2>1, GotoMoves DEF RecoveryInv
  <2> HIDE DEF new
  <2>5. /\ reports' \in [Streams -> ReportRecord \cup {NoReport}] /\ reports'[s] = new
        /\ \A t \in Streams \ {s} : reports'[t] = reports[t]
    BY <1>1, <2>1, <2>2 DEF RecoveryInv, ReportsInTurn
  <2>6. /\ SenderSound' /\ InboxInv' /\ Onwards /\ ReceivedWasPublished' /\ Now' = Now
        /\ UNCHANGED <<lastSequence, executed, recorded>>
    BY <1>0, TablesSame DEF senderTables
  <2>7. \A k \in Nat \ {0} : k < new.id => <<s, k>> \in executed
    <3>1. CASE old = NoReport
      BY <3>1, <2>3
    <3>2. CASE old # NoReport
      <4>1. /\ old.id \in Nat /\ <<s, old.id>> \in executed
            /\ \A k \in Nat \ {0} : k < old.id => <<s, k>> \in executed
        BY <1>1, <1>4, <3>2, ReportOf
      <4>2. \A k \in Nat \ {0} : k < old.id + 1 => k < old.id \/ k = old.id
        BY <4>1
      <4> QED BY <4>1, <4>2, <2>3, <3>2
    <3> QED BY <3>1, <3>2
  <2>8. ReportsInTurn'
    <3>1. ASSUME NEW t \in Streams, reports'[t] # NoReport
          PROVE  /\ Past(t, reports'[t].checkpoint)
                 /\ \A k \in Nat \ {0} : k < reports'[t].id => <<t, k>> \in executed
                 /\ reports'[t].reported => <<t, reports'[t].id>> \in executed
      <4>1. CASE t = s
        BY <4>1, <1>1, <2>3, <2>5, <2>7 DEF StatusJob
      <4>2. CASE t # s
        BY <4>2, <2>5, <3>1, ReportOf
      <4> QED BY <4>1, <4>2
    <3>2. ASSUME NEW t \in Streams, recorded[t] # NoReport
          PROVE  /\ Past(t, recorded[t]) /\ reports'[t] # NoReport
                 /\ recorded[t].revision <= reports'[t].checkpoint.revision
                 /\ Ordered(reports'[t].checkpoint, recorded[t])
      <4>1. CASE t = s
        <5>1. old # NoReport /\ recorded[s].revision <= old.checkpoint.revision
          BY <1>1, <3>2, <4>1, RecordOf
        <5>2. ~(old.checkpoint.revision >= c.revision)
          BY <1>4, <5>1
        <5>3. old.checkpoint \in CheckpointRecord /\ recorded[s] \in CheckpointRecord
          BY <1>1, <3>2, <4>1, <5>1, ReportOf, RecordOf
        <5>4. recorded[s].revision <= c.revision
          BY <1>1, <5>1, <5>2, <5>3 DEF CheckpointRecord
        <5> QED BY <1>1, <2>2, <2>3, <2>5, <3>2, <4>1, <5>4, RecordOf DEF StatusJob
      <4>2. CASE t # s
        BY <4>2, <2>5, <3>2, RecordOf
      <4> QED BY <4>1, <4>2
    <3> QED BY <2>5, <2>6, <3>1, <3>2 DEF ReportsInTurn, Past, Consistent, RecoveryInv
  <2>9. \A h \in Agents : JobSound(h)'
    <3> SUFFICES ASSUME NEW h \in Agents PROVE JobSound(h)'
      OBVIOUS
    <3>1. CASE h = g
      BY <1>1, <2>2, <2>4, <2>5, <3>1 DEF JobSound, CommandJob, ReportRecord
    <3>2. CASE h # g
      <4>0. step'[h] = step[h] /\ job'[h] = job[h] /\ JobSound(h)
        BY <3>2, <2>4, JobOf DEF OnlyMoves
      <4>1. CASE step[h] = "status"
        <5>1. /\ job[h] \in [stream : Streams, status : CheckpointRecord]
              /\ StatusJob(job[h].stream, job[h].status)
          BY <4>0, <4>1 DEF JobSound
        <5>2. reports'[job[h].stream] # NoReport =>
                Ordered(job[h].status, reports'[job[h].stream].checkpoint)
          <6>1. CASE job[h].stream = s
            BY <6>1, <4>1, <1>0, <2>3, <2>5 DEF RecoveryInv, StatusesOrdered
          <6>2. CASE job[h].stream # s
            BY <6>2, <5>1, <2>5 DEF StatusJob
          <6> QED BY <6>1, <6>2
        <5>3. StatusJob(job[h].stream, job[h].status)'
          BY <5>1, <5>2, <4>0, <2>6 DEF StatusJob, Past, Consistent
        <5> QED BY <5>1, <5>3, <4>0, <4>1 DEF JobSound
      <4>2. CASE step[h] \in {"submit", "submitted"}
        <5>1. /\ job[h] \in [stream : Streams, command : ReportRecord]
              /\ CommandJob(job[h].stream, job[h].command)
              /\ step[h] = "submitted" => <<job[h].stream, job[h].command.id>> \in executed
          BY <4>0, <4>2 DEF JobSound
        <5>2. CASE job[h].stream = s
          <6>1. old # NoReport /\ job[h].command.id <= old.id /\ job[h].command.id \in Nat
            BY <5>1, <5>2 DEF CommandJob, ReportRecord
          <6>2. job[h].command.id < new.id /\ new.id \in Nat
            <7>1. old.id \in Nat /\ new.id = old.id + 1
              BY <1>1, <6>1, <2>3, ReportOf
            <7> QED BY <6>1, <7>1
          <6>3. CommandJob(job[h].stream, job[h].command)'
            BY <6>1, <6>2, <5>2, <4>0, <2>2, <2>5 DEF CommandJob
          <6> QED BY <5>1, <6>3, <4>0, <4>2, <2>6 DEF JobSound
        <5>3. CASE job[h].stream # s
          <6>1. CommandJob(job[h].stream, job[h].command)'
            BY <5>1, <5>3, <4>0, <2>5 DEF CommandJob
          <6> QED BY <5>1, <6>1, <4>0, <4>2, <2>6 DEF JobSound
        <5> QED BY <5>2, <5>3
      <4>3. CASE step[h] \notin {"status", "submit", "submitted"}
        BY <4>0, <4>3, <2>6 DEF JobSound
      <4> QED BY <4>1, <4>2, <4>3
    <3> QED BY <3>1, <3>2
  <2>10. JobsSound' /\ StatusesOrdered'
    BY <2>4, <2>9 DEF JobsSound, OnlyMoves, StatusesOrdered, RecoveryInv
  <2> QED BY <2>6, <2>8, <2>10 DEF RecoveryInv
<1> QED BY <1>2, <1>3, <1>4

LEMMA SubmitKeeps ==
  ASSUME RecoveryInv, NEW g \in Agents, SubmitReport(g)
  PROVE  RecoveryInv'
<1> DEFINE s == job[g].stream
           r == job[g].command
<1>0. step[g] = "submit" /\ UNCHANGED <<inboxVars, lastSequence, retained, cache, reports>>
  BY DEF SubmitReport
<1>1. /\ job[g] \in [stream : Streams, command : ReportRecord] /\ s \in Streams
      /\ CommandJob(s, r) /\ r.id \in Nat \ {0} /\ r.checkpoint \in CheckpointRecord
  BY <1>0, JobOf DEF JobSound, ReportRecord
<1>2. CASE Rest(g) /\ UNCHANGED <<executed, recorded>>
  BY <1>0, <1>2, RestKeeps
<1>3. CASE Goto(g, "submitted", job[g]) /\ <<s, r.id>> \in executed
           /\ UNCHANGED <<executed, recorded>>
  <2>1. OnlyMoves(g) /\ step'[g] = "submitted" /\ job'[g] = job[g]
    BY <1>3, GotoMoves DEF RecoveryInv
  <2>2. CommandJob(job[g].stream, job[g].command)'
    BY <2>1, <1>0, <1>1 DEF CommandJob
  <2>3. JobSound(g)'
    BY <1>1, <1>3, <2>1, <2>2 DEF JobSound
  <2> QED BY <1>0, <1>3, <2>1, <2>3, QuietKeeps
<1>4. CASE /\ Goto(g, "submitted", job[g]) /\ <<s, r.id>> \notin executed
           /\ executed' = executed \cup {<<s, r.id>>}
           /\ recorded' = [recorded EXCEPT ![s] = r.checkpoint]
  <2>1. OnlyMoves(g) /\ step'[g] = "submitted" /\ job'[g] = job[g]
    BY <1>4, GotoMoves DEF RecoveryInv
  <2>2. reports[s] # NoReport /\ r.checkpoint = reports[s].checkpoint
    <3>1. reports[s] # NoReport /\ r.id <= reports[s].id
      BY <1>1 DEF CommandJob
    <3>2. reports[s].id \in Nat
          /\ (\A k \in Nat \ {0} : k < reports[s].id => <<s, k>> \in executed)
      BY <1>1, <3>1, ReportOf
    <3>3. r.id = reports[s].id
      BY <1>1, <1>4, <3>1, <3>2
    <3> QED BY <1>1, <3>1, <3>3 DEF CommandJob
  <2>3. /\ recorded' \in [Streams -> CheckpointRecord \cup {NoReport}]
        /\ recorded'[s] = reports[s].checkpoint
        /\ \A t \in Streams \ {s} : recorded'[t] = recorded[t]
    BY <1>1, <1>4, <2>2 DEF RecoveryInv, ReportsInTurn
  <2>4. /\ SenderSound' /\ InboxInv' /\ Onwards /\ ReceivedWasPublished' /\ Now' = Now
        /\ UNCHANGED <<lastSequence, reports>> /\ executed \subseteq executed'
        /\ <<s, r.id>> \in executed'
    BY <1>0, <1>4, TablesSame
  <2>5. ReportsInTurn'
    <3>1. ASSUME NEW t \in Streams, reports[t] # NoReport
          PROVE  /\ Past(t, reports[t].checkpoint)
                 /\ \A k \in Nat \ {0} : k < reports[t].id => <<t, k>> \in executed'
                 /\ reports[t].reported => <<t, reports[t].id>> \in executed'
      BY <2>4, <3>1, ReportOf
    <3>2. ASSUME NEW t \in Streams, recorded'[t] # NoReport
          PROVE  /\ Past(t, recorded'[t]) /\ reports[t] # NoReport
                 /\ recorded'[t].revision <= reports[t].checkpoint.revision
                 /\ Ordered(reports[t].checkpoint, recorded'[t])
      <4>1. CASE t = s
        <5>1. Past(s, reports[s].checkpoint) /\ reports[s].checkpoint \in CheckpointRecord
          BY <1>1, <2>2, ReportOf
        <5>2. Ordered(reports[s].checkpoint, reports[s].checkpoint)
              /\ reports[s].checkpoint.revision <= reports[s].checkpoint.revision
          BY <5>1 DEF Ordered, Regressed, CheckpointRecord
        <5> QED BY <4>1, <5>1, <5>2, <2>2, <2>3
      <4>2. CASE t # s
        BY <4>2, <2>3, <3>2, RecordOf
      <4> QED BY <4>1, <4>2
    <3> QED BY <2>3, <2>4, <3>1, <3>2 DEF ReportsInTurn, Past, Consistent, RecoveryInv
  <2>6. \A h \in Agents : JobSound(h)'
    <3> SUFFICES ASSUME NEW h \in Agents PROVE JobSound(h)'
      OBVIOUS
    <3>1. CASE h = g
      <4>1. CommandJob(job[g].stream, job[g].command)'
        BY <2>1, <2>4, <1>1 DEF CommandJob
      <4> QED BY <1>1, <2>1, <2>4, <3>1, <4>1 DEF JobSound
    <3>2. CASE h # g
      <4>0. step'[h] = step[h] /\ job'[h] = job[h] /\ JobSound(h)
        BY <3>2, <2>1, JobOf DEF OnlyMoves
      <4>1. CASE step[h] = "status"
        <5>1. /\ job[h] \in [stream : Streams, status : CheckpointRecord]
              /\ StatusJob(job[h].stream, job[h].status)
          BY <4>0, <4>1 DEF JobSound
        <5>2. recorded'[job[h].stream] # NoReport =>
                Ordered(job[h].status, recorded'[job[h].stream])
          BY <5>1, <2>2, <2>3 DEF StatusJob
        <5>3. StatusJob(job[h].stream, job[h].status)'
          BY <5>1, <5>2, <4>0, <2>4 DEF StatusJob, Past, Consistent
        <5> QED BY <5>1, <5>3, <4>0, <4>1 DEF JobSound
      <4>2. CASE step[h] \in {"submit", "submitted"}
        BY <4>0, <4>2, <2>4 DEF JobSound, CommandJob
      <4>3. CASE step[h] \notin {"status", "submit", "submitted"}
        BY <4>0, <4>3, <2>4 DEF JobSound
      <4> QED BY <4>1, <4>2, <4>3
    <3> QED BY <3>1, <3>2
  <2>7. JobsSound' /\ StatusesOrdered'
    BY <2>1, <2>6 DEF JobsSound, OnlyMoves, StatusesOrdered, RecoveryInv
  <2> QED BY <2>4, <2>5, <2>7 DEF RecoveryInv
<1> QED BY <1>2, <1>3, <1>4 DEF SubmitReport

LEMMA MarkKeeps ==
  ASSUME RecoveryInv, NEW g \in Agents, MarkReported(g)
  PROVE  RecoveryInv'
<1> DEFINE s == job[g].stream
           r == job[g].command
<1>0. step[g] = "submitted" /\ Rest(g) /\ UNCHANGED <<inboxVars, senderTables>>
  BY DEF MarkReported
<1>1. /\ s \in Streams /\ CommandJob(s, r) /\ <<s, r.id>> \in executed
  BY <1>0, JobOf DEF JobSound
<1>2. CASE reports[s].id # r.id
  <2>1. UNCHANGED reports
    BY <1>2 DEF MarkReported
  <2> QED BY <1>0, <2>1, RestKeeps DEF senderTables
<1>3. CASE reports[s].id = r.id
  <2>1. reports' = [reports EXCEPT ![s].reported = TRUE]
    BY <1>3 DEF MarkReported
  <2>2. reports[s] # NoReport /\ reports[s] \in ReportRecord
    BY <1>1, ReportOf DEF CommandJob
  <2>3. /\ reports'[s] \in ReportRecord /\ reports'[s].id = reports[s].id
        /\ reports'[s].checkpoint = reports[s].checkpoint
        /\ reports' \in [Streams -> ReportRecord \cup {NoReport}]
        /\ \A t \in Streams \ {s} : reports'[t] = reports[t]
    <3>1. reports \in [Streams -> ReportRecord \cup {NoReport}]
      BY DEF RecoveryInv, ReportsInTurn
    <3>2. [reports[s] EXCEPT !.reported = TRUE] \in ReportRecord
      BY <2>2 DEF ReportRecord
    <3>3. /\ reports'[s] = [reports[s] EXCEPT !.reported = TRUE]
          /\ reports' \in [Streams -> ReportRecord \cup {NoReport}]
          /\ \A t \in Streams \ {s} : reports'[t] = reports[t]
      BY <1>1, <2>1, <3>1, <3>2
    <3> QED BY <2>2, <3>2, <3>3 DEF ReportRecord
  <2>4. /\ SenderSound' /\ InboxInv' /\ Onwards /\ ReceivedWasPublished' /\ Now' = Now
        /\ UNCHANGED <<lastSequence, executed, recorded>>
    BY <1>0, TablesSame DEF senderTables
  <2>5. OnlyMoves(g) /\ step'[g] = "idle"
    BY <1>0, GotoMoves DEF RecoveryInv, Rest
  <2>6. reports'[s] # NoReport
    BY <2>3, RecoveryAssumption
  <2>7. \A t \in Streams : /\ reports'[t] # NoReport <=> reports[t] # NoReport
                           /\ reports[t] # NoReport =>
                                /\ reports'[t].id = reports[t].id
                                /\ reports'[t].checkpoint = reports[t].checkpoint
    BY <2>2, <2>3, <2>6
  <2>8. ReportsInTurn'
    <3>1. ASSUME NEW t \in Streams, reports'[t] # NoReport
          PROVE  /\ Past(t, reports'[t].checkpoint)
                 /\ \A k \in Nat \ {0} : k < reports'[t].id => <<t, k>> \in executed
                 /\ reports'[t].reported => <<t, reports'[t].id>> \in executed
      <4>1. /\ Past(t, reports[t].checkpoint) /\ reports[t] # NoReport
            /\ \A k \in Nat \ {0} : k < reports[t].id => <<t, k>> \in executed
            /\ reports[t].reported => <<t, reports[t].id>> \in executed
        BY <2>7, <3>1, ReportOf
      <4>2. CASE t = s
        BY <4>1, <4>2, <2>3, <1>1, <1>3
      <4>3. CASE t # s
        BY <4>1, <4>3, <2>3
      <4> QED BY <4>2, <4>3
    <3>2. ASSUME NEW t \in Streams, recorded[t] # NoReport
          PROVE  /\ Past(t, recorded[t]) /\ reports'[t] # NoReport
                 /\ recorded[t].revision <= reports'[t].checkpoint.revision
                 /\ Ordered(reports'[t].checkpoint, recorded[t])
      BY <2>7, <3>2, RecordOf
    <3> QED BY <2>3, <2>4, <3>1, <3>2 DEF ReportsInTurn, Past, Consistent, RecoveryInv
  <2>9. \A h \in Agents : JobSound(h)'
    <3> SUFFICES ASSUME NEW h \in Agents PROVE JobSound(h)'
      OBVIOUS
    <3>1. CASE h = g
      BY <2>5, <3>1 DEF JobSound
    <3>2. CASE h # g
      <4>0. step'[h] = step[h] /\ job'[h] = job[h] /\ JobSound(h)
        BY <3>2, <2>5, JobOf DEF OnlyMoves
      <4>1. CASE step[h] = "status"
        <5>1. /\ job[h] \in [stream : Streams, status : CheckpointRecord]
              /\ StatusJob(job[h].stream, job[h].status)
          BY <4>0, <4>1 DEF JobSound
        <5>2. StatusJob(job[h].stream, job[h].status)'
          BY <5>1, <4>0, <2>4, <2>7 DEF StatusJob, Past, Consistent
        <5> QED BY <5>1, <5>2, <4>0, <4>1 DEF JobSound
      <4>2. CASE step[h] \in {"submit", "submitted"}
        BY <4>0, <4>2, <2>4, <2>7 DEF JobSound, CommandJob
      <4>3. CASE step[h] \notin {"status", "submit", "submitted"}
        BY <4>0, <4>3, <2>4 DEF JobSound
      <4> QED BY <4>1, <4>2, <4>3
    <3> QED BY <3>1, <3>2
  <2>10. JobsSound' /\ StatusesOrdered'
    BY <2>5, <2>9 DEF JobsSound, OnlyMoves, StatusesOrdered, RecoveryInv
  <2> QED BY <2>4, <2>8, <2>10 DEF RecoveryInv
<1> QED BY <1>2, <1>3

-----------------------------------------------------------------------------
LEMMA RecoveryInitInv == RecoveryInit => RecoveryInv
<1> SUFFICES ASSUME RecoveryInit PROVE RecoveryInv
  OBVIOUS
<1>0. MaxSequence \in Nat
  BY InboxAssumption
<1>1. InboxInv
  BY InboxInitInv DEF RecoveryInit
<1>2. SenderSound
  <2>1. \A s \in Streams : lastSequence[s] = 0
    BY DEF RecoveryInit
  <2>2. \A e \in Event : e.stream \in Streams /\ e.seq \in Nat /\ e.seq > 0
    BY <1>0, EventFacts DEF Seqs
  <2>3. \A e \in Event : ~(e.seq <= lastSequence[e.stream])
    BY <2>1, <2>2
  <2> QED BY <1>0, <2>3 DEF RecoveryInit, SenderSound
<1>3. ReceivedWasPublished
  BY <1>0 DEF RecoveryInit, InboxInit, ReceivedWasPublished
<1>4. ReportsInTurn
  BY DEF RecoveryInit, ReportsInTurn
<1>5. JobsSound /\ StatusesOrdered
  BY DEF RecoveryInit, JobsSound, JobSound, StatusesOrdered
<1> QED BY <1>1, <1>2, <1>3, <1>4, <1>5 DEF RecoveryInv

LEMMA AgentKeeps ==
  ASSUME RecoveryInv, NEW g \in Agents, AgentStep(g)
  PROVE  RecoveryInv'
<1>1. CASE CrashAgent(g)
  <2>1. Rest(g) /\ UNCHANGED <<inboxVars, senderTables, reports>>
    BY <1>1 DEF CrashAgent
  <2> QED BY <2>1, RestKeeps DEF senderTables
<1> QED BY <1>1, BeginKeeps, FetchReplayKeeps, StoreKeeps, EndPageKeeps, FetchSnapshotKeeps,
           AdoptKeeps, ReadStatusKeeps, SaveKeeps, SubmitKeeps, MarkKeeps DEF AgentStep

LEMMA PushKeeps ==
  ASSUME RecoveryInv, NEW e \in Event, Push(e)
  PROVE  RecoveryInv'
<1>0. /\ e \in retained /\ StoreEvent(e)
      /\ UNCHANGED <<lastSequence, retained, recorded, executed, reports, step, job>>
  BY DEF Push, senderTables, agentState
<1>1. e.seq <= lastSequence[e.stream]
  BY <1>0 DEF RecoveryInv, SenderSound
<1>2. [InboxNext]_inboxVars /\ ReceivedWasPublished'
  BY <1>0, <1>1, StoreFacts
<1>3. SenderSound' /\ InboxInv' /\ Onwards
  BY <1>0, <1>2, SenderStays, GoesOn
<1> QED BY <1>0, <1>2, <1>3, StillKeeps

LEMMA InboxPassKeeps ==
  ASSUME RecoveryInv, Apply
  PROVE  RecoveryInv'
<1>0. /\ (\E e \in Event : ApplyEvent(e)) \/ ApplyNothing
      /\ UNCHANGED <<lastSequence, retained, recorded, executed, reports, step, job>>
  BY DEF Apply, senderTables, agentState
<1>1. [InboxNext]_inboxVars /\ ReceivedWasPublished'
  BY <1>0, ApplyFacts
<1>2. SenderSound' /\ InboxInv' /\ Onwards
  BY <1>0, <1>1, SenderStays, GoesOn
<1> QED BY <1>0, <1>1, <1>2, StillKeeps

(* A damaged sender, another reader of its snapshots, or nothing at all.       *)
LEMMA IdleKeeps ==
  ASSUME RecoveryInv, UNCHANGED <<inboxVars, lastSequence, recorded, executed, reports>>,
         UNCHANGED <<step, job>>, retained' \subseteq retained
  PROVE  RecoveryInv'
  BY SenderStays, GoesOn, TablesStay, StillKeeps

LEMMA RecoveryStepInv ==
  ASSUME RecoveryInv, [RecoveryNext]_recoveryVars
  PROVE  RecoveryInv'
<1>1. ASSUME NEW e \in Event, Damage(e)
      PROVE  RecoveryInv'
  BY <1>1, IdleKeeps DEF Damage, agentState
<1>2. ASSUME NEW s \in Streams, ReadSnapshot(s)
      PROVE  RecoveryInv'
  BY <1>2, IdleKeeps DEF ReadSnapshot, agentState
<1>3. CASE UNCHANGED recoveryVars
  BY <1>3, IdleKeeps DEF recoveryVars, senderTables
<1> QED BY <1>1, <1>2, <1>3, PublishKeeps, PushKeeps, InboxPassKeeps, AgentKeeps DEF RecoveryNext

(* The consumer and its agents stay within the strengthened invariant.         *)
THEOREM RecoveryInvariant == RecoverySpec => []RecoveryInv
<1>1. RecoveryInit => RecoveryInv
  BY RecoveryInitInv
<1>2. RecoveryInv /\ [RecoveryNext]_recoveryVars => RecoveryInv'
  BY RecoveryStepInv
<1> QED BY <1>1, <1>2, PTL DEF RecoverySpec

(* What the inbox promises holds of every step the workers take.               *)
LEMMA WorkersUseTheInbox ==
  ASSUME RecoveryInv, [RecoveryNext]_recoveryVars
  PROVE  [InboxNext]_inboxVars
<1>1. ASSUME NEW g \in Agents, StoreReplayed(g)
      PROVE  InboxNext
  <2> DEFINE e == [stream |-> job[g].stream, seq |-> job[g].after + 1]
  <2>0. /\ step[g] = "store" /\ job[g].after < job[g].upTo /\ StoreEvent(e)
    BY <1>1 DEF StoreReplayed
  <2>1. /\ job[g] \in [stream : Streams, after : Nat, upTo : Nat, more : BOOLEAN]
        /\ job[g].upTo <= lastSequence[job[g].stream]
    BY <2>0, JobOf DEF JobSound
  <2>2. lastSequence[job[g].stream] \in 0..MaxSequence /\ MaxSequence \in Nat
    BY <2>1, HeadOf
  <2>3. e \in Event
    BY <2>0, <2>1, <2>2 DEF Event
  <2> QED BY <2>0, <2>3 DEF InboxNext
<1>2. ASSUME NEW g \in Agents, AdoptFetched(g)
      PROVE  InboxNext
  <2>1. job[g].stream \in Streams /\ job[g].through \in Seqs
    BY <1>2, JobOf DEF AdoptFetched, JobSound
  <2> QED BY <1>2, <2>1 DEF AdoptFetched, InboxNext
<1>3. ASSUME NEW g \in Agents, AgentStep(g)
      PROVE  [InboxNext]_inboxVars
  BY <1>1, <1>2, <1>3 DEF AgentStep, BeginReconcile, FetchReplay, EndPage, FetchSnapshot,
       ReadStatus, SaveReport, SubmitReport, MarkReported, CrashAgent, InboxNext, inboxVars
<1> QED BY <1>3 DEF RecoveryNext, Publish, Push, Damage, Apply, ReadSnapshot, InboxNext,
                    inboxVars, recoveryVars

-----------------------------------------------------------------------------
(* A checkpoint the consumer once had is acceptable unless it is behind the    *)
(* one on record.                                                             *)
LEMMA PastIsAcceptable ==
  ASSUME RecoveryInv, NEW s \in Streams, reports[s] # NoReport
  PROVE  Acceptable(s, reports[s].checkpoint)
<1>1. Consistent(s, reports[s].checkpoint) /\ reports[s].checkpoint \in CheckpointRecord
  BY ReportOf DEF Past
<1>2. ASSUME recorded[s] # NoReport
      PROVE  ~Regressed(reports[s].checkpoint, recorded[s])
  <2>1. /\ recorded[s] \in CheckpointRecord
        /\ recorded[s].revision <= reports[s].checkpoint.revision
        /\ Ordered(reports[s].checkpoint, recorded[s])
    BY <1>2, RecordOf
  <2>2. reports[s].checkpoint.revision >= recorded[s].revision
    BY <1>1, <2>1 DEF CheckpointRecord
  <2> QED BY <2>1, <2>2 DEF Ordered
<1> QED BY <1>1, <1>2 DEF Acceptable

(* A durable report is never refused, whichever workers read, saved, sent,     *)
(* crashed and repeated it in whatever order (reportCheckpoint of recovery.ts  *)
(* against recordCheckpoint of outbox/reconciliation.ts).                     *)
THEOREM ReportsAreAccepted == RecoverySpec => []ReportsNeverRefused
<1>1. RecoveryInv => ReportsNeverRefused
  <2> SUFFICES ASSUME RecoveryInv PROVE ReportsNeverRefused
    OBVIOUS
  <2>1. \A s \in Streams : reports[s] # NoReport => Acceptable(s, reports[s].checkpoint)
    BY PastIsAcceptable
  <2>2. ASSUME NEW g \in Agents, step[g] = "submit"
        PROVE  \/ <<job[g].stream, job[g].command.id>> \in executed
               \/ Acceptable(job[g].stream, job[g].command.checkpoint)
    <3> DEFINE s == job[g].stream
               r == job[g].command
    <3>1. s \in Streams /\ r.id \in Nat \ {0} /\ CommandJob(s, r)
      BY <2>2, JobOf DEF JobSound, ReportRecord
    <3>2. reports[s] # NoReport /\ reports[s].id \in Nat /\ r.id <= reports[s].id
      BY <3>1, ReportOf DEF CommandJob
    <3>3. CASE r.id = reports[s].id
      BY <3>1, <3>2, <3>3, <2>1 DEF CommandJob
    <3>4. CASE r.id < reports[s].id
      BY <3>1, <3>2, <3>4, ReportOf
    <3> QED BY <3>1, <3>2, <3>3, <3>4
  <2> QED BY <2>1, <2>2 DEF ReportsNeverRefused
<1> QED BY <1>1, RecoveryInvariant, PTL

(* No prefix the sender has on record is ahead of the consumer's own tables.   *)
THEOREM RecordsAreTrue == RecoverySpec => []RecordedTruthful
<1>1. RecoveryInv => RecordedTruthful
  <2> SUFFICES ASSUME RecoveryInv, NEW s \in Streams, recorded[s] # NoReport
               PROVE  /\ recorded[s].receivedThrough <= ReceivedThrough(s)
                      /\ recorded[s].appliedThrough <= AppliedThrough(s)
                      /\ recorded[s].projectedThrough <= cursor[s]
    BY DEF RecordedTruthful
  <2> QED BY RecordOf, NowTyped DEF Past, RecoveryInv
<1> QED BY <1>1, RecoveryInvariant, PTL

(* A report marked as reported has an accepted receipt at the sender.          *)
THEOREM MarkedReportsStand == RecoverySpec => []MarkedWasAccepted
<1>1. RecoveryInv => MarkedWasAccepted
  BY ReportOf DEF MarkedWasAccepted
<1> QED BY <1>1, RecoveryInvariant, PTL

(* With workers, crashes and a damaged sender the consumer still implements    *)
(* the inbox: every step of the workers is a step of it or a stutter.          *)
THEOREM WorkersImplementInbox == RecoverySpec => InboxSpec
<1>1. RecoveryInit => InboxInit
  BY DEF RecoveryInit
<1>2. RecoveryInv /\ [RecoveryNext]_recoveryVars => [InboxNext]_inboxVars
  BY WorkersUseTheInbox
<1> QED BY <1>1, <1>2, RecoveryInvariant, PTL DEF RecoverySpec, InboxSpec

(* Taken together: no report refused, none ahead of the tables, none marked    *)
(* that the sender has not accepted (saveReport, report, the status reads).    *)
THEOREM ReportsStand == RecoverySpec => []ReportsSound
  BY ReportsAreAccepted, RecordsAreTrue, MarkedReportsStand, PTL DEF ReportsSound
=============================================================================
