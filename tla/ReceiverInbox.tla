---------------------------- MODULE ReceiverInbox ----------------------------
(***************************************************************************)
(* The reference consumer's durable state: apps/mock-erp/src/inbox.ts and  *)
(* projection.ts, and adoptSnapshot of recovery.ts.                        *)
(*                                                                         *)
(* Events arrive in any order, any number of times, by webhook or by       *)
(* replay.  Each is stored once, then folded into its stream's projection  *)
(* in sequence order; a snapshot of the sender's current state may jump    *)
(* the projection forward over events that were never received.  Every     *)
(* transaction first locks the scope row (lockReceiver), so each is one    *)
(* action.                                                                 *)
(*                                                                         *)
(* A projection is abstracted to the number of times each event's effect   *)
(* is in it; the order is the order of the sequence numbers.               *)
(***************************************************************************)
EXTENDS Naturals, FiniteSets

CONSTANTS
  Streams,          \* (aggregate type, aggregate id) pairs
  MaxSequence,      \* bound: events per stream
  MaxUnproductive,  \* bound: inbox passes that apply nothing
  Requires,         \* Requires[e]: events of other streams e's payload names
  Poison            \* events whose projection always fails (projectEvent throws)

Event == [stream : Streams, seq : 1..MaxSequence]

ASSUME InboxAssumption ==
  /\ IsFiniteSet(Streams)
  /\ MaxSequence \in Nat /\ MaxUnproductive \in Nat
  /\ Requires \in [Event -> SUBSET Event]
  /\ Poison \subseteq Event

VARIABLES
  streamRows,    \* the streams with a row in mock_erp.streams
  inbox,         \* mock_erp.inbox
  applied,       \* inbox rows with applied_at, each with its transitions row
  cursor,        \* streams.cursor_sequence
  snapshot,      \* streams.snapshot_sequence
  effects,       \* streams.state: how often each event is folded into it
  revision,      \* scope.revision
  unproductive   \* inbox passes without an application (model bound only)

inboxVars == <<streamRows, inbox, applied, cursor, snapshot, effects, revision,
               unproductive>>

-----------------------------------------------------------------------------
Seqs == 1..MaxSequence

Covered(e) == e.seq <= snapshot[e.stream]

\* Mutant: any later event is projected, whatever is missing before it.
Later(e) == e.seq > cursor[e.stream]

InOrder(e) == e.seq = cursor[e.stream] + 1

\* The rows applyInboxOnce selects.
Selected == {e \in inbox \ applied : Covered(e) \/ InOrder(e)}

\* dependencies(): a named event counts when it has been applied or when its
\* stream's projection already reflects it.
Satisfied(e) ==
  \A d \in Requires[e] : d \in applied \/ d.seq <= cursor[d.stream]

\* Mutant: dependencies are not looked up.
NeverWaits(e) == FALSE

Waits(e) == ~Covered(e) /\ ~Satisfied(e)

InboxInit ==
  /\ streamRows = {}
  /\ inbox = {}
  /\ applied = {}
  /\ cursor = [s \in Streams |-> 0]
  /\ snapshot = [s \in Streams |-> 0]
  /\ effects = [s \in Streams |-> [n \in Seqs |-> 0]]
  /\ revision = 0
  /\ unproductive = 0

\* storeEvent: a new event is stored, a known one acknowledged again.
StoreEvent(e) ==
  /\ inbox' = inbox \cup {e}
  /\ streamRows' = streamRows \cup {e.stream}
  /\ revision' = IF e \in inbox THEN revision ELSE revision + 1
  /\ UNCHANGED <<applied, cursor, snapshot, effects, unproductive>>

\* Mutant: an event below the snapshot is folded in once more.
ProjectCovered(e) ==
  /\ cursor' = [cursor EXCEPT ![e.stream] = IF e.seq > @ THEN e.seq ELSE @]
  /\ effects' = [effects EXCEPT ![e.stream][e.seq] = @ + 1]
  /\ applied' = applied \cup {e}

\* Mutant: history below the snapshot is filled in with the event.
ProjectPrefix(e) ==
  /\ cursor' = [cursor EXCEPT ![e.stream] = IF e.seq > @ THEN e.seq ELSE @]
  /\ effects' = IF Covered(e) THEN effects
                ELSE [effects EXCEPT ![e.stream][e.seq] = @ + 1]
  /\ applied' = applied \cup {f \in Event : f.stream = e.stream /\ f.seq <= e.seq}

\* One inbox row succeeds: an event in order is folded into the projection, an
\* event a snapshot already covers only enters the history.
Project(e) ==
  /\ IF Covered(e)
     THEN UNCHANGED <<cursor, effects>>
     ELSE /\ cursor' = [cursor EXCEPT ![e.stream] = e.seq]
          /\ effects' = [effects EXCEPT ![e.stream][e.seq] = @ + 1]
  /\ applied' = applied \cup {e}

\* applyInboxOnce when the pass applies a row.  The rows that wait for another
\* stream and come earlier in the pass only have their error recorded.
ApplyEvent(e) ==
  /\ e \in Selected /\ ~Waits(e)
  /\ Covered(e) \/ e \notin Poison
  /\ Project(e)
  /\ \E skipped \in SUBSET {f \in Selected : Waits(f)} :
        revision' = revision + 1 + Cardinality(skipped)
  /\ UNCHANGED <<streamRows, inbox, snapshot, unproductive>>

\* applyInboxOnce when it applies nothing: every selected row waits, or the
\* savepoint of a failing projection is rolled back.
ApplyNothing ==
  /\ Selected # {}
  /\ unproductive < MaxUnproductive /\ unproductive' = unproductive + 1
  /\ LET waiting == {f \in Selected : Waits(f)} IN
     \/ /\ waiting = Selected
        /\ revision' = revision + Cardinality(waiting)
     \/ /\ \E e \in Selected \cap Poison : ~Waits(e) /\ ~Covered(e)
        /\ \E skipped \in SUBSET waiting :
              revision' = revision + 1 + Cardinality(skipped)
  /\ UNCHANGED <<streamRows, inbox, applied, cursor, snapshot, effects>>

\* Mutant: an older snapshot replaces a newer projection.
AdoptAny(s, n) ==
  /\ streamRows' = streamRows \cup {s}
  /\ cursor' = [cursor EXCEPT ![s] = n]
  /\ snapshot' = [snapshot EXCEPT ![s] = n]
  /\ effects' = [effects EXCEPT ![s] = [k \in Seqs |-> IF k <= n THEN 1 ELSE 0]]
  /\ revision' = revision + 1
  /\ UNCHANGED <<inbox, applied, unproductive>>

\* Mutant: the cursor is taken for the next sequence to expect.
AdoptNext(s, n) ==
  /\ streamRows' = streamRows \cup {s}
  /\ cursor' = [cursor EXCEPT ![s] = n + 1]
  /\ snapshot' = [snapshot EXCEPT ![s] = n]
  /\ revision' = revision + 1
  /\ UNCHANGED <<inbox, applied, effects, unproductive>>

\* adoptSnapshot of the sender's state through sequence n.
AdoptSnapshot(s, n) ==
  /\ streamRows' = streamRows \cup {s}
  /\ IF cursor[s] >= n
     THEN UNCHANGED <<cursor, snapshot, effects, revision>>
     ELSE /\ cursor' = [cursor EXCEPT ![s] = n]
          /\ snapshot' = [snapshot EXCEPT ![s] = n]
          /\ effects' = [effects EXCEPT ![s] =
                           [k \in Seqs |-> IF k <= n THEN 1 ELSE 0]]
          /\ revision' = revision + 1
  /\ UNCHANGED <<inbox, applied, unproductive>>

\* reconcileStream's first transaction.
TouchStream(s) ==
  /\ streamRows' = streamRows \cup {s}
  /\ UNCHANGED <<inbox, applied, cursor, snapshot, effects, revision,
                 unproductive>>

InboxNext ==
  \/ \E e \in Event : StoreEvent(e)
  \/ \E e \in Event : ApplyEvent(e)
  \/ ApplyNothing
  \/ \E s \in Streams, n \in Seqs : AdoptSnapshot(s, n)
  \/ \E s \in Streams : TouchStream(s)

InboxSpec == InboxInit /\ [][InboxNext]_inboxVars

-----------------------------------------------------------------------------
(* consumerStatus *)

Rows(s)      == {e.seq : e \in {f \in inbox : f.stream = s}}
AppliedRows(s) == {e.seq : e \in {f \in applied : f.stream = s}}

\* The longest prefix 1..n of a set of sequence numbers.
Through(N) ==
  CHOOSE n \in 0..MaxSequence : 1..n \subseteq N /\ n + 1 \notin N

ReceivedThrough(s) == Through(Rows(s))
AppliedThrough(s)  == Through(AppliedRows(s))
ReceivedHigh(s) ==
  CHOOSE n \in Rows(s) \cup {0} : \A m \in Rows(s) : m <= n
HistoryComplete(s) == AppliedThrough(s) >= snapshot[s]

Checkpoint(s) ==
  [revision |-> revision, receivedThrough |-> ReceivedThrough(s),
   receivedHigh |-> ReceivedHigh(s), appliedThrough |-> AppliedThrough(s),
   projectedThrough |-> cursor[s], snapshotThrough |-> snapshot[s],
   historyComplete |-> HistoryComplete(s)]

-----------------------------------------------------------------------------
InboxTypeOK ==
  /\ streamRows \subseteq Streams
  /\ inbox \subseteq Event
  /\ applied \subseteq Event
  /\ cursor \in [Streams -> 0..MaxSequence]
  /\ snapshot \in [Streams -> 0..MaxSequence]
  /\ effects \in [Streams -> [Seqs -> Nat]]
  /\ revision \in Nat
  /\ unproductive \in Nat

\* A stream's projection holds the effect of exactly the events up to its
\* cursor, each once: no duplicate delivery, reordering, late event under a
\* snapshot or replaced snapshot counts an event twice or leaves one out.
ProjectionExact ==
  \A s \in Streams : \A n \in Seqs :
     effects[s][n] = IF n <= cursor[s] THEN 1 ELSE 0

\* History is never invented: an event is in the history only if it was itself
\* received, and above the last snapshot the history and the projection agree
\* event by event.
HistoryHonest ==
  /\ applied \subseteq inbox
  /\ \A s \in Streams : snapshot[s] <= cursor[s]
  /\ \A e \in Event :
        e.seq > snapshot[e.stream] => (e \in applied <=> e.seq <= cursor[e.stream])

\* An event that names events of other streams is projected from the inbox only
\* after their effects are visible here.
DependenciesVisible ==
  \A e \in applied :
     e.seq > snapshot[e.stream] => \A d \in Requires[e] :
        d \in applied \/ d.seq <= cursor[d.stream]

\* Neither a late snapshot nor a duplicate ever takes the projection, the
\* history or the reported prefixes back.
ProjectionAdvances ==
  [][\A s \in Streams :
        /\ cursor'[s] >= cursor[s]
        /\ snapshot'[s] >= snapshot[s]
        /\ ReceivedThrough(s)' >= ReceivedThrough(s)
        /\ AppliedThrough(s)' >= AppliedThrough(s)]_inboxVars
\* The invariant behind these properties.
InboxInv == InboxTypeOK /\ ProjectionExact /\ HistoryHonest /\ DependenciesVisible
=============================================================================
