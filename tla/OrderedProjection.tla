-------------------------- MODULE OrderedProjection --------------------------
(***************************************************************************)
(* What event delivery as a whole promises, without leases, requests,      *)
(* inboxes, replays or snapshots: each stream is a counter of published    *)
(* transitions, a consumer shows the state after some prefix of them, the  *)
(* prefix only grows, and the consumer's history is a set of transitions   *)
(* inside that prefix which is only ever completed.                        *)
(***************************************************************************)
EXTENDS Naturals

CONSTANTS Streams, MaxSequence

VARIABLES
  published,   \* published[s]: transitions of stream s committed so far
  projected,   \* projected[s]: the prefix the consumer's projection shows
  history      \* the transitions the consumer has recorded one by one

projectionVars == <<published, projected, history>>
Transition == [stream : Streams, seq : 1..MaxSequence]

ProjectionInit ==
  /\ published = [s \in Streams |-> 0]
  /\ projected = [s \in Streams |-> 0]
  /\ history = {}

PublishNext(s) ==
  /\ published' = [published EXCEPT ![s] = @ + 1]
  /\ UNCHANGED <<projected, history>>

ProjectNext(s) ==
  /\ projected[s] < published[s]
  /\ projected' = [projected EXCEPT ![s] = @ + 1]
  /\ history' = history \cup {[stream |-> s, seq |-> projected[s] + 1]}
  /\ UNCHANGED published

\* The consumer catches up on current state without the transitions.
Jump(s, n) ==
  /\ projected[s] < n /\ n <= published[s]
  /\ projected' = [projected EXCEPT ![s] = n]
  /\ UNCHANGED <<published, history>>

\* A transition below the projection is recorded late.
FillHistory(t) ==
  /\ t.seq <= projected[t.stream]
  /\ history' = history \cup {t}
  /\ UNCHANGED <<published, projected>>

ProjectionNext ==
  \/ \E s \in Streams : PublishNext(s) \/ ProjectNext(s)
  \/ \E s \in Streams, n \in 1..MaxSequence : Jump(s, n)
  \/ \E t \in Transition : FillHistory(t)

ProjectionSpec == ProjectionInit /\ [][ProjectionNext]_projectionVars

=============================================================================
