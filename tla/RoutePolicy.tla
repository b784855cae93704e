----------------------------- MODULE RoutePolicy -----------------------------
(***************************************************************************)
(* The order of a route (apps/api/src/planning/policy.ts, manual.ts): the  *)
(* current customer first, then urgent work, then ordinary work.  The      *)
(* provider orders each group; what it leaves out is unassigned.  Offsets, *)
(* distances and coordinates are left out.                                 *)
(***************************************************************************)
EXTENDS Naturals, Sequences, SequencesExt

CONSTANTS Tasks, NoTask, Urgent, Capacity

ASSUME PolicyAssumption ==
  /\ NoTask \notin Tasks /\ Urgent \subseteq Tasks /\ Capacity \in Nat

\* Input: the eligible members and the current target of a planning input.
Inputs == [eligible : SUBSET Tasks, current : Tasks \cup {NoTask}]

\* A route: the tasks visited, in order, and the tasks left out.
Routes(S) == {r \in [visits : Seq(S), left : SUBSET S] :
                /\ IsInjective(r.visits)
                /\ Range(r.visits) \cap r.left = {}
                /\ Range(r.visits) \cup r.left = S}

\* validateOrder: each member once, the current one first, urgent before ordinary.
ValidOrder(in, r) ==
  /\ r \in Routes(in.eligible)
  /\ in.current # NoTask /\ r.visits # <<>> => r.visits[1] = in.current
  /\ \A i, j \in DOMAIN r.visits :
       i < j /\ r.visits[i] # in.current /\ r.visits[j] \in Urgent =>
         r.visits[j] = in.current \/ r.visits[i] \in Urgent

\* eligibleMembers, on an input with settings.
Plannable(in) ==
  /\ in.eligible # {} /\ in.current \in in.eligible \cup {NoTask}

First(in)    == in.eligible \cap {in.current}
Hurried(in)  == (in.eligible \ First(in)) \cap Urgent
Ordinary(in) == (in.eligible \ First(in)) \ Urgent

\* planRoute: one answer of the provider for each group, in their order; a current
\* customer out of reach blocks all that follows.
PlanRoute(in, first, hurried, ordinary) ==
  IF first.left # {}
  THEN [visits |-> first.visits, left |-> in.eligible \ Range(first.visits)]
  ELSE [visits |-> first.visits \o hurried.visits \o ordinary.visits,
        left   |-> hurried.left \cup ordinary.left]

=============================================================================
