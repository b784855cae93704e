-------------------------- MODULE RoundPreparation --------------------------
(***************************************************************************)
(* A driver prepares a round on a phone (web/preparation-flow.tsx) and     *)
(* starts it (api/rounds/service.ts), while the work changes, the planner  *)
(* publishes and another phone of the driver saves choices or starts.      *)
(*                                                                         *)
(* The choices are the mode of travel; a plan, a command and a start are   *)
(* numbered in the order of their creation.  The fingerprint of an input   *)
(* holds its revision, so the revision stands for it.  A request may be    *)
(* handled long after the page gave it up, an answer may never arrive, and *)
(* the page may be loaded anew at any moment.  How a plan comes about is   *)
(* module PlanningJobs, what a round does module RoundExecution, and the   *)
(* journal lock around a start module DeviceJournal.                       *)
(***************************************************************************)
EXTENDS Integers, Sequences

CONSTANTS
  MaxWork,        \* bound: revisions of the planning input
  MaxDrafts,      \* bound: planning commands of the page
  MaxStarts       \* bound: start commands of the page

Modes == {"car", "motorcycle"}
None == 0
Elsewhere == -1

VARIABLES
  choices,    \* planning_states: the settings, and the input they came with
  work,       \* planning_states.input_revision
  revisions,  \* plan_revisions; the last one is the current plan
  trip,       \* None, or the start that made the round, or Elsewhere
  drafts,     \* planning commands of the page with their results
  starts,     \* start commands of the page with their readiness and results
  screen,     \* what the page shows and what it waits for
  stored      \* its sessionStorage; what is stored there is in memory as well

prepVars == <<choices, work, revisions, trip, drafts, starts, screen, stored>>

Closed ==
  [phase |-> "closed", draft |-> "car", server |-> "car", plan |-> None, seen |-> 0,
   target |-> None, shown |-> {}]

PrepInit ==
  /\ choices = [mode |-> "car", from |-> 0] /\ work = 0
  /\ revisions = <<[mode |-> "car", work |-> 0, whole |-> TRUE]>>
  /\ trip = None /\ drafts = << >> /\ starts = << >>
  /\ screen = Closed
  /\ stored = [draft |-> "car", touched |-> FALSE, drafted |-> None, start |-> None]

-----------------------------------------------------------------------------
(* The server.                                                               *)

\* Mutant: the plan is current, whatever happened to the work since.
StillCurrent(n) == n = Len(revisions) /\ revisions[n].whole

\* selectedPlan: the current plan, complete or manual, of the present input.
Startable(n) == n = Len(revisions) /\ revisions[n].work = work /\ revisions[n].whole

Changes == work < MaxWork /\ trip = None

Published(mode, n, whole) ==
  revisions' = Append(revisions, [mode |-> mode, work |-> n, whole |-> whole])

\* Intake, a confirmed pin, a correction: the input of planning changes.
WorkChanges ==
  /\ Changes /\ work' = work + 1
  /\ UNCHANGED <<choices, revisions, trip, drafts, starts, screen, stored>>

\* The worker publishes a plan of the newest input, complete or partial.
PlanPublished(whole) ==
  /\ revisions[Len(revisions)].work # work
  /\ Published(choices.mode, work, whole)
  /\ UNCHANGED <<choices, work, trip, drafts, starts, screen, stored>>

\* Another phone of the driver saves its choices, or starts the round.
SaveElsewhere(mode) ==
  /\ Changes /\ mode # choices.mode /\ work' = work + 1
  /\ choices' = [mode |-> mode, from |-> work']
  /\ UNCHANGED <<revisions, trip, drafts, starts, screen, stored>>
StartElsewhere ==
  /\ trip = None /\ Startable(Len(revisions))
  /\ trip' = Elsewhere /\ work' = work + 1
  /\ UNCHANGED <<choices, revisions, drafts, starts, screen, stored>>

\* Planning.command saves the draft or publishes the order, unless a round runs or
\* what the page saw has changed.
HandleDraft(n) ==
  LET c == drafts[n]
      refused == \/ trip # None \/ c.seen < choices.from
                 \/ c.kind = "manual" /\ c.seen # work
  IN
  /\ c.result = "none" /\ (refused \/ work < MaxWork)
  /\ drafts' = [drafts EXCEPT ![n].result = IF refused THEN "refused" ELSE "accepted"]
  /\ IF refused THEN UNCHANGED <<choices, work, revisions>>
     ELSE /\ work' = work + 1
          /\ IF c.kind = "manual"
             THEN Published(choices.mode, work', TRUE) /\ UNCHANGED choices
             ELSE /\ choices' = [mode |-> c.mode, from |-> work']
                  /\ UNCHANGED revisions
  /\ UNCHANGED <<trip, starts, screen, stored>>

\* The outcome of a start is recorded, with the work it was decided on.
Decided(n, result) == starts' = [starts EXCEPT ![n].result = result, ![n].on = work]

\* Rounds.start answers with the round there is, or checks the readiness, which holds
\* for 60 seconds, and once more the plan against the present input.
HandleStart(n, live) ==
  LET go == trip = None /\ live /\ Startable(starts[n].plan) IN
  /\ starts[n].result = "none"
  /\ Decided(n, IF go \/ trip # None THEN "accepted" ELSE "refused")
  /\ IF go THEN trip' = n /\ work' = work + 1 ELSE UNCHANGED <<trip, work>>
  /\ UNCHANGED <<choices, revisions, drafts, screen, stored>>

-----------------------------------------------------------------------------
(* The page.                                                                 *)

Server == <<choices, work, revisions, trip>>
PageIdle == screen.phase = "idle"
Learnt(n) == starts' = [starts EXCEPT ![n].known = TRUE]

\* Mutant: a touched draft does not hold up a start.
CleanAnyway == FALSE

Dirty == stored.touched /\ screen.draft # screen.server

\* load: a draft the driver has not touched follows the plan; one touched is restored
\* from the storage.  The result of a stored start is asked for, and the question may
\* fail.  A round takes the place of everything.
Load(answered) ==
  LET mode  == revisions[Len(revisions)].mode
      known == stored.start # None
               /\ (trip # None \/ (answered /\ starts[stored.start].result # "none"))
  IN
  /\ screen.phase # "round"
  /\ IF known THEN Learnt(stored.start) ELSE UNCHANGED starts
  /\ stored' = [stored EXCEPT !.start = IF known THEN None ELSE @]
  /\ screen' =
       IF trip # None THEN [Closed EXCEPT !.phase = "round"]
       ELSE [screen EXCEPT
         !.phase = IF @ = "closed" THEN "idle" ELSE @, !.server = mode, !.seen = work,
         !.draft = IF stored.touched THEN stored.draft ELSE mode,
         !.plan = IF Startable(Len(revisions)) THEN Len(revisions) ELSE None]
  /\ UNCHANGED <<Server, drafts>>

\* The page is loaded anew or left: what it waits for is forgotten, its storage not.
Reload ==
  /\ screen.phase # "closed" /\ screen' = Closed
  /\ UNCHANGED <<Server, drafts, starts, stored>>

\* updateDraft: choices can be edited while a request runs; a stored command is dropped.
Edit(mode) ==
  /\ screen.phase \notin {"closed", "round"} /\ mode # screen.draft
  /\ screen' = [screen EXCEPT !.draft = mode]
  /\ stored' = [stored EXCEPT !.draft = mode, !.touched = TRUE, !.drafted = None]
  /\ UNCHANGED <<Server, drafts, starts>>

\* preparePlan and publishManual: the stored command of this kind, or a new one.
SendDraft(kind) ==
  LET again == stored.drafted # None /\ drafts[stored.drafted].kind = kind
      n == IF again THEN stored.drafted ELSE Len(drafts) + 1
  IN
  /\ PageIdle /\ (kind = "manual" => ~Dirty) /\ n <= MaxDrafts
  /\ drafts' = IF again THEN drafts
               ELSE Append(drafts, [kind |-> kind, mode |-> screen.draft,
                                    seen |-> screen.seen, result |-> "none"])
  /\ screen' = [screen EXCEPT !.phase = "saving", !.target = n]
  /\ stored' = [stored EXCEPT !.drafted = n]
  /\ UNCHANGED <<Server, starts>>

\* submitPlanning: an accepted command takes its stored copy and the stored draft away,
\* also a draft that differs from the plan: until a load succeeds it stays on the screen
\* and no longer counts as edited.
DraftAnswered ==
  /\ screen.phase = "saving" /\ drafts[screen.target].result # "none"
  /\ screen' = [screen EXCEPT !.phase = "idle", !.target = None]
  /\ IF drafts[screen.target].result = "accepted"
     THEN stored' = [stored EXCEPT !.drafted = None, !.touched = FALSE, !.draft = "car"]
     ELSE UNCHANGED stored
  /\ UNCHANGED <<Server, drafts, starts>>

Slipped == ~stored.touched /\ screen.draft # screen.server

\* startRound: only what is on the screen, saved and planned; an unresolved start is
\* asked after instead.
ClickStart ==
  /\ PageIdle /\ screen.plan # None /\ ~Dirty /\ stored.start = None
  /\ screen' = [screen EXCEPT !.phase = "checking", !.target = screen.plan,
                              !.shown = IF Slipped THEN Modes ELSE {screen.draft}]
  /\ UNCHANGED <<Server, drafts, starts, stored>>

\* The plan is read again and the readiness issued; the command is stored, then sent.
SendStart ==
  /\ screen.phase = "checking" /\ Len(starts) < MaxStarts
  /\ trip = None /\ Startable(screen.target)
  /\ starts' = Append(starts, [plan |-> screen.target, shown |-> screen.shown,
                               result |-> "none", on |-> 0, known |-> FALSE])
  /\ screen' = [screen EXCEPT !.phase = "starting", !.target = Len(starts'), !.shown = {}]
  /\ stored' = [stored EXCEPT !.start = Len(starts')]
  /\ UNCHANGED <<Server, drafts>>

\* The same stored command once more.
ResendStart ==
  /\ PageIdle /\ stored.start # None
  /\ screen' = [screen EXCEPT !.phase = "starting", !.target = stored.start]
  /\ UNCHANGED <<Server, drafts, starts, stored>>

\* Mutant: an error of the request is taken for a refusal.
ForgetsStart == [stored EXCEPT !.start = None]

KeepsStart == stored

\* A request fails or is given up: the page is idle and keeps what is stored.
GiveUp ==
  /\ screen.phase \in {"saving", "checking", "starting"}
  /\ screen' = [screen EXCEPT !.phase = "idle", !.target = None, !.shown = {}]
  /\ stored' = KeepsStart
  /\ UNCHANGED <<Server, drafts, starts>>

\* The outcome of a start: the page leaves for the round, or shows the refusal.
StartKnown(n) ==
  /\ Learnt(n)
  /\ stored' = [stored EXCEPT !.start = None]
  /\ screen' = IF trip # None THEN [Closed EXCEPT !.phase = "round"]
               ELSE [screen EXCEPT !.phase = "idle", !.target = None]
  /\ UNCHANGED <<Server, drafts>>

StartAnswered ==
  /\ screen.phase = "starting" /\ starts[screen.target].result # "none"
  /\ StartKnown(screen.target)

\* checkStart asks for the result and, without one, for the round.
CheckStart ==
  /\ PageIdle /\ stored.start # None
  /\ starts[stored.start].result # "none" \/ trip # None
  /\ StartKnown(stored.start)

-----------------------------------------------------------------------------
PrepNext ==
  \/ WorkChanges \/ StartElsewhere \/ \E mode \in Modes : SaveElsewhere(mode)
  \/ \E whole \in BOOLEAN : PlanPublished(whole)
  \/ \E n \in DOMAIN drafts : HandleDraft(n)
  \/ \E n \in DOMAIN starts : \E live \in BOOLEAN : HandleStart(n, live)
  \/ \E answered \in BOOLEAN : Load(answered)
  \/ \E mode \in Modes : Edit(mode)
  \/ \E kind \in {"save", "manual"} : SendDraft(kind)
  \/ Reload \/ DraftAnswered \/ ClickStart \/ SendStart \/ ResendStart \/ GiveUp
  \/ StartAnswered \/ CheckStart

PrepSpec == PrepInit /\ [][PrepNext]_prepVars

-----------------------------------------------------------------------------
PrepTypeOK ==
  /\ choices \in [mode : Modes, from : Nat] /\ work \in Nat /\ trip \in Int
  /\ revisions \in Seq([mode : Modes, work : Nat, whole : BOOLEAN])
  /\ stored \in [draft : Modes, touched : BOOLEAN, drafted : Nat, start : Nat]

(* A round starts with the choices the driver saw, unedited, when pressing    *)
(* the button, and on a plan of exactly the work there is: only while no     *)
(* load has followed an accepted planning command may the screen be behind.   *)
(* A start whose outcome the page does not know stays the one it asks after, through  *)
(* errors, edits and reloads (preparation-flow.tsx 237-318, service.ts        *)
(* 44-58, 97-109).                                                            *)
PreparedStart ==
  /\ trip \in DOMAIN starts =>
       LET plan == revisions[starts[trip].plan] IN
         plan.mode \in starts[trip].shown /\ plan.work = starts[trip].on
  /\ \A n \in DOMAIN starts : ~starts[n].known => stored.start = n
=============================================================================
