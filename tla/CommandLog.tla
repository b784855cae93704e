----------------------------- MODULE CommandLog -----------------------------
(***************************************************************************)
(* What the command kernel promises, without sessions, statements, locks   *)
(* and rollbacks: the commands of an account are decided one at a time,    *)
(* each in one instant, against everything decided before it.  A driver's  *)
(* work is a log of accepted commands; every command that was decided is   *)
(* kept with its result, and answered from it as often as it is sent.      *)
(***************************************************************************)
EXTENDS Naturals

CONSTANTS Actions, Drivers, Commands, ActionOf, DriverOf, Expected, DependsOn,
          Integrated, NoCommand

VARIABLES
  identity,    \* the result of every action id that was decided
  activity,    \* the length of each driver's log
  history,     \* the log entries of all drivers
  evidence,    \* the refused actions
  intents,     \* the changes integrations hear of, the evidence accounts hear of
  enabled,     \* the account may act
  sent,        \* the commands clients have sent
  answers      \* the answers clients have seen

results == <<identity, activity, history, evidence, intents>>
logVars == <<results, enabled, sent, answers>>

-----------------------------------------------------------------------------
LogInit ==
  /\ identity = [a \in Actions |-> [command |-> NoCommand, status |-> "none", revision |-> 0]]
  /\ activity = [d \in Drivers |-> 0]
  /\ history = {} /\ evidence = {} /\ intents = {} /\ sent = {} /\ answers = {}
  /\ enabled = TRUE

Decided(a) == identity[a].status # "none"

\* Where an action stands in the log of driver d, nowhere or at one revision.
Places(a, d) == {n \in 1..activity[d] : [driver |-> d, revision |-> n, action |-> a] \in history}

\* The driver's log holds every action the command depends on, the last of them at the
\* place the command was composed after.
InPlace(c) ==
  LET d == DriverOf[c] IN
  /\ \A a \in DependsOn[c] : \E n \in Places(a, d) : n <= Expected[c]
  /\ DependsOn[c] # {} => \E a \in DependsOn[c] : Expected[c] \in Places(a, d)

\* ... and that place is the end of the log.
Acceptable(c) == InPlace(c) /\ Expected[c] = activity[DriverOf[c]]

\* An action it depends on is still to come: it is not decided yet.
Waiting(c) == ActionOf[c] \notin DependsOn[c] /\ \E a \in DependsOn[c] : ~Decided(a)

\* Command c may be decided now.
Decidable(c) == enabled /\ c \in sent /\ ~Decided(ActionOf[c])

\* The answer reaches the client or is lost.
AnswerOrLose(c) == answers' \in {answers, answers \cup {identity'[ActionOf[c]]}}

Accept(c) ==
  LET a == ActionOf[c]
      d == DriverOf[c]
      n == activity[d] + 1 IN
  /\ Decidable(c) /\ Acceptable(c)
  /\ identity' = [identity EXCEPT ![a] = [command |-> c, status |-> "accepted", revision |-> n]]
  /\ activity' = [activity EXCEPT ![d] = n]
  /\ history' = history \cup {[driver |-> d, revision |-> n, action |-> a]}
  /\ intents' = intents \cup {[action |-> b, event |-> "change"] : b \in {a} \cap Integrated}
  /\ AnswerOrLose(c)
  /\ UNCHANGED <<evidence, enabled, sent>>

Refuse(c) ==
  LET a == ActionOf[c] IN
  /\ Decidable(c) /\ ~Acceptable(c) /\ ~Waiting(c)
  /\ identity' = [identity EXCEPT ![a] = [command |-> c, status |-> "rejected", revision |-> 0]]
  /\ evidence' = evidence \cup {a}
  /\ intents' = intents \cup {i \in {[action |-> a, event |-> "evidence.received"]} : ~InPlace(c)}
  /\ AnswerOrLose(c)
  /\ UNCHANGED <<activity, history, enabled, sent>>

\* A command that was decided is answered again, with the same result.
AnswerAgain(c) ==
  /\ enabled /\ identity[ActionOf[c]].command = c
  /\ answers' = answers \cup {identity[ActionOf[c]]}
  /\ UNCHANGED <<results, enabled, sent>>

Send(c) == sent' = sent \cup {c} /\ UNCHANGED <<results, enabled, answers>>

ChangeAccess == enabled' = ~enabled /\ UNCHANGED <<results, sent, answers>>

LogNext ==
  \/ \E c \in Commands : Send(c) \/ Accept(c) \/ Refuse(c) \/ AnswerAgain(c)
  \/ ChangeAccess

LogSpec == LogInit /\ [][LogNext]_logVars
=============================================================================
