--------------------------- MODULE DeviceJournal ---------------------------
(***************************************************************************)
(* The journal of one phone: work is captured in IndexedDB, replayed to    *)
(* the server when there is a connection, confirmed, and retired by a      *)
(* newer download (apps/web/src: local-work.ts, replay.ts,                 *)
(* replay-runtime.ts, download-work.ts, start-barrier.ts,                  *)
(* account-lifecycle.ts, safe-update.ts; apps/api/src/sync/service.ts).    *)
(*                                                                         *)
(* Tabs share the journal.  Every step of a tab is one IndexedDB           *)
(* transaction or one request; between two steps the other tabs, the       *)
(* server and other phones act, an answer may be lost, and the tab may     *)
(* die.  Requests of a dead tab may still reach the server.                *)
(*                                                                         *)
(* Action n is the n-th captured action: its id is its device sequence.    *)
(* On the server only what decides a command is kept: the round, its owner *)
(* and the revision of its activity.  "this" is the modelled phone.        *)
(***************************************************************************)
EXTENDS Naturals, FiniteSets, Sequences

CONSTANTS
  Tabs, NoTab,
  MaxActions,     \* bound: captured actions
  MaxGeneration,  \* bound: starts and takeovers
  MaxFaults       \* bound: dying tabs, lost answers and failed requests

ASSUME JournalAssumption ==
  /\ MaxActions \in Nat /\ MaxGeneration \in Nat /\ MaxFaults \in Nat
  /\ NoTab \notin Tabs

VARIABLES
  server,     \* the driver's latest round: number, owner, generation, open, revision
  history,    \* accepted actions of this journal, in order
  result,     \* command_identities: the final status of every action, or "none"
  version,    \* resourceVersions.resourceRevision of an accepted action
  actions,    \* IndexedDB actions, in device sequence
  pending,    \* IndexedDB pending: effects shown over the download
  acks,       \* IndexedDB acknowledgements
  download,   \* IndexedDB downloads: confirmed rounds, one copy of each
  selection,  \* IndexedDB selection: the account of this journal, another, ...
  blocked,    \* partitions.blocked
  lock,       \* the Web Lock of the journal
  tab,        \* what each tab is doing and remembers
  wire,       \* requests whose tab has stopped waiting
  late,       \* a start request whose tab has stopped waiting
  faults

serverVars  == <<server, history, result, version>>
store       == <<actions, pending, acks, download, selection, blocked>>
network     == <<wire, late>>
journalVars == <<serverVars, store, lock, tab, network, faults>>

-----------------------------------------------------------------------------
Statuses == {"none", "accepted", "refused"}
Captured == DOMAIN actions
Known    == {history[i] : i \in DOMAIN history}
Max0(S)  == IF S = {} THEN 0 ELSE CHOOSE x \in S : \A y \in S : y <= x

NoStart  == 0

\* What a tab remembers as it begins.
Begun(pc, mode, batch) ==
  [pc |-> pc, mode |-> mode, batch |-> batch, answers |-> {}, attempted |-> {},
   seen |-> {}, rounds |-> {}]

Idle == Begun("idle", "none", {})

\* unreceived: an action is unreceived until its receipt is durable on the phone.
Unreceived == {a \in Captured \cup pending : acks[a] = "none"}
Usable     == selection = "this" /\ ~blocked
Owned      == server.owner = "this" /\ server.open

\* What a snapshot of the server shows of the round.
Snapshot == [round |-> server.round, generation |-> server.generation,
             revision |-> server.revision, known |-> Known]

JournalInit ==
  /\ server = [round |-> 1, owner |-> "this", generation |-> 1, open |-> TRUE, revision |-> 0]
  /\ history = <<>>
  /\ result = [a \in 1..MaxActions |-> "none"]
  /\ version = [a \in 1..MaxActions |-> 0]
  /\ actions = <<>> /\ pending = {} /\ download = {}
  /\ acks = [a \in 1..MaxActions |-> "none"]
  /\ selection = "this" /\ blocked = FALSE
  /\ lock = NoTab
  /\ tab = [t \in Tabs |-> Idle]
  /\ wire = {} /\ late = NoStart
  /\ faults = 0

-----------------------------------------------------------------------------
(* The server.                                                             *)

\* executionFence, executionDependencies and the revision check, in their order.
\* A takeover is not fenced; it names the generation it replaces.
Waits(a) == \E d \in actions[a].deps : result[d] = "none"

Fenced(a) ==
  IF actions[a].kind = "takeover"
  THEN server.owner = "this" \/ actions[a].generation # server.generation
  ELSE server.owner # "this" \/ actions[a].generation # server.generation

Broken(a) ==
  LET deps == actions[a].deps IN
    \/ \E d \in deps : \/ result[d] = "refused"
                       \/ actions[d].round # actions[a].round
                       \/ actions[d].generation # actions[a].generation
    \/ /\ actions[a].kind = "offline" /\ deps # {}
       /\ actions[a].base # Max0({version[d] : d \in deps})

\* Mutant: the expected revision of the activity is not compared.
StaleIgnored(a) == ~server.open \/ actions[a].round # server.round

Stale(a) ==
  \/ ~server.open \/ actions[a].round # server.round
  \/ actions[a].kind # "takeover" /\ actions[a].base # server.revision

Fits(a) == ~Fenced(a) /\ ~Broken(a) /\ ~Stale(a)

Accept(a) ==
  /\ Fits(a)
  /\ history' = Append(history, a)
  /\ result' = [result EXCEPT ![a] = "accepted"]
  /\ IF actions[a].kind = "takeover"
     THEN /\ server.generation < MaxGeneration
          /\ server' = [server EXCEPT !.owner = "this", !.generation = @ + 1]
          /\ UNCHANGED version
     ELSE /\ server' = [server EXCEPT !.revision = @ + 1]
          /\ version' = [version EXCEPT ![a] = server.revision + 1]

\* Any command can be refused for what is not modelled here: a changed source,
\* assignment or pin of its task.
Refuse(a) ==
  /\ result' = [result EXCEPT ![a] = "refused"]
  /\ UNCHANGED <<server, history, version>>

\* One command transaction: a known action has its answer already, a missing
\* predecessor leaves nothing behind, anything else is decided for ever.
Handle(a) ==
  IF result[a] # "none" THEN UNCHANGED serverVars
  ELSE IF ~Fenced(a) /\ Waits(a) THEN UNCHANGED serverVars
  ELSE Accept(a) \/ Refuse(a)

\* Another phone takes the round over, works, and ends it; or a company closes it.
TakeOver ==
  /\ Owned /\ server.generation < MaxGeneration
  /\ server' = [server EXCEPT !.owner = "other", !.generation = @ + 1]
  /\ UNCHANGED <<history, result, version, store, lock, tab, network, faults>>

OtherWorks ==
  /\ server.open /\ server.owner = "other" /\ server.revision < MaxActions
  /\ server' = [server EXCEPT !.revision = @ + 1]
  /\ UNCHANGED <<history, result, version, store, lock, tab, network, faults>>

EndRound ==
  /\ server.open
  /\ server' = [server EXCEPT !.open = FALSE]
  /\ UNCHANGED <<history, result, version, store, lock, tab, network, faults>>

\* Rounds.start: its readiness names the planning state it was given for.
Started(stamp) ==
  IF ~server.open /\ server.generation = stamp /\ stamp < MaxGeneration
  THEN server' = [round |-> server.round + 1, owner |-> "this",
                  generation |-> server.generation + 1, open |-> TRUE, revision |-> 0]
  ELSE UNCHANGED server

\* Requests of tabs that no longer wait.
LateRequest(a) ==
  /\ a \in wire
  /\ wire' = wire \ {a}
  /\ Handle(a)
  /\ UNCHANGED <<store, lock, tab, late, faults>>

LateStart ==
  /\ late # NoStart
  /\ Started(late)
  /\ late' = NoStart
  /\ UNCHANGED <<history, result, version, store, lock, tab, wire, faults>>

-----------------------------------------------------------------------------
(* The preview: pending effects over the confirmed download.               *)

Effects(d) == {a \in pending : actions[a].round = d.round}

\* preview: an effect is left out when it rests on a refused or left-out one.
LeftOut(d) ==
  LET out[a \in 1..MaxActions] ==
        /\ a \in Effects(d)
        /\ \E p \in actions[a].deps : acks[p] = "refused" \/ out[p]
  IN  {a \in Effects(d) : out[a]}

Projected(d) == {a \in Effects(d) \ LeftOut(d) : actions[a].kind = "offline"}

\* projectCurrent: each effect must continue the state the ones before it left.
Continues(d) ==
  \A a \in Projected(d) :
    actions[a].base = d.revision + Cardinality({b \in Projected(d) : b < a})

\* captureLocked: the counter, the action and its effect commit together.
Record(a, new) ==
  /\ Len(actions) < MaxActions /\ a = Len(actions) + 1
  /\ actions' = Append(actions, new)
  /\ pending' = pending \cup {a}
  /\ UNCHANGED <<serverVars, acks, download, selection, blocked, lock, tab, network, faults>>

\* A heading, an arrival or an outcome, composed on the preview.
CaptureOffline(t) ==
  \E d \in download, a \in 1..MaxActions :
    /\ tab[t].pc = "idle" /\ lock = NoTab /\ Usable
    /\ \A e \in pending : actions[e].kind = "offline" /\ actions[e].round = d.round
    /\ Continues(d)
    /\ Record(a, [kind |-> "offline", round |-> d.round, generation |-> d.generation,
                  base |-> d.revision + Cardinality(Projected(d)),
                  deps |-> {e \in pending : \A f \in pending : f <= e},
                  shown |-> d.known \cup Projected(d)])

\* A command of a connected page or a takeover, composed on the server's state.
CaptureConnected(t) ==
  \E a \in 1..MaxActions, kind \in {"connected", "takeover"} :
    /\ tab[t].pc = "idle" /\ lock = NoTab /\ Usable
    /\ pending = {} /\ server.open
    /\ (kind = "takeover") <=> (server.owner # "this")
    /\ Record(a, [kind |-> kind, round |-> server.round, generation |-> server.generation,
                  base |-> server.revision, deps |-> {}, shown |-> Known])

-----------------------------------------------------------------------------
(* A tab.                                                                  *)

Goto(t, to)    == tab' = [tab EXCEPT ![t] = [@ EXCEPT !.pc = to]]
Rest(t)        == tab' = [tab EXCEPT ![t] = Idle]
Release(t)     == Rest(t) /\ lock' = (IF lock = t THEN NoTab ELSE lock)
LocalOnly      == UNCHANGED <<serverVars, network, faults>>
StoreUnchanged == UNCHANGED store

\* bindSession and select: the session of the selected account lifts a block.
Select == selection = "this" /\ blocked' = FALSE /\ UNCHANGED selection

\* A wake (online, focus, page shown) or the start of a round begins with the lock.
BeginReplay(t, mode) ==
  /\ tab[t].pc = "idle" /\ lock = NoTab
  /\ Select
  /\ lock' = t
  /\ tab' = [tab EXCEPT ![t] = Begun("scan", mode, {})]
  /\ LocalOnly /\ UNCHANGED <<actions, pending, acks, download>>

\* Mutant: predecessors must have been accepted.
ReadyWhenAccepted(t) ==
  {a \in Captured \ tab[t].attempted :
     acks[a] = "none" /\ \A d \in actions[a].deps : acks[d] = "accepted"}

\* Captured actions whose predecessors have their receipts on the phone.
Ready(t) ==
  {a \in Captured \ tab[t].attempted :
     acks[a] = "none" /\ \A d \in actions[a].deps : acks[d] # "none"}

\* One batch of the loop.  Its actions are marked here; the code marks them at the end
\* of the batch, and nothing looks at the marks before the next scan.
Submit(t) ==
  /\ tab[t].pc = "scan" /\ Usable /\ Ready(t) # {}
  /\ tab' = [tab EXCEPT ![t] = [@ EXCEPT !.pc = "sent", !.answers = {}, !.batch = Ready(t),
                                !.attempted = tab[t].attempted \cup Ready(t)]]
  /\ LocalOnly /\ StoreUnchanged /\ UNCHANGED lock

\* A connected page, or a capture while online, sends its own action.
SendDirectly(t, a) ==
  /\ tab[t].pc = "idle" /\ lock = NoTab /\ a \in Captured /\ acks[a] = "none"
  /\ Select
  /\ \A d \in actions[a].deps : acks[d] = "accepted"
  /\ lock' = t
  /\ tab' = [tab EXCEPT ![t] = Begun("sent", "direct", {a})]
  /\ LocalOnly /\ UNCHANGED <<actions, pending, acks, download>>

\* The server takes the commands of a batch one by one, in device sequence; a
\* failing one is skipped.
First(batch) == {a \in batch : \A b \in batch : a <= b}

HandleFirst(t) ==
  /\ tab[t].pc = "sent"
  /\ \E a \in First(tab[t].batch) :
       /\ Handle(a)
       /\ tab' = [tab EXCEPT ![t] =
            [@ EXCEPT !.batch = tab[t].batch \ {a},
                      !.answers = tab[t].answers \cup {b \in {a} : result'[b] # "none"}]]
  /\ UNCHANGED <<store, lock, network, faults>>

FailFirst(t) ==
  /\ tab[t].pc = "sent" /\ tab[t].batch # {} /\ faults < MaxFaults
  /\ faults' = faults + 1
  /\ tab' = [tab EXCEPT ![t] = [@ EXCEPT !.batch = tab[t].batch \ First(tab[t].batch)]]
  /\ UNCHANGED <<serverVars, store, lock, network>>

\* Mutant: a refused action keeps nothing, an accepted one is settled at once.
SettleAtOnce(a) ==
  /\ acks' = [acks EXCEPT ![a] = result[a]]
  /\ pending' = pending \ {a}

\* acknowledge: an accepted offline action stays shown until a download covers it.
Acknowledge(a) ==
  /\ acks' = [acks EXCEPT ![a] = result[a]]
  /\ pending' = IF result[a] = "accepted" /\ actions[a].kind = "offline"
                THEN pending ELSE pending \ {a}

SaveReceipt(t) ==
  /\ tab[t].pc = "sent" /\ tab[t].batch = {} /\ Usable
  /\ \E a \in tab[t].answers :
       /\ Acknowledge(a)
       /\ tab' = [tab EXCEPT ![t] = [@ EXCEPT !.answers = tab[t].answers \ {a}]]
  /\ LocalOnly /\ UNCHANGED <<actions, download, selection, blocked, lock>>

\* A direct send ends here; a replay looks again, under the same lock, for what the
\* receipts of this batch have made ready.
EndBatch(t) ==
  /\ tab[t].pc = "sent" /\ tab[t].batch = {} /\ tab[t].answers = {}
  /\ IF tab[t].mode = "direct" THEN Release(t) ELSE Goto(t, "scan") /\ UNCHANGED lock
  /\ LocalOnly /\ StoreUnchanged

\* Nothing to send: the confirmed state is refreshed unless receipts are missing.
EndScan(t) ==
  /\ tab[t].pc = "scan" /\ Ready(t) = {}
  /\ IF Usable /\ Unreceived = {}
     THEN /\ tab' = [tab EXCEPT ![t] =
               [@ EXCEPT !.pc = "owner", !.rounds = {actions[a].round : a \in pending}]]
          /\ UNCHANGED lock
     ELSE Release(t)
  /\ LocalOnly /\ StoreUnchanged

\* assertSelected: the transaction of a replay over a blocked account fails.
Abandon(t) ==
  /\ \/ tab[t].pc \in {"scan", "retire"}
     \/ tab[t].pc = "sent" /\ tab[t].batch = {} /\ tab[t].answers # {}
  /\ ~Usable /\ Release(t)
  /\ LocalOnly /\ StoreUnchanged

-----------------------------------------------------------------------------
(* The refresh: retire what ended or moved, then download what is left.    *)

\* The snapshots say whether the phone still owns the rounds it holds.
ReadOwner(t) ==
  /\ tab[t].pc = "owner"
  /\ LET held == tab[t].rounds \cup {d.round : d \in download}
         lost == {r \in held : r # server.round \/ ~Owned}
     IN  tab' = [tab EXCEPT ![t] = [@ EXCEPT !.pc = "retire", !.seen = lost]]
  /\ LocalOnly /\ StoreUnchanged /\ UNCHANGED lock

\* retireConfirmedRound: unreceived work stays.
RetireConfirmed(lost) ==
  /\ pending' = {a \in pending : actions[a].round \in lost => acks[a] = "none"}
  /\ download' = {d \in download : d.round \notin lost}

Retire(t) ==
  /\ tab[t].pc = "retire" /\ Usable
  /\ RetireConfirmed(tab[t].seen)
  /\ tab' = [tab EXCEPT ![t] =
       [@ EXCEPT !.seen = {},
                 !.pc = IF download' # {} /\ tab[t].rounds # {} THEN "before" ELSE "synced"]]
  /\ LocalOnly /\ UNCHANGED <<actions, acks, selection, blocked, lock>>

\* A page downloads without the lock once nothing is left unconfirmed.
BeginDownload(t) ==
  /\ tab[t].pc = "idle"
  /\ \A a \in pending : acks[a] # "none"
  /\ Select
  /\ tab' = [tab EXCEPT ![t] = Begun("before", "page", {})]
  /\ LocalOnly /\ UNCHANGED <<actions, pending, acks, download, lock>>

\* A connected page that learns of a takeover over unsent work stops the work, also
\* under a replay of its own tab or another one.
BlockLostOwner ==
  /\ Usable /\ faults < MaxFaults
  /\ pending # {} /\ \E d \in download : ~Owned \/ d.generation # server.generation
  /\ blocked' = TRUE /\ faults' = faults + 1
  /\ UNCHANGED <<serverVars, actions, pending, acks, download, selection, lock, tab, network>>

\* downloadWork: the first snapshot ...
ReadBefore(t) ==
  /\ tab[t].pc = "before"
  /\ IF Owned
     THEN /\ tab' = [tab EXCEPT ![t] = [@ EXCEPT !.pc = "after", !.seen = {Snapshot}]]
          /\ UNCHANGED <<download, lock>>
     ELSE download' = {} /\ Release(t)
  /\ LocalOnly /\ UNCHANGED <<actions, pending, acks, selection, blocked>>

\* ... is compared with a second one; only an unchanged round is saved.
ReadAfter(t) ==
  /\ tab[t].pc = "after"
  /\ IF Owned /\ tab[t].seen = {Snapshot}
     THEN Goto(t, "save") /\ UNCHANGED lock ELSE Release(t)
  /\ LocalOnly /\ StoreUnchanged

Newer(d, e) == \/ d.generation > e.generation
               \/ d.generation = e.generation /\ d.revision > e.revision

\* saveDownload: never an older copy, and effects it covers are retired.
Covered(d) ==
  {a \in Effects(d) : acks[a] = "accepted" /\ version[a] <= d.revision}

SaveDownload(t) ==
  /\ tab[t].pc = "save"
  /\ \E d \in tab[t].seen :
       IF Usable /\ \A e \in download : e.round = d.round => ~Newer(e, d)
       THEN /\ download' = {e \in download : e.round # d.round} \cup {d}
            /\ pending' = pending \ Covered(d)
            /\ IF tab[t].mode = "page" THEN Release(t)
               ELSE Goto(t, "synced") /\ UNCHANGED lock
       ELSE Release(t) /\ UNCHANGED <<download, pending>>
  /\ LocalOnly /\ UNCHANGED <<actions, acks, selection, blocked>>

\* beforeStart goes on only over an empty journal; the readiness asks for an
\* ended round.
EndReplay(t) ==
  /\ tab[t].pc = "synced"
  /\ IF tab[t].mode = "start" /\ Unreceived = {} /\ pending = {} /\ ~server.open
     THEN /\ tab' = [tab EXCEPT ![t] = [@ EXCEPT !.pc = "starting", !.seen = {server.generation}]]
          /\ UNCHANGED lock
     ELSE Release(t)
  /\ LocalOnly /\ StoreUnchanged

StartRound(t) ==
  /\ tab[t].pc = "starting"
  /\ \E stamp \in tab[t].seen : Started(stamp)
  /\ Release(t)
  /\ UNCHANGED <<history, result, version, store, network, faults>>

-----------------------------------------------------------------------------
(* Leaving the account, and updating the application.                      *)

\* Mutant: only the early check of exitAccount, before the lock.
SealAnyway(t) ==
  /\ tab[t].pc = "idle" /\ lock = NoTab /\ selection \in {"this", "exiting"}
  /\ selection' = "exiting" /\ blocked' = TRUE
  /\ lock' = t /\ Goto(t, "leaving")
  /\ LocalOnly /\ UNCHANGED <<actions, pending, acks, download>>

\* prepareExit: the seal is durable before the server is asked to log out.
PrepareExit(t) ==
  /\ tab[t].pc = "idle" /\ lock = NoTab /\ selection \in {"this", "exiting"}
  /\ Unreceived = {}
  /\ selection' = "exiting" /\ blocked' = TRUE
  /\ lock' = t /\ Goto(t, "leaving")
  /\ LocalOnly /\ UNCHANGED <<actions, pending, acks, download>>

FinishExit(t) ==
  /\ tab[t].pc = "leaving" /\ selection = "exiting"
  /\ selection' = "none" /\ Release(t)
  /\ LocalOnly /\ UNCHANGED <<actions, pending, acks, download, blocked>>

\* select after a login: the same account opens its journal again.
Login(account) ==
  /\ selection = "none"
  /\ selection' = account
  /\ blocked' = IF account = "this" THEN FALSE ELSE blocked
  /\ LocalOnly /\ UNCHANGED <<actions, pending, acks, download, lock, tab>>

OtherLeaves ==
  /\ selection = "other" /\ selection' = "none"
  /\ LocalOnly /\ UNCHANGED <<actions, pending, acks, download, blocked, lock, tab>>

\* applySafeUpdate holds the lifecycle lock that every journal lock shares.
BeginUpdate(t) ==
  /\ tab[t].pc = "idle" /\ lock = NoTab
  /\ pending = {} /\ Unreceived = {} /\ selection # "exiting"
  /\ lock' = t /\ Goto(t, "updating")
  /\ LocalOnly /\ StoreUnchanged

EndUpdate(t) ==
  /\ tab[t].pc = "updating" /\ Release(t)
  /\ LocalOnly /\ StoreUnchanged

\* A tab dies, or an answer it waits for is lost and its work ends with an error:
\* the lock is free again, requests on their way may still arrive.
Die(t) ==
  /\ tab[t].pc # "idle" /\ faults < MaxFaults
  /\ faults' = faults + 1
  /\ wire' = wire \cup tab[t].batch
  /\ late' = IF tab[t].pc = "starting" THEN CHOOSE g \in tab[t].seen : TRUE ELSE late
  /\ Release(t)
  /\ UNCHANGED <<serverVars, store>>

-----------------------------------------------------------------------------
Replay(t) ==
  \/ Submit(t) \/ HandleFirst(t) \/ SaveReceipt(t) \/ EndBatch(t) \/ EndScan(t) \/ Abandon(t)
  \/ ReadOwner(t) \/ Retire(t) \/ ReadBefore(t) \/ ReadAfter(t) \/ SaveDownload(t)
  \/ EndReplay(t) \/ StartRound(t) \/ FinishExit(t) \/ EndUpdate(t)

JournalNext ==
  \/ TakeOver \/ OtherWorks \/ EndRound \/ LateStart \/ OtherLeaves \/ BlockLostOwner
  \/ \E a \in wire : LateRequest(a)
  \/ \E account \in {"this", "other"} : Login(account)
  \/ \E t \in Tabs :
       \/ CaptureOffline(t) \/ CaptureConnected(t)
       \/ \E mode \in {"replay", "start"} : BeginReplay(t, mode)
       \/ \E a \in 1..MaxActions : SendDirectly(t, a)
       \/ Replay(t) \/ FailFirst(t) \/ BeginDownload(t)
       \/ PrepareExit(t) \/ BeginUpdate(t) \/ Die(t)

\* Wakes recur, requests end, and a tab goes on while it lives.
JournalFairness ==
  \A t \in Tabs :
    /\ SF_journalVars(BeginReplay(t, "replay"))
    /\ SF_journalVars(Replay(t))

JournalSpec == JournalInit /\ [][JournalNext]_journalVars /\ JournalFairness

-----------------------------------------------------------------------------
(* Properties.                                                             *)

\* Work the driver has seen saved is never lost from view: without a receipt it
\* is pending; accepted, it is pending or part of the confirmed round while the
\* phone still owns that round; and a receipt on the phone is the server's answer
\* (acknowledge, saveDownload, retireConfirmedRound).
NothingVanishes ==
  \A a \in Captured :
    /\ acks[a] = "none" => a \in pending
    /\ acks[a] # "none" => acks[a] = result[a]
    /\ actions[a].kind = "offline" /\ acks[a] = "accepted" =>
         \A d \in download :
           /\ Owned /\ d.round = server.round /\ d.generation = server.generation
           /\ actions[a].round = d.round
           => a \in pending \cup d.known

\* Whatever is accepted was captured on exactly the state it is applied to: the
\* driver saw all earlier accepted work of the round and nothing that was refused
\* (preview, captureLocked, executionDependencies and the revision check).
AcceptedAsShown ==
  \A i \in DOMAIN history :
    actions[history[i]].kind = "offline" => actions[history[i]].shown = {history[j] : j \in 1..(i - 1)}

\* While a start, a logout or an update is on its way, and after the account was
\* left, no captured work is without a receipt (beforeStart, prepareExit,
\* assertUpdateSafe).
QuietWhenLeaving ==
  /\ (\E t \in Tabs : tab[t].pc \in {"starting", "leaving", "updating"}) => Unreceived = {}
  /\ selection \in {"exiting", "none", "other"} => Unreceived = {}

\* Every captured action gets its receipt, and an accepted one is retired from the
\* view while the account stays open and the round is on the phone, whatever tabs
\* and answers are lost on the way (runLocked, refresh).
EventuallyConfirmed ==
  \A a \in 1..MaxActions :
    /\ (a \in Captured) ~> (a \in Captured /\ acks[a] # "none")
    /\ (a \in pending) ~> (a \notin pending \/ download = {} \/ selection # "this")
=============================================================================
