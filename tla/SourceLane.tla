----------------------------- MODULE SourceLane -----------------------------
(***************************************************************************)
(* The serial lane by which the reference ERP sends its own commands to    *)
(* Tawsel (apps/mock-erp/src/source.ts).  A clerk's change of records is   *)
(* committed together with its command; workers claim the oldest pending   *)
(* command under a lease, send it outside any transaction, and complete it *)
(* if the lease is still theirs.                                           *)
(*                                                                         *)
(* A command is its ordinal.  Tawsel keeps the first decision on a command *)
(* and repeats it (module CommandKernel); what it decides is not modelled. *)
(***************************************************************************)
EXTENDS Integers, Sequences

CONSTANTS
  Senders,        \* source workers; a claim's lease is its worker
  Records, Clerks,
  MaxCommands,    \* bound: commands saved
  MaxLaneFaults   \* bound: lost answers, slow and dying workers

Nobody == "nobody"

VARIABLES
  form,       \* form[k]: the record a clerk edits, at the revision displayed
  records,    \* source_records: revision of each record
  lane,       \* source_commands in the order of their ordinals
  sending,    \* sending[w]: the command a worker has claimed, and its answer
  received,   \* external: commands Tawsel has decided, in the order of arrival
  laneFaults

laneVars == <<form, records, lane, sending, received, laneFaults>>

NoForm == [record |-> Nobody, revision |-> 0]
NoCommand == [command |-> 0, answer |-> "none"]

LaneInit ==
  /\ form = [k \in Clerks |-> NoForm]
  /\ records = [r \in Records |-> 0]
  /\ lane = << >>
  /\ sending = [w \in Senders |-> NoCommand]
  /\ received = << >>
  /\ laneFaults = 0

-----------------------------------------------------------------------------
OpenForm(k, r) ==
  /\ Len(lane) < MaxCommands
  /\ form' = [form EXCEPT ![k] = [record |-> r, revision |-> records[r]]]
  /\ UNCHANGED <<records, lane, sending, received, laneFaults>>

(* saveSource: the change, the record and the command are one commit, and a  *)
(* form that shows an older revision of its record is refused.               *)
UpToDate(k) == records[form[k].record] = form[k].revision

NewCommand(r, revision) ==
  [record |-> r, revision |-> revision, status |-> "pending", due |-> TRUE,
   lease |-> Nobody, leased |-> FALSE]

SaveForm(k) ==
  /\ form[k] # NoForm /\ Len(lane) < MaxCommands
  /\ IF UpToDate(k)
     THEN /\ records' = [records EXCEPT ![form[k].record] = @ + 1]
          /\ lane' = Append(lane, NewCommand(form[k].record, form[k].revision + 1))
     ELSE UNCHANGED <<records, lane>>
  /\ form' = [form EXCEPT ![k] = NoForm]
  /\ UNCHANGED <<sending, received, laneFaults>>

-----------------------------------------------------------------------------
Open == {c \in DOMAIN lane : lane[c].status = "pending"}
Sendable == {c \in Open : lane[c].due /\ ~lane[c].leased}

(* Mutant: the first command that can be claimed, past one that waits.       *)
NextFree(c) == c \in Sendable /\ \A d \in Sendable : c <= d

(* The head of the lane, and nothing behind it while it waits.               *)
ClaimableHead(c) == c \in Sendable /\ \A d \in Open : c <= d

ClaimCommand(w, c) ==
  /\ sending[w] = NoCommand
  /\ ClaimableHead(c)
  /\ lane' = [lane EXCEPT ![c] = [@ EXCEPT !.lease = w, !.leased = TRUE]]
  /\ sending' = [sending EXCEPT ![w] = [command |-> c, answer |-> "none"]]
  /\ UNCHANGED <<form, records, received, laneFaults>>

Decide(c) ==
  received' = IF \E i \in DOMAIN received : received[i] = c THEN received
              ELSE Append(received, c)

(* Tawsel answers, or the connection fails before or after it has decided.   *)
Send(w) ==
  /\ sending[w].command # 0 /\ sending[w].answer = "none"
  /\ \/ /\ Decide(sending[w].command)
        /\ sending' = [sending EXCEPT ![w].answer = "decided"]
        /\ UNCHANGED laneFaults
     \/ /\ laneFaults < MaxLaneFaults /\ laneFaults' = laneFaults + 1
        /\ Decide(sending[w].command) \/ UNCHANGED received
        /\ sending' = [sending EXCEPT ![w].answer = "unknown"]
  /\ UNCHANGED <<form, records, lane>>

(* The update is fenced by the lease; an unknown acceptance is sent again    *)
(* after a delay.                                                            *)
Finished(entry, answer) ==
  [entry EXCEPT !.status = IF answer = "decided" THEN "settled" ELSE "pending",
     !.due = (answer = "decided"), !.lease = Nobody, !.leased = FALSE]

Finish(w) ==
  LET c == sending[w].command IN
  /\ sending[w].answer # "none"
  /\ lane' = IF lane[c].lease = w /\ c \in Open
             THEN [lane EXCEPT ![c] = Finished(@, sending[w].answer)] ELSE lane
  /\ sending' = [sending EXCEPT ![w] = NoCommand]
  /\ UNCHANGED <<form, records, received, laneFaults>>

RetryDue(c) ==
  /\ c \in Open /\ ~lane[c].due
  /\ lane' = [lane EXCEPT ![c].due = TRUE]
  /\ UNCHANGED <<form, records, sending, received, laneFaults>>

(* A lease ends under a worker that is still sending only if that is slow.   *)
ClaimExpires(c) ==
  /\ c \in Open /\ lane[c].leased
  /\ laneFaults' = laneFaults + (IF sending[lane[c].lease].command = c THEN 1 ELSE 0)
  /\ laneFaults' <= MaxLaneFaults
  /\ lane' = [lane EXCEPT ![c].leased = FALSE]
  /\ UNCHANGED <<form, records, sending, received>>

SenderDies(w) ==
  /\ sending[w] # NoCommand /\ laneFaults < MaxLaneFaults
  /\ sending' = [sending EXCEPT ![w] = NoCommand]
  /\ laneFaults' = laneFaults + 1
  /\ UNCHANGED <<form, records, lane, received>>

-----------------------------------------------------------------------------
LaneNext ==
  \/ \E k \in Clerks : SaveForm(k) \/ \E r \in Records : OpenForm(k, r)
  \/ \E w \in Senders : Send(w) \/ Finish(w) \/ SenderDies(w)
  \/ \E c \in DOMAIN lane :
       RetryDue(c) \/ ClaimExpires(c) \/ \E w \in Senders : ClaimCommand(w, c)

LaneSpec == LaneInit /\ [][LaneNext]_laneVars

(* The worker polls; every connection ends; delays and leases are times.     *)
LaneFairness ==
  /\ \A w \in Senders :
       /\ WF_laneVars(Send(w)) /\ WF_laneVars(Finish(w))
       /\ WF_laneVars(\E c \in DOMAIN lane : ClaimCommand(w, c))
  /\ WF_laneVars(\E c \in DOMAIN lane : RetryDue(c))
  /\ WF_laneVars(\E c \in DOMAIN lane : ClaimExpires(c))

-----------------------------------------------------------------------------
(* Tawsel decides the commands in the order in which they were committed, so  *)
(* that it meets the revisions of a record in order, whatever the workers     *)
(* lose, repeat or take over from each other; and a command is reported       *)
(* settled only after Tawsel has decided it (source.ts 68-98).                *)
LaneInOrder ==
  /\ \A i \in DOMAIN received : received[i] = i
  /\ \A i, j \in DOMAIN received :
       i < j /\ lane[i].record = lane[j].record => lane[i].revision < lane[j].revision
  /\ \A c \in DOMAIN lane : lane[c].status = "settled" => c \in DOMAIN received

(* Every command saved is settled in the end.                                 *)
EventuallySettled == []<>(Open = {})

(* Why it holds.  A worker claims the head of the lane only, so everything    *)
(* before a claim, however old the claim is, is settled and stays so; and     *)
(* what is settled Tawsel has decided, so that a command it does not know     *)
(* yet is the next one.                                                       *)
Entries ==
  [record : Records, revision : Nat, status : {"pending", "settled"}, due : BOOLEAN,
   lease : Senders \cup {Nobody}, leased : BOOLEAN]

LaneTypeOK ==
  /\ form \in [Clerks -> {NoForm} \cup [record : Records, revision : Nat]]
  /\ records \in [Records -> Nat]
  /\ lane \in Seq(Entries)
  /\ sending \in [Senders -> {NoCommand} \cup
                  [command : Nat \ {0}, answer : {"none", "decided", "unknown"}]]
  /\ received \in Seq(Nat)

DecidedInTurn ==
  /\ \A i \in DOMAIN received : received[i] = i
  /\ Len(received) <= Len(lane)

SettledWasDecided == \A c \in DOMAIN lane : lane[c].status = "settled" => c \in DOMAIN received

ClaimsAreHeads ==
  \A w \in Senders : sending[w] # NoCommand =>
    /\ sending[w].command \in DOMAIN lane
    /\ \A d \in 1..sending[w].command - 1 : lane[d].status = "settled"
    /\ sending[w].answer = "decided" => sending[w].command \in DOMAIN received

RevisionsGrow ==
  /\ \A i \in DOMAIN lane : lane[i].revision <= records[lane[i].record]
  /\ \A i, j \in DOMAIN lane :
       i < j /\ lane[i].record = lane[j].record => lane[i].revision < lane[j].revision

LaneInv == LaneTypeOK /\ DecidedInTurn /\ SettledWasDecided /\ ClaimsAreHeads /\ RevisionsGrow
=============================================================================
