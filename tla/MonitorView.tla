---------------------------- MODULE MonitorView -----------------------------
(***************************************************************************)
(* The view of one driver that staff and integrations watch: the versioned *)
(* read (apps/api/src/monitoring/service.ts, migration 0023) and the       *)
(* browser's polling page (apps/web/src/monitoring-refresh.ts).            *)
(*                                                                         *)
(* A read is a repeatable-read transaction: it sees one snapshot, locks    *)
(* the row of the view, and gives the content it computed a revision.  The *)
(* page keeps one request, aborts it for a full refresh, and polls with    *)
(* the ETag of what it shows; an aborted read still runs to its end.       *)
(* Content is the number of the change it reflects, for one scope and one  *)
(* page; the age of what is shown is left out.                             *)
(***************************************************************************)
EXTENDS Integers, FiniteSets

CONSTANTS
  Reads,          \* read transactions, of the page and of other observers
  MaxChanges,     \* bound: changes of the content
  MaxRevisions,   \* bound: revisions of the view
  MaxEpochs       \* bound: requests of the page

Other == 0        \* the epoch of a read another observer asked for

VARIABLES
  truth,     \* the committed content
  view,      \* monitoring_views: content hash and revision; 0 before the first
  read,      \* read[r]: its progress, snapshot, and what it answers
  page,      \* RefreshState: revision, content; the epoch; is a request out?
  answered   \* history: every answer given, as revision and content

monVars == <<truth, view, read, page, answered>>

NoRead == [phase |-> "idle", epoch |-> Other, etag |-> 0, content |-> 0, outdated |-> FALSE,
           revision |-> 0]

MonInit ==
  /\ truth = 1
  /\ view = [content |-> 0, revision |-> 0]
  /\ read = [r \in Reads |-> NoRead]
  /\ page = [revision |-> 0, content |-> 0, epoch |-> 0, waiting |-> FALSE]
  /\ answered = {}

Change ==
  /\ truth < MaxChanges
  /\ truth' = truth + 1
  /\ UNCHANGED <<view, read, page, answered>>

-----------------------------------------------------------------------------
(* The server.                                                               *)

Arrived(epoch, etag) ==
  [NoRead EXCEPT !.phase = "arrived", !.epoch = epoch, !.etag = etag]

(* Another observer asks for the view.                                       *)
Ask(r) ==
  /\ read[r] = NoRead
  /\ read' = [read EXCEPT ![r] = Arrived(Other, 0)]
  /\ UNCHANGED <<truth, view, page, answered>>

TakeSnapshot(r) ==
  /\ read[r].phase = "arrived"
  /\ read' = [read EXCEPT ![r].phase = "reading", ![r].content = truth, ![r].outdated = FALSE]
  /\ UNCHANGED <<truth, view, page, answered>>

RowFree == \A r \in Reads : read[r].phase # "locked"

(* Mutant: a row written since the snapshot is locked all the same.          *)
LockedAnyway(r) == "locked"

(* SELECT ... FOR UPDATE, or the insertion of the first row: a row written    *)
(* since the snapshot fails the transaction (40001), which starts again; the *)
(* fifth failure is the last.                                                *)
Locked(r) == IF read[r].outdated THEN "arrived" ELSE "locked"

LockView(r) ==
  /\ read[r].phase = "reading" /\ RowFree
  /\ read' = [read EXCEPT ![r].phase = Locked(r)]
  /\ UNCHANGED <<truth, view, page, answered>>

(* Same content, same revision.  The write makes every snapshot now in use   *)
(* an old one.                                                               *)
NextView(content) ==
  IF view.content = content THEN view
  ELSE [content |-> content, revision |-> view.revision + 1]

CommitRead(r) ==
  LET v == NextView(read[r].content) IN
  /\ read[r].phase = "locked" /\ v.revision <= MaxRevisions
  /\ view' = v
  /\ answered' = answered \cup {v}
  /\ read' = [q \in Reads |->
                IF q = r THEN [read[r] EXCEPT !.phase = "answered", !.revision = v.revision]
                ELSE IF read[q].phase = "reading" THEN [read[q] EXCEPT !.outdated = TRUE]
                ELSE read[q]]
  /\ UNCHANGED <<truth, page>>

(* Five attempts have failed, or the connection does.                        *)
FailRead(r) ==
  /\ read[r].phase \in {"arrived", "reading", "locked", "answered"}
  /\ read' = [read EXCEPT ![r] = NoRead]
  /\ page' = IF read[r].epoch = page.epoch /\ page.waiting
             THEN [page EXCEPT !.waiting = FALSE] ELSE page
  /\ UNCHANGED <<truth, view, answered>>

-----------------------------------------------------------------------------
(* The page.                                                                 *)

(* refresh: a full one aborts the request that is out and sends no ETag; a   *)
(* poll waits for its turn.  An aborted read goes on without a listener.     *)
RefreshPage(r, full) ==
  /\ read[r] = NoRead /\ page.epoch < MaxEpochs
  /\ full \/ ~page.waiting
  /\ page' = [page EXCEPT !.epoch = @ + 1, !.waiting = TRUE]
  /\ read' = [read EXCEPT ![r] = Arrived(page.epoch + 1, IF full THEN 0 ELSE page.revision)]
  /\ UNCHANGED <<truth, view, answered>>

(* Mutant: any answer is shown, also that of a request given up.             *)
TakesAny(r) == read[r].epoch # Other

(* An answer counts if its request is the last one and its revision is not   *)
(* older than the one shown.                                                 *)
Takes(r) == read[r].epoch = page.epoch /\ page.waiting /\ read[r].revision >= page.revision

(* 304 keeps the content that is shown, 200 brings the one that was read.    *)
NotModified(r) == read[r].etag = read[r].revision

Deliver(r) ==
  /\ read[r].phase = "answered"
  /\ page' = IF Takes(r)
             THEN [page EXCEPT !.revision = read[r].revision, !.waiting = FALSE,
                     !.content = IF NotModified(r) THEN @ ELSE read[r].content]
             ELSE [page EXCEPT !.waiting = @ /\ read[r].epoch # page.epoch]
  /\ read' = [read EXCEPT ![r] = NoRead]
  /\ UNCHANGED <<truth, view, answered>>

-----------------------------------------------------------------------------
MonNext ==
  \/ Change
  \/ \E r \in Reads :
       \/ Ask(r) \/ TakeSnapshot(r) \/ LockView(r) \/ CommitRead(r) \/ FailRead(r)
       \/ Deliver(r) \/ \E full \in BOOLEAN : RefreshPage(r, full)

MonSpec == MonInit /\ [][MonNext]_monVars

-----------------------------------------------------------------------------
(* A higher revision never carries older content, whichever observers read    *)
(* at the same time: revisions can be compared (monitoring/service.ts 26-46). *)
RevisionsAreNewer ==
  \A a, b \in answered : a.revision < b.revision => a.content < b.content

(* What the page shows is the content of the revision it shows, so that with  *)
(* the revision, which no late answer lowers, the content never goes back     *)
(* (monitoring-refresh.ts 64-101).                                            *)
PageShowsRevision ==
  page.revision > 0 => [content |-> page.content, revision |-> page.revision] \in answered

ViewsNeverRegress == RevisionsAreNewer /\ PageShowsRevision

PageNeverGoesBack == [][page'.content >= page.content]_page
=============================================================================
