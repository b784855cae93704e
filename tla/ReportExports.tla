---------------------------- MODULE ReportExports ---------------------------
(***************************************************************************)
(* Excel files of a workday's report (apps/api/src/reporting/export.ts,    *)
(* service.ts, routes.ts): a bounded store in the memory of the process.   *)
(*                                                                         *)
(* A page asks for a file of the very snapshot it shows.  Its creation     *)
(* reads the report anew and then builds the workbook; a download finds    *)
(* the file and then reads the access of its owner anew.  Between the two  *)
(* halves of either, access changes, results are accepted, files expire,   *)
(* and the process restarts.                                               *)
(*                                                                         *)
(* A report is the access it was read with and the accepted content; the   *)
(* snapshotId is its hash, and the visibility of a file the hash of the    *)
(* first.  Workday, filters and kind of session are part of the owner, and *)
(* a workbook that is too large is one that fails.                         *)
(***************************************************************************)
EXTENDS Integers, FiniteSets, Sequences

CONSTANTS
  Owners,      \* identities with a workday and filters
  Views,       \* access contexts: capabilities and branches
  Exporters,   \* those with reports.export
  MaxReady,    \* maxReady: files with a workbook
  MaxRecords,  \* maxRecords: files and their tombstones
  MaxContent,  \* bound: changes of the accepted results
  MaxFiles     \* bound: files stored between restarts

ASSUME ExportsAssumption ==
  /\ Exporters \subseteq Views
  /\ MaxReady \in Nat \ {0} /\ MaxRecords \in Nat \ {0}
  /\ MaxContent \in Nat /\ MaxFiles \in Nat

VARIABLES
  visible,   \* visible[o]: the access context of the owner now
  accepted,  \* the accepted results, as the number of their changes
  pending,   \* pending[o][s]: the creation that runs for the request s
  files,     \* every Entry made since the start, in their order
  download   \* download[o]: progress, what it has read, and since when

exportVars == <<visible, accepted, pending, files, download>>

Snapshots == Views \X (0..MaxContent)
NoSnapshot == <<>>
SnapshotNow(o) == <<visible[o], accepted>>

NoCreation == [phase |-> "none", report |-> NoSnapshot]
NoDownload == [phase |-> "none", file |-> 0, seen |-> {}, during |-> {}, report |-> NoSnapshot]

ExportsInit ==
  /\ visible \in [Owners -> Views]
  /\ accepted = 0
  /\ pending = [o \in Owners |-> [s \in Snapshots |-> NoCreation]]
  /\ files = <<>>
  /\ download = [o \in Owners |-> NoDownload]

Downloading(o) == download[o].phase \in {"found", "authorized"}

(* The administration changes what an account may see (provisioning).        *)
ChangeAccess(o, v) ==
  /\ v # visible[o]
  /\ visible' = [visible EXCEPT ![o] = v]
  /\ download' = [download EXCEPT ![o].during = IF Downloading(o) THEN @ \cup {v} ELSE @]
  /\ UNCHANGED <<accepted, pending, files>>

AcceptMore ==
  /\ accepted < MaxContent
  /\ accepted' = accepted + 1
  /\ UNCHANGED <<visible, pending, files, download>>

-----------------------------------------------------------------------------
(* ReportExportStore.                                                        *)

RecordsIn(f) == {i \in DOMAIN f : f[i].listed}
ReadyIn(f) == {i \in RecordsIn(f) : f[i].status = "ready"}
FirstOf(S) == CHOOSE i \in S : \A j \in S : i <= j

(* Time has passed: a file loses its workbook, and later its tombstone.      *)
Aged(f) ==
  [i \in DOMAIN f |->
     IF f[i].listed
     THEN [f[i] EXCEPT !.status = IF f[i].age > 0 THEN "expired" ELSE @,
                       !.listed = f[i].age < 2]
     ELSE f[i]]

(* A store with one record too many drops its first tombstone, or else the   *)
(* first file.  A put adds one record to a store within its limit, so the    *)
(* loop of the code runs at most once.                                       *)
Surplus(f) ==
  LET expired == RecordsIn(f) \ ReadyIn(f) IN
  IF Cardinality(RecordsIn(f)) <= MaxRecords THEN {}
  ELSE {FirstOf(IF expired # {} THEN expired ELSE RecordsIn(f))}

Unlist(f, S) == [i \in DOMAIN f |-> IF i \in S THEN [f[i] EXCEPT !.listed = FALSE] ELSE f[i]]

Cleanup(f) == Unlist(Aged(f), Surplus(Aged(f)))

(* At the limit the oldest file gives up its workbook.                       *)
Evict(f) ==
  IF Cardinality(ReadyIn(f)) >= MaxReady
  THEN [f EXCEPT ![FirstOf(ReadyIn(f))].status = "expired"]
  ELSE f

NewFile(o, request, report) ==
  [owner |-> o, request |-> request, report |-> report, status |-> "ready", age |-> 0,
   listed |-> TRUE]

Put(f, file) == Cleanup(Append(Evict(Cleanup(f)), file))

(* A file to give out again: the same request, owner and visibility.         *)
Reusable(f, o, s, v) ==
  \E i \in ReadyIn(f) : f[i].owner = o /\ f[i].request = s /\ f[i].report[1] = v

(* The clock: expiresAt, and then purgeAt; files expire in their order.      *)
Elapse(i) ==
  /\ i \in RecordsIn(files) /\ files[i].age < 2
  /\ \A j \in RecordsIn(files) : j < i => files[j].age > files[i].age \/ files[j].age = 2
  /\ files' = [files EXCEPT ![i].age = @ + 1]
  /\ UNCHANGED <<visible, accepted, pending, download>>

-----------------------------------------------------------------------------
(* Creation.                                                                 *)

(* create, for the snapshot that a page shows, of late or of long ago.  A    *)
(* request that already runs is joined, and nothing starts.                  *)
AskFile(o, s) ==
  /\ pending[o][s] = NoCreation /\ s[2] <= accepted
  /\ pending' = [pending EXCEPT ![o][s] = [phase |-> "asked", report |-> NoSnapshot]]
  /\ UNCHANGED <<visible, accepted, files, download>>

(* Mutant: the snapshot that the page has shown is not compared.             *)
CapturableAnyway(o, s) == visible[o] \in Exporters

(* exportSnapshot: only with the capability, and only the report as shown.   *)
Capturable(o, s) == visible[o] \in Exporters /\ SnapshotNow(o) = s

(* The report is read in one transaction; a file that is stored already is   *)
(* the answer, and a refusal is one as well.                                 *)
CaptureReport(o, s) ==
  /\ pending[o][s].phase = "asked"
  /\ LET v == visible[o]
         f == Cleanup(files)
     IN IF ~Capturable(o, s)
        THEN /\ pending' = [pending EXCEPT ![o][s] = NoCreation]
             /\ files' = files
        ELSE /\ pending' = [pending EXCEPT ![o][s] =
                              IF Reusable(f, o, s, v) THEN NoCreation
                              ELSE [phase |-> "captured", report |-> SnapshotNow(o)]]
             /\ files' = f
  /\ UNCHANGED <<visible, accepted, download>>

(* The workbook is built and stored, or cannot be.                           *)
StoreFile(o, s) ==
  /\ pending[o][s].phase = "captured" /\ Len(files) < MaxFiles
  /\ files' = Put(files, NewFile(o, s, pending[o][s].report))
  /\ pending' = [pending EXCEPT ![o][s] = NoCreation]
  /\ UNCHANGED <<visible, accepted, download>>

FailFile(o, s) ==
  /\ pending[o][s].phase \in {"asked", "captured"}
  /\ pending' = [pending EXCEPT ![o][s] = NoCreation]
  /\ UNCHANGED <<visible, accepted, files, download>>

-----------------------------------------------------------------------------
(* Download, and the status of a file, which is guarded alike.               *)

(* owned: a file that is listed, of this owner; a guessed id is not found.   *)
FindFile(o, i) ==
  /\ ~Downloading(o) /\ i \in DOMAIN files
  /\ LET f == Cleanup(files) IN
       /\ files' = f
       /\ download' = [download EXCEPT ![o] =
            IF f[i].listed /\ f[i].owner = o
            THEN [NoDownload EXCEPT !.phase = "found", !.file = i, !.during = {visible[o]}]
            ELSE NoDownload]
  /\ UNCHANGED <<visible, accepted, pending>>

(* authorizeExport: the access of the owner, read in a transaction.          *)
AuthorizeFile(o) ==
  /\ download[o].phase = "found"
  /\ download' = [download EXCEPT ![o] =
       IF visible[o] \in Exporters
       THEN [@ EXCEPT !.phase = "authorized", !.seen = {visible[o]}]
       ELSE NoDownload]
  /\ UNCHANGED <<visible, accepted, pending, files>>

(* current: the access is the one the file was made with.                    *)
SameVisibility(o) == files[download[o].file].report[1] \in download[o].seen

(* The bytes go out while the file has them, also from a file that the store *)
(* has dropped since it was found.                                           *)
SendFile(o) ==
  /\ download[o].phase = "authorized"
  /\ LET i == download[o].file IN
     download' = [download EXCEPT ![o] =
       IF SameVisibility(o) /\ files[i].status = "ready"
       THEN [@ EXCEPT !.phase = "sent", !.report = files[i].report]
       ELSE NoDownload]
  /\ UNCHANGED <<visible, accepted, pending, files>>

(* A restart loses the store and all requests that run; an id given out      *)
(* before is not found after it.                                             *)
RestartApi ==
  /\ files' = <<>>
  /\ pending' = [o \in Owners |-> [s \in Snapshots |-> NoCreation]]
  /\ download' = [o \in Owners |-> NoDownload]
  /\ UNCHANGED <<visible, accepted>>

ExportsNext ==
  \/ AcceptMore \/ RestartApi
  \/ \E i \in DOMAIN files : Elapse(i)
  \/ \E o \in Owners :
       \/ \E v \in Views : ChangeAccess(o, v)
       \/ \E s \in Snapshots :
            AskFile(o, s) \/ CaptureReport(o, s) \/ StoreFile(o, s) \/ FailFile(o, s)
       \/ \E i \in DOMAIN files : FindFile(o, i)
       \/ AuthorizeFile(o) \/ SendFile(o)

ExportsSpec == ExportsInit /\ [][ExportsNext]_exportVars

-----------------------------------------------------------------------------
FileRows == [owner : Owners, request : Snapshots, report : Snapshots,
             status : {"ready", "expired"}, age : 0..2, listed : BOOLEAN]

ExportsTypeOK ==
  /\ visible \in [Owners -> Views]
  /\ accepted \in 0..MaxContent
  /\ pending \in [Owners -> [Snapshots -> [phase : {"none", "asked", "captured"},
                                           report : Snapshots \cup {NoSnapshot}]]]
  /\ files \in Seq(FileRows)
  /\ download \in [Owners -> [phase : {"none", "found", "authorized", "sent"},
                              file : Nat, seen : SUBSET Views, during : SUBSET Views,
                              report : Snapshots \cup {NoSnapshot}]]

(* What a download brings was made for its owner, and while the download ran *)
(* this owner had the very access it was made with, with reports.export: a   *)
(* withdrawn branch or capability closes the files made before               *)
(* (docs/reporting.md:59).                                                   *)
SentAsAuthorized ==
  \A o \in Owners : download[o].phase = "sent" =>
    /\ download[o].report = files[download[o].file].report
    /\ files[download[o].file].owner = o
    /\ download[o].report[1] \in download[o].during \cap Exporters

(* A file holds the report that its page has shown, whatever was accepted    *)
(* while it was asked for (docs/reporting.md:7, :57).                        *)
FilesAsShown == \A i \in DOMAIN files : files[i].report = files[i].request

(* Whatever creations overlap, the store keeps to its limits.                *)
StoreBounded ==
  Cardinality(ReadyIn(files)) <= MaxReady /\ Cardinality(RecordsIn(files)) <= MaxRecords

(* All three: a file reaches only whom it was made for, shows what its page   *)
(* showed, and leaves room for the next (reporting/export.ts).               *)
ExportsAsAuthorized == SentAsAuthorized /\ FilesAsShown /\ StoreBounded

-----------------------------------------------------------------------------
(* What it rests on: a creation that has read its report has read the one it *)
(* was asked for, every file was made by an exporter, and a download has its *)
(* own file and accesses its owner had while it ran.                         *)
CreationsSound ==
  \A o \in Owners, s \in Snapshots : pending[o][s].phase = "captured" =>
    pending[o][s].report = s /\ s[1] \in Exporters

FilesByExporters == \A i \in DOMAIN files : files[i].report[1] \in Exporters

DownloadsSound ==
  \A o \in Owners :
    /\ download[o].phase # "none" =>
         /\ download[o].file \in DOMAIN files
         /\ files[download[o].file].owner = o
    /\ Downloading(o) => visible[o] \in download[o].during
    /\ download[o].seen \subseteq download[o].during \cap Exporters

ExportsInv ==
  /\ ExportsTypeOK /\ ExportsAsAuthorized
  /\ CreationsSound /\ FilesByExporters /\ DownloadsSound
=============================================================================
