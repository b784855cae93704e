---------------------------- MODULE TenantAccess ----------------------------
(***************************************************************************)
(* What a source of a company and its people may do: the operator's        *)
(* bootstrap and the source's credentials (api/provisioning/service.ts),   *)
(* the roles, exceptions, branches and drivers the source provisions       *)
(* (api/provisioning/domain.ts), and the rows a principal reaches, one by  *)
(* one, in a list and through a command (api/access).                      *)
(*                                                                         *)
(* Every source has a tenant, one user and one driver of its own, named    *)
(* like it.  A credential is the number of its insertion.  A command of a  *)
(* source holds the row of its tenant, so commands of one source follow    *)
(* each other; those of two sources interleave in a bootstrap, which reads *)
(* and writes reservations that no tenant owns.  Reconciliation with the   *)
(* issuer is module IdentityAccess.                                        *)
(***************************************************************************)
EXTENDS Integers, Sequences

CONSTANTS
  Sources, NoSource,
  Subjects,       \* people at the shared company issuer
  Grants,         \* capabilities other than those named below
  MaxOrders       \* bound: accepted commands of all sources

ASSUME AccessAssumption == NoSource \notin Sources

Own == {"execution.own", "correction.own"}
Capabilities == Own \cup Grants
States == {"lasting", "ending", "expired", "revoked"}
Branch == "branch"
NoValue == "null"

VARIABLES
  source,     \* integrations with the provisioning record of the source itself
  credentials,\* credentials[s]: service_credentials by number
  reserved,   \* provisioning_subject_grants: the source that holds a subject
  subjectOf,  \* identity_subjects: the source whose user a subject is bound to
  binding,    \* binding[s]: subjects a running bootstrap has found free, or {}
  staff,      \* staff[s]: role, exceptions, branches and driver of the user
  branchOpen, \* branches.enabled of each tenant
  retired,    \* history: credentials a source had when it was disabled
  orders      \* commands accepted so far

accessVars == <<source, credentials, reserved, subjectOf, binding, staff, branchOpen,
                retired, orders>>

NewStaff ==
  [member |-> FALSE, role |-> {}, exceptions |-> [c \in Capabilities |-> "inherit"],
   branches |-> {}, driver |-> "none"]

AccessInit ==
  /\ source = [s \in Sources |-> [bound |-> FALSE, enabled |-> FALSE]]
  /\ credentials = [s \in Sources |-> << >>]
  /\ reserved = [x \in Subjects |-> NoSource]
  /\ subjectOf = [x \in Subjects |-> NoSource]
  /\ binding = [s \in Sources |-> {}]
  /\ staff = [s \in Sources |-> NewStaff]
  /\ branchOpen = [s \in Sources |-> FALSE]
  /\ retired = [s \in Sources |-> {}]
  /\ orders = 0

-----------------------------------------------------------------------------
(* The source and its credentials.                                           *)

\* A newer revision of a source record is accepted and saved with its changes.
Order(s) ==
  /\ binding[s] = {} /\ orders < MaxOrders
  /\ orders' = orders + 1

\* authenticateService: neither revoked nor expired, and the source is enabled.
Usable(s, n) ==
  source[s].enabled /\ n \in DOMAIN credentials[s] /\ credentials[s][n] \in {"lasting", "ending"}
Authenticated(s) == \E n \in DOMAIN credentials[s] : Usable(s, n)

Free(s, x) == reserved[x] = s \/ (reserved[x] = NoSource /\ subjectOf[x] = NoSource)

\* bindSource: the operator names subjects, which are read first ...
BeginBind(s, subjects) ==
  /\ Order(s)
  /\ subjects # {} /\ \A x \in subjects : Free(s, x)
  /\ binding' = [binding EXCEPT ![s] = subjects]
  /\ UNCHANGED <<source, credentials, reserved, subjectOf, staff, branchOpen, retired>>

\* Mutant: a reservation replaces the one it meets.
ReserveOver(s, subjects) == [x \in Subjects |-> IF x \in subjects THEN s ELSE reserved[x]]

\* ... and inserted unless another source has them by then (ON CONFLICT DO NOTHING).
Reserved(s, subjects) ==
  [x \in Subjects |-> IF x \in subjects /\ reserved[x] = NoSource THEN s ELSE reserved[x]]

\* The first bootstrap of a source inserts its credential; a later one changes no
\* credential and does not enable a disabled source.
EndBind(s) ==
  /\ binding[s] # {}
  /\ reserved' = Reserved(s, binding[s])
  /\ binding' = [binding EXCEPT ![s] = {}]
  /\ IF source[s].bound THEN UNCHANGED <<source, credentials>>
     ELSE /\ source' = [source EXCEPT ![s] = [bound |-> TRUE, enabled |-> TRUE]]
          /\ credentials' = [credentials EXCEPT ![s] = <<"lasting">>]
  /\ UNCHANGED <<subjectOf, staff, branchOpen, retired, orders>>

\* Shortened to the overlap: no time at all, or some.
Shortened(c, overlap) ==
  IF c = "lasting" THEN (IF overlap THEN "ending" ELSE "expired")
  ELSE IF c = "ending" /\ ~overlap THEN "expired" ELSE c

\* integration.rotateCredential: by the source, or by the operator, who alone may
\* recover a source.
RotateCredential(s, operator, recover, overlap) ==
  /\ Order(s) /\ source[s].bound
  /\ operator \/ Authenticated(s)
  /\ recover => operator
  /\ credentials' = [credentials EXCEPT ![s] =
       [n \in 1..Len(@) + 1 |->
          IF n \in DOMAIN @ THEN Shortened(@[n], overlap) ELSE "lasting"]]
  /\ source' = [source EXCEPT ![s].enabled = @ \/ recover]
  /\ UNCHANGED <<reserved, subjectOf, binding, staff, branchOpen, retired>>

\* Mutant: disabling closes the source and leaves its credentials.
Untouched(s) == credentials[s]

Revoked(s) == [n \in DOMAIN credentials[s] |-> "revoked"]

\* integration.disableSource: an authenticated source closes itself.
DisableSource(s) ==
  /\ Order(s) /\ Authenticated(s)
  /\ source' = [source EXCEPT ![s].enabled = FALSE]
  /\ credentials' = [credentials EXCEPT ![s] = Revoked(s)]
  /\ retired' = [retired EXCEPT ![s] = @ \cup DOMAIN credentials[s]]
  /\ UNCHANGED <<reserved, subjectOf, binding, staff, branchOpen>>

\* Time: a credential, or the overlap of a shortened one, is over.
Expires(s, n) ==
  /\ credentials[s][n] \in {"lasting", "ending"}
  /\ credentials' = [credentials EXCEPT ![s][n] = "expired"]
  /\ UNCHANGED <<source, reserved, subjectOf, binding, staff, branchOpen, retired, orders>>

-----------------------------------------------------------------------------
(* What the source provisions (writeProjection).                             *)

Projecting(s) ==
  /\ Order(s) /\ Authenticated(s)
  /\ UNCHANGED <<source, credentials, reserved, binding, retired>>

\* branch.provision and branch.disable
SetBranch(s, open) ==
  /\ Projecting(s)
  /\ branchOpen' = [branchOpen EXCEPT ![s] = open]
  /\ UNCHANGED <<subjectOf, staff>>

\* user.provision: only for a subject this source has reserved and no other user
\* has; a user keeps its subject, and its explicit exceptions.
ProvisionUser(s, x, role, branches) ==
  /\ Projecting(s)
  /\ reserved[x] = s /\ subjectOf[x] \in {NoSource, s}
  /\ \A y \in Subjects \ {x} : subjectOf[y] # s
  /\ subjectOf' = [subjectOf EXCEPT ![x] = s]
  /\ staff' = [staff EXCEPT ![s].member = TRUE, ![s].role = role, ![s].branches = branches]
  /\ UNCHANGED branchOpen

\* role.defineCapabilities of the user's role and user.setRole; user.setBranchMemberships.
SetRole(s, role, branches) ==
  /\ Projecting(s) /\ staff[s].member
  /\ role = staff[s].role \/ branches = staff[s].branches
  /\ staff' = [staff EXCEPT ![s].role = role, ![s].branches = branches]
  /\ UNCHANGED <<subjectOf, branchOpen>>

\* user.setCapabilityExceptions replaces the exceptions of the user.
SetException(s, c, effect) ==
  /\ Projecting(s) /\ staff[s].member
  /\ staff' = [staff EXCEPT ![s].exceptions = [NewStaff.exceptions EXCEPT ![c] = effect]]
  /\ UNCHANGED <<subjectOf, branchOpen>>

\* driver.provisionReference: the one driver of the user, enabled or not.
SetDriver(s, driver) ==
  /\ Projecting(s) /\ staff[s].member
  /\ staff' = [staff EXCEPT ![s].driver = driver]
  /\ UNCHANGED <<subjectOf, branchOpen>>

-----------------------------------------------------------------------------
(* What a principal reaches.                                                 *)

\* resolveBinding of the user: the capabilities of the role as its exceptions
\* change them, the enabled branches, the enabled driver.
Effective(s) ==
  {c \in Capabilities :
     \/ staff[s].exceptions[c] = "allow"
     \/ staff[s].exceptions[c] = "inherit" /\ c \in staff[s].role}

BindingOf(s) ==
  [tenant |-> s, kind |-> "company", integration |-> NoValue,
   branches |-> IF branchOpen[s] THEN staff[s].branches ELSE {},
   driver |-> IF staff[s].driver = "on" THEN s ELSE NoValue,
   capabilities |-> Effective(s)]

\* resolveBinding of an integration: no driver, and no capability of a driver.
ServiceBinding(s) ==
  [tenant |-> s, kind |-> "company", integration |-> s,
   branches |-> IF branchOpen[s] THEN {Branch} ELSE {}, driver |-> NoValue,
   capabilities |-> Grants]

Bindings ==
  [tenant : Sources, kind : {"company", "personal"}, integration : Sources \cup {NoValue},
   branches : SUBSET {Branch}, driver : Sources \cup {NoValue},
   capabilities : SUBSET Capabilities]

\* ResourceScope of a row, and the alternatives of a policy.
Rows ==
  [tenant : Sources, branch : {Branch, NoValue}, driver : Sources \cup {NoValue},
   integration : Sources \cup {NoValue}]
Alternatives == [capability : Capabilities, ownership : {"assigned-branches", "own-driver"}]

HeldOf(b, policy) == {p \in policy : p.capability \in b.capabilities}

OwnOnly(b, p) == b.kind = "personal" \/ p.capability \in Own \/ p.ownership = "own-driver"

InScope(b, row) ==
  /\ row.tenant = b.tenant
  /\ IF b.kind = "personal" THEN row.branch = NoValue /\ row.integration = NoValue
     ELSE row.branch # NoValue /\ row.branch \in b.branches
  /\ b.integration = NoValue \/ row.integration = b.integration

OwnRow(b, row) == b.driver # NoValue /\ row.driver = b.driver

\* AccessSession.canRead of one row.
CanRead(b, policy, row) ==
  /\ InScope(b, row)
  /\ \E p \in HeldOf(b, policy) : ~OwnOnly(b, p) \/ OwnRow(b, row)

\* AccessSession.sqlPredicate: the driver is asked for when every alternative does.
Listed(b, policy, row) ==
  /\ HeldOf(b, policy) # {}
  /\ InScope(b, row)
  /\ (\A p \in HeldOf(b, policy) : OwnOnly(b, p)) => OwnRow(b, row)

\* requireResource and requireOperation: only a row in reach is asked for its state.
Asked(b, policy, row, eligible) ==
  IF ~CanRead(b, policy, row) THEN "unavailable"
  ELSE IF eligible THEN "accepted" ELSE "lifecycle"

\* executeAuthorizedCommand: without the capability no row is looked at.
Verdict(b, policy, row, eligible) ==
  IF HeldOf(b, policy) = {} THEN "forbidden" ELSE Asked(b, policy, row, eligible)

-----------------------------------------------------------------------------
AccessNext ==
  \E s \in Sources :
    \/ \E subjects \in SUBSET Subjects : BeginBind(s, subjects)
    \/ EndBind(s)
    \/ \E operator, recover, overlap \in BOOLEAN : RotateCredential(s, operator, recover, overlap)
    \/ DisableSource(s)
    \/ \E n \in DOMAIN credentials[s] : Expires(s, n)
    \/ \E open \in BOOLEAN : SetBranch(s, open)
    \/ \E x \in Subjects, role \in SUBSET Capabilities, branches \in SUBSET {Branch} :
         ProvisionUser(s, x, role, branches)
    \/ \E role \in SUBSET Capabilities, branches \in SUBSET {Branch} :
         SetRole(s, role, branches)
    \/ \E c \in Capabilities, effect \in {"inherit", "allow", "deny"} : SetException(s, c, effect)
    \/ \E driver \in {"on", "off"} : SetDriver(s, driver)

AccessSpec == AccessInit /\ [][AccessNext]_accessVars

-----------------------------------------------------------------------------
AccessTypeOK ==
  /\ source \in [Sources -> [bound : BOOLEAN, enabled : BOOLEAN]]
  /\ credentials \in [Sources -> Seq(States)]
  /\ reserved \in [Subjects -> Sources \cup {NoSource}]
  /\ subjectOf \in [Subjects -> Sources \cup {NoSource}]
  /\ binding \in [Sources -> SUBSET Subjects]
  /\ branchOpen \in [Sources -> BOOLEAN] /\ retired \in [Sources -> SUBSET Nat]
  /\ orders \in Nat

(* No credential from before a source was disabled works again, whoever      *)
(* rotates, recovers or binds it later (service.ts 135-145).                 *)
RetiredStayOut == \A s \in Sources : \A n \in retired[s] : ~Usable(s, n)

(* A source has one credential without an announced end, so that a rotation  *)
(* leaves the old ones no more than the overlap.                             *)
OneLasting ==
  \A s \in Sources : \A m, n \in DOMAIN credentials[s] :
    credentials[s][m] = "lasting" /\ credentials[s][n] = "lasting" => m = n

(* A subject is a user only of the source that holds its reservation, also   *)
(* when two sources reserve it at the same time.                             *)
SubjectsStay == \A x \in Subjects : subjectOf[x] # NoSource => reserved[x] = subjectOf[x]

(* A source keeps what it was given: the authority over people and rows is   *)
(* neither moved by another source nor revived.                              *)
AuthorityStays == RetiredStayOut /\ OneLasting /\ SubjectsStay

(* A list shows a principal exactly the rows it can read one by one and give *)
(* commands for, whatever alternatives the policy has (service.ts 94-141).   *)
ReadsAgree ==
  \A b \in Bindings, policy \in SUBSET Alternatives, row \in Rows, eligible \in BOOLEAN :
    /\ Listed(b, policy, row) <=> CanRead(b, policy, row)
    /\ Listed(b, policy, row)
         <=> Verdict(b, policy, row, eligible) \in {"accepted", "lifecycle"}
=============================================================================
