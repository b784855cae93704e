--------------------------- MODULE IdentityAccess ---------------------------
(***************************************************************************)
(* The access of one company user: the source's revisions of the user      *)
(* (apps/api/src/provisioning/domain.ts), the worker that reconciles each  *)
(* intent with the identity issuer (provisioning/worker.ts), and the       *)
(* browser sessions of that user (auth/service.ts).                        *)
(*                                                                         *)
(* Three parties act without a common transaction: the source commits      *)
(* intents, a worker verifies or logs out the subject at the issuer        *)
(* between two transactions, and each request of a session holds the       *)
(* session's row while it rotates a one-use refresh token at the issuer.   *)
(* Credentials, capabilities and the login form are not modelled; the      *)
(* absolute lifetime of a session is a revocation at any time (Logout).    *)
(***************************************************************************)
EXTENDS Integers

CONSTANTS
  Reconcilers,        \* provisioning workers; a claim's lease is its worker
  Logins,         \* login attempts, each with the session it may open
  Wanted,         \* Wanted[r]: does the source's revision r enable the user?
  MaxRotations,   \* bound: refresh tokens the issuer hands out per session
  MaxIdFaults       \* bound: issuer failures, lost answers and crashes

NoWorker == "no worker"

ASSUME IdAssumption ==
  /\ NoWorker \notin Reconcilers
  /\ DOMAIN Wanted \subseteq Nat \ {0} /\ \A r \in DOMAIN Wanted : Wanted[r] \in BOOLEAN

VARIABLES
  revision,   \* provisioning_records: newest revision accepted; 0 before any
  member,     \* memberships.enabled
  subject,    \* identity_subjects.enabled
  intent,     \* issuer_reconciliation row
  job,        \* job[w]: the claim a worker holds, with the issuer's answer
  login,      \* login[s]: how far attempt s has come
  session,    \* web_sessions: its state, and the refresh token in the row
  chain,      \* the issuer's side of a login: alive, and the token it honours
  request,    \* request[s]: the request that holds the row of session s
  checked,    \* history: generations whose subject the issuer has verified
  lost,       \* history: sessions whose rotated token a fault has lost
  faults

sourceVars == <<revision, member>>
workerVars == <<job, checked>>
loginVars == <<login, session>>
idVars == <<revision, member, subject, intent, job, login, session, chain, request,
            checked, lost, faults>>

NoClaim == [gen |-> 0, want |-> FALSE, answer |-> "none"]
Idle == [phase |-> "idle", token |-> 0]

IdInit ==
  /\ revision = 0 /\ member = FALSE /\ subject = FALSE
  /\ intent = [want |-> FALSE, gen |-> 0, status |-> "ready", lease |-> NoWorker,
               leased |-> FALSE]
  /\ job = [w \in Reconcilers |-> NoClaim]
  /\ login = [s \in Logins |-> "none"]
  /\ session = [s \in Logins |-> [state |-> "none", token |-> 0]]
  /\ chain = [s \in Logins |-> [live |-> FALSE, token |-> 0]]
  /\ request = [s \in Logins |-> Idle]
  /\ checked = {} /\ lost = {} /\ faults = 0

-----------------------------------------------------------------------------
(* The source's commands.  user.provision and user.disable of any revision   *)
(* may arrive, late ones and repeated ones included.                         *)

(* A revision that is not newer is refused or answered as before.            *)
Newer(r) == r > revision

(* One transaction: the membership follows the revision, the subject is      *)
(* closed at once, and the next generation of the intent waits for a worker. *)
(* An outstanding lease is left to its holder.                               *)
ReconciledQuietly(i, want) == [i EXCEPT !.want = want, !.gen = @ + 1]

Reconciled(i, want) == [i EXCEPT !.want = want, !.gen = @ + 1, !.status = "pending"]

Provision(r) ==
  /\ Newer(r)
  /\ revision' = r
  /\ member' = Wanted[r]
  /\ subject' = FALSE
  /\ intent' = Reconciled(intent, Wanted[r])
  /\ UNCHANGED <<workerVars, loginVars, chain, request, lost, faults>>

-----------------------------------------------------------------------------
(* The worker: claim, ask the issuer, complete.                              *)

Due == intent.status # "ready" /\ ~intent.leased

ClaimIntent(w) ==
  /\ Due /\ job[w] = NoClaim
  /\ intent' = [intent EXCEPT !.status = "running", !.lease = w, !.leased = TRUE]
  /\ job' = [job EXCEPT ![w] = [gen |-> intent.gen, want |-> intent.want, answer |-> "none"]]
  /\ UNCHANGED <<sourceVars, subject, loginVars, chain, request, checked, lost, faults>>

(* The issuer confirms the subject, or ends every session it has.            *)
AskIssuer(w) ==
  /\ job[w] # NoClaim /\ job[w].answer = "none"
  /\ job' = [job EXCEPT ![w].answer = "ok"]
  /\ IF job[w].want
     THEN checked' = checked \cup {job[w].gen} /\ UNCHANGED chain
     ELSE chain' = [s \in Logins |-> [chain[s] EXCEPT !.live = FALSE]] /\ UNCHANGED checked
  /\ UNCHANGED <<sourceVars, subject, intent, loginVars, request, lost, faults>>

(* The issuer is away, or does not know the subject as an enabled one.       *)
IssuerFails(w) ==
  /\ job[w] # NoClaim /\ job[w].answer = "none" /\ faults < MaxIdFaults
  /\ job' = [job EXCEPT ![w].answer = "error"]
  /\ faults' = faults + 1
  /\ UNCHANGED <<sourceVars, subject, intent, loginVars, chain, request, checked, lost>>

(* A worker whose lease has passed to another drops its answer; one whose    *)
(* generation is no longer the newest gives the intent back.                 *)
OwnsLease(w) == intent.lease = w

AnyIntent(w) == TRUE

SameIntent(w) == intent.gen = job[w].gen

Completed(w) ==
  [intent EXCEPT !.lease = NoWorker, !.leased = FALSE,
     !.status = IF ~SameIntent(w) THEN "pending"
                ELSE IF job[w].answer = "ok" THEN "ready" ELSE "retry"]

Complete(w) ==
  /\ job[w].answer # "none"
  /\ job' = [job EXCEPT ![w] = NoClaim]
  /\ IF OwnsLease(w)
     THEN /\ intent' = Completed(w)
          /\ subject' = (subject \/ (SameIntent(w) /\ job[w].answer = "ok" /\ job[w].want
                                     /\ member))
     ELSE UNCHANGED <<intent, subject>>
  /\ UNCHANGED <<sourceVars, loginVars, chain, request, checked, lost, faults>>

(* The lease is thirty seconds and a worker's calls time out after five each: *)
(* a lease that ends under a living claim is a fault.                        *)
Overtaken == job[intent.lease] # NoClaim

LeaseExpires ==
  /\ intent.leased
  /\ faults' = faults + (IF Overtaken THEN 1 ELSE 0)
  /\ faults' <= MaxIdFaults
  /\ intent' = [intent EXCEPT !.leased = FALSE]
  /\ UNCHANGED <<sourceVars, subject, workerVars, loginVars, chain, request, lost>>

WorkerDies(w) ==
  /\ job[w] # NoClaim /\ faults < MaxIdFaults
  /\ job' = [job EXCEPT ![w] = NoClaim]
  /\ faults' = faults + 1
  /\ UNCHANGED <<sourceVars, subject, intent, loginVars, chain, request, checked, lost>>

-----------------------------------------------------------------------------
(* Login: the callback consumes its attempt, exchanges the code at the       *)
(* issuer, checks the membership and stores the session, in that order and   *)
(* in separate transactions.                                                 *)

Begin(s) ==
  /\ login[s] = "none"
  /\ login' = [login EXCEPT ![s] = "begun"]
  /\ UNCHANGED <<sourceVars, subject, intent, workerVars, session, chain, request, lost, faults>>

(* The attempt is deleted before the exchange: a failed one cannot be        *)
(* replayed, and a second callback finds none.                               *)
Exchange(s) ==
  /\ login[s] = "begun"
  /\ \/ /\ login' = [login EXCEPT ![s] = "granted"]
        /\ chain' = [chain EXCEPT ![s] = [live |-> TRUE, token |-> 1]]
     \/ login' = [login EXCEPT ![s] = "failed"] /\ UNCHANGED chain
  /\ UNCHANGED <<sourceVars, subject, intent, workerVars, session, request, lost, faults>>

Admitted == subject /\ member

Admit(s) ==
  /\ login[s] = "granted"
  /\ login' = [login EXCEPT ![s] = IF Admitted THEN "admitted" ELSE "failed"]
  /\ UNCHANGED <<sourceVars, subject, intent, workerVars, session, chain, request, lost, faults>>

(* The tokens stored are those of the exchange, however long ago that was.   *)
Store(s) ==
  /\ login[s] = "admitted"
  /\ login' = [login EXCEPT ![s] = "done"]
  /\ session' = [session EXCEPT ![s] = [state |-> "open", token |-> 1]]
  /\ UNCHANGED <<sourceVars, subject, intent, workerVars, chain, request, lost, faults>>

-----------------------------------------------------------------------------
(* A request of a session holds the row's lock from its first read to its    *)
(* end; the rotated token it writes is the row's only when it commits.       *)

LockRow(s) ==
  /\ session[s].state = "open" /\ request[s] = Idle
  /\ request' = [request EXCEPT ![s] = [phase |-> "held", token |-> session[s].token]]
  /\ UNCHANGED <<sourceVars, subject, intent, workerVars, loginVars, chain, lost, faults>>

Honoured(s) == chain[s].live /\ chain[s].token = request[s].token

(* The issuer honours a refresh token once.                                  *)
Rotated(c) == [c EXCEPT !.token = @ + 1]

Refresh(s) ==
  /\ request[s].phase = "held" /\ Honoured(s) /\ chain[s].token < MaxRotations
  /\ chain' = [chain EXCEPT ![s] = Rotated(@)]
  /\ request' = [request EXCEPT ![s] = [phase |-> "rotated", token |-> @.token + 1]]
  /\ UNCHANGED <<sourceVars, subject, intent, workerVars, loginVars, lost, faults>>

EndRequest(s, state, token) ==
  /\ session' = [session EXCEPT ![s] = [state |-> state, token |-> token]]
  /\ request' = [request EXCEPT ![s] = Idle]
  /\ UNCHANGED <<sourceVars, subject, intent, workerVars, login>>

(* invalid_grant and an inactive access token revoke the session.            *)
Revoke(s) ==
  /\ \/ request[s].phase = "held" /\ ~Honoured(s)
     \/ request[s].phase = "rotated" /\ ~chain[s].live
  /\ EndRequest(s, "revoked", request[s].token)
  /\ UNCHANGED <<chain, lost, faults>>

(* Introspection finds the token active; the work is done or is denied.  A   *)
(* request whose access token is not due does not refresh.                   *)
Serve(s) ==
  /\ request[s].phase \in {"held", "rotated"} /\ chain[s].live
  /\ EndRequest(s, "open", request[s].token)
  /\ UNCHANGED <<chain, lost, faults>>

(* The issuer fails the introspection, or the work fails: a token already    *)
(* rotated is committed all the same.                                        *)
KeptOnFailure(s) == request[s].token

FailRequest(s) ==
  /\ request[s] # Idle /\ faults < MaxIdFaults
  /\ EndRequest(s, "open", KeptOnFailure(s))
  /\ faults' = faults + 1
  /\ UNCHANGED <<chain, lost>>

(* The process dies with the row locked, or the issuer's answer to the       *)
(* rotation is lost: the transaction rolls back, and the new token with it.  *)
LoseRequest(s) ==
  /\ request[s] # Idle /\ faults < MaxIdFaults
  /\ EndRequest(s, "open", session[s].token)
  /\ \/ /\ chain' = chain
        /\ lost' = IF request[s].phase = "rotated" THEN lost \cup {s} ELSE lost
     \/ /\ request[s].phase = "held" /\ Honoured(s) /\ chain[s].token < MaxRotations
        /\ chain' = [chain EXCEPT ![s] = Rotated(@)]
        /\ lost' = lost \cup {s}
  /\ faults' = faults + 1

(* Local revocation waits for the row and commits first; the issuer may not  *)
(* hear of it, or no longer honour the token.                                *)
Logout(s) ==
  /\ session[s].state = "open" /\ request[s] = Idle
  /\ session' = [session EXCEPT ![s].state = "revoked"]
  /\ \/ chain' = chain
     \/ chain[s].token = session[s].token /\ chain' = [chain EXCEPT ![s].live = FALSE]
  /\ UNCHANGED <<sourceVars, subject, intent, workerVars, login, request, lost, faults>>

-----------------------------------------------------------------------------
SessionStep ==
  \E s \in Logins :
    \/ Begin(s) \/ Exchange(s) \/ Admit(s) \/ Store(s)
    \/ LockRow(s) \/ Refresh(s) \/ Revoke(s) \/ Serve(s)
    \/ FailRequest(s) \/ LoseRequest(s) \/ Logout(s)

IdNext ==
  \/ \E r \in DOMAIN Wanted : Provision(r)
  \/ \E w \in Reconcilers :
       ClaimIntent(w) \/ AskIssuer(w) \/ IssuerFails(w) \/ Complete(w) \/ WorkerDies(w)
  \/ LeaseExpires
  \/ SessionStep

IdSpec == IdInit /\ [][IdNext]_idVars

(* The worker process polls, every request it makes is answered or times     *)
(* out, and leases are times.  Nobody has to log in or to send a revision.   *)
IdFairness ==
  /\ \A w \in Reconcilers :
       WF_idVars(ClaimIntent(w)) /\ WF_idVars(AskIssuer(w)) /\ WF_idVars(Complete(w))
  /\ WF_idVars(LeaseExpires)

FairIdSpec == IdSpec /\ IdFairness

-----------------------------------------------------------------------------
Intents == [want : BOOLEAN, gen : Nat, status : {"ready", "pending", "running", "retry"},
            lease : Reconcilers \cup {NoWorker}, leased : BOOLEAN]

IdTypeOK ==
  /\ revision \in Int /\ member \in BOOLEAN /\ subject \in BOOLEAN /\ faults \in Nat
  /\ intent \in Intents
  /\ job \in [Reconcilers -> [gen : Nat, want : BOOLEAN, answer : {"none", "ok", "error"}]]
  /\ login \in [Logins -> {"none", "begun", "granted", "admitted", "done", "failed"}]
  /\ session \in [Logins -> [state : {"none", "open", "revoked"}, token : Nat]]
  /\ chain \in [Logins -> [live : BOOLEAN, token : Nat]]
  /\ request \in [Logins -> [phase : {"idle", "held", "rotated"}, token : Nat]]
  /\ checked \subseteq Nat /\ lost \subseteq Logins

(* A user can enter only while the newest revision of the source enables it   *)
(* and the issuer has verified the subject for that very intent: no late      *)
(* answer of a worker and no late revision reopens what a newer intent        *)
(* closed (domain.ts 23-41, worker.ts 27-47).  And once the withdrawal of a   *)
(* user is reconciled, no session of that user holds tokens the issuer still  *)
(* honours, also the session whose login was admitted before the withdrawal   *)
(* and is stored after it.                                                    *)
AccessFollowsIntent ==
  /\ subject => member /\ Wanted[revision] /\ intent.want /\ intent.gen \in checked
  /\ intent.status = "ready" /\ ~intent.want =>
       \A s \in Logins : session[s].state = "open" => ~chain[s].live

(* A session at rest holds the refresh token the issuer honours: no failure   *)
(* the request itself handles strands it with a spent one (service.ts         *)
(* 140-180).  A crash between the issuer's answer and the commit may.         *)
SessionKeepsItsToken ==
  \A s \in Logins \ lost :
    session[s].state = "open" /\ request[s] = Idle /\ chain[s].live =>
      session[s].token = chain[s].token

(* Access follows the newest intent, and no session is stranded.              *)
AccessSound == AccessFollowsIntent /\ SessionKeepsItsToken

(* Every intent is reconciled in the end, and the access is what it says.     *)
IntentSettled == intent.status = "ready" /\ (revision > 0 => subject = Wanted[revision])

EventuallyReconciled == []<>IntentSettled

(* Why they hold.  The membership and the intent say what the newest revision *)
(* says; a claim says what the intent said at its generation, and a positive  *)
(* answer was given for that generation.  From the moment the issuer has      *)
(* ended the sessions of a withdrawn user, nobody is admitted, so that every  *)
(* login past its admission has a dead chain.                                 *)
IntentFollows ==
  /\ revision \in DOMAIN Wanted => member = Wanted[revision] /\ intent.want = Wanted[revision]
  /\ revision \notin DOMAIN Wanted => ~member /\ ~intent.want
  /\ intent.gen = 0 => ~intent.want

ClaimsFollow ==
  \A w \in Reconcilers :
    /\ job[w].gen <= intent.gen
    /\ job[w].gen = intent.gen => job[w].want = intent.want
    /\ job[w].want /\ job[w].answer = "ok" => job[w].gen \in checked

SubjectFollows == subject => member /\ intent.want /\ intent.gen \in checked

Withdrawn ==
  /\ ~intent.want
  /\ \/ intent.status = "ready"
     \/ \E w \in Reconcilers : job[w].gen = intent.gen /\ job[w].answer = "ok"

WithdrawnIsOut ==
  Withdrawn => \A s \in Logins : login[s] \in {"admitted", "done"} => ~chain[s].live

(* A session, and a request on it, exist only after the login; and unless a   *)
(* fault has lost it, the newest token is with the login, then in the row,    *)
(* then with the request that has the row.                                    *)
Stages ==
  \A s \in Logins :
    /\ session[s].state # "none" => login[s] = "done"
    /\ request[s].phase # "idle" => session[s].state = "open"
    /\ request[s].phase = "idle" => request[s] = Idle
    /\ login[s] \in {"none", "begun"} => ~chain[s].live

TokenKept ==
  \A s \in Logins \ lost : chain[s].live =>
    /\ login[s] \in {"granted", "admitted"} => chain[s].token = 1
    /\ session[s].state = "open" /\ request[s].phase # "rotated" => session[s].token = chain[s].token
    /\ request[s].phase # "idle" => request[s].token = chain[s].token

IdInv ==
  /\ IdTypeOK /\ IntentFollows /\ ClaimsFollow /\ SubjectFollows /\ WithdrawnIsOut
  /\ Stages /\ TokenKept
=============================================================================
