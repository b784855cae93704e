---------------------------- MODULE Access_proofs -----------------------------
(*****************************************************************************)
(* Proofs about who may do what: reads and commands under a policy, and the  *)
(* sessions and accounts of workers, for every set of sources, subjects and  *)
(* capabilities, of workers and of logins, and every number of faults.       *)
(*****************************************************************************)
EXTENDS TenantAccess, IdentityAccess, TLAPS

-----------------------------------------------------------------------------
(* The policy of a tenant (TenantAccess).                                    *)
(* A list and a command reach exactly the rows that can be read one by one.  *)
THEOREM ListsAgree == ReadsAgree
<1> SUFFICES ASSUME NEW b \in Bindings, NEW policy \in SUBSET Alternatives,
                    NEW row \in Rows, NEW eligible \in BOOLEAN
             PROVE  /\ Listed(b, policy, row) <=> CanRead(b, policy, row)
                    /\ Listed(b, policy, row)
                         <=> Verdict(b, policy, row, eligible) \in {"accepted", "lifecycle"}
  BY DEF ReadsAgree
<1>1. Listed(b, policy, row) <=> CanRead(b, policy, row)
  <2>1. CASE HeldOf(b, policy) = {}
    BY <2>1 DEF Listed, CanRead
  <2>2. CASE \E p \in HeldOf(b, policy) : ~OwnOnly(b, p)
    BY <2>2 DEF Listed, CanRead
  <2>3. CASE HeldOf(b, policy) # {} /\ \A p \in HeldOf(b, policy) : OwnOnly(b, p)
    BY <2>3 DEF Listed, CanRead
  <2> QED BY <2>1, <2>2, <2>3
<1>2. Verdict(b, policy, row, eligible) \in {"accepted", "lifecycle"}
        <=> CanRead(b, policy, row)
  <2>1. HeldOf(b, policy) = {} => ~CanRead(b, policy, row)
    BY DEF CanRead
  <2> QED BY <2>1 DEF Verdict, Asked
<1> QED BY <1>1, <1>2

-----------------------------------------------------------------------------
(* The strengthening: what was retired stays revoked, and a source that was  *)
(* never bound has no credential.                                            *)
RetiredRevoked ==
  \A s \in Sources : \A n \in retired[s] :
    n \in DOMAIN credentials[s] /\ credentials[s][n] = "revoked"

UnboundHasNone == \A s \in Sources : ~source[s].bound => credentials[s] = << >>

AuthorityInv ==
  AccessTypeOK /\ RetiredRevoked /\ UnboundHasNone /\ OneLasting /\ SubjectsStay

LEMMA AccessInitial == AccessInit => AuthorityInv
  BY AccessAssumption
  DEF AccessInit, AuthorityInv, AccessTypeOK, RetiredRevoked, UnboundHasNone, OneLasting,
      SubjectsStay

(* A rotation appends the only lasting credential and revives none.          *)
LEMMA RotationLeavesOne ==
  ASSUME AuthorityInv, NEW s \in Sources, NEW operator \in BOOLEAN,
         NEW recover \in BOOLEAN, NEW overlap \in BOOLEAN,
         RotateCredential(s, operator, recover, overlap)
  PROVE  AuthorityInv'
<1> DEFINE old == credentials[s]
           new == [n \in 1..Len(old) + 1 |->
                     IF n \in DOMAIN old THEN Shortened(old[n], overlap) ELSE "lasting"]
<1>1. credentials' = [credentials EXCEPT ![s] = new]
  BY DEF RotateCredential
<1>2. old \in Seq(States) /\ DOMAIN old = 1..Len(old) /\ Len(old) \in Nat
  BY DEF AuthorityInv, AccessTypeOK
<1>3. \A n \in DOMAIN old : old[n] \in States
  BY <1>2
<1>4. \A n \in DOMAIN old :
        /\ Shortened(old[n], overlap) \in States \ {"lasting"}
        /\ old[n] = "revoked" => Shortened(old[n], overlap) = "revoked"
  BY <1>3 DEF Shortened, States
<1>5. new \in Seq(States) /\ DOMAIN new = 1..Len(old) + 1
  <2>1. \A n \in 1..Len(old) + 1 : new[n] \in States
    BY <1>4 DEF States
  <2>2. new \in [1..Len(old) + 1 -> States]
    BY <2>1
  <2> HIDE DEF new
  <2>3. Len(old) + 1 \in Nat
    BY <1>2
  <2> QED BY <2>2, <2>3
<1>6. AccessTypeOK'
  <2>1. credentials' \in [Sources -> Seq(States)]
    <3> HIDE DEF new
    <3> QED BY <1>1, <1>5 DEF AuthorityInv, AccessTypeOK
  <2>2. source' \in [Sources -> [bound : BOOLEAN, enabled : BOOLEAN]]
    BY DEF RotateCredential, AuthorityInv, AccessTypeOK
  <2> QED BY <2>1, <2>2 DEF RotateCredential, Order, AuthorityInv, AccessTypeOK
<1>7. \A t \in Sources : credentials'[t] = IF t = s THEN new ELSE credentials[t]
  <2> HIDE DEF new
  <2> QED BY <1>1 DEF AuthorityInv, AccessTypeOK
<1>8. RetiredRevoked'
  <2> SUFFICES ASSUME NEW t \in Sources, NEW n \in retired[t]
               PROVE  n \in DOMAIN credentials'[t] /\ credentials'[t][n] = "revoked"
    BY DEF RotateCredential, RetiredRevoked
  <2>1. n \in DOMAIN credentials[t] /\ credentials[t][n] = "revoked"
    BY DEF AuthorityInv, RetiredRevoked
  <2>2. CASE t = s
    <3>1. n \in DOMAIN old /\ old[n] = "revoked" /\ n \in 1..Len(old) + 1
      BY <2>1, <2>2, <1>2
    <3>2. new[n] = Shortened(old[n], overlap)
      BY <3>1
    <3>3. new[n] = "revoked" /\ n \in DOMAIN new
      BY <3>1, <3>2, <1>4, <1>5
    <3> HIDE DEF new
    <3> QED BY <2>2, <3>3, <1>7
  <2> QED BY <2>1, <2>2, <1>7
<1>9. OneLasting'
  <2> SUFFICES ASSUME NEW t \in Sources,
                      NEW m \in DOMAIN credentials'[t], NEW n \in DOMAIN credentials'[t],
                      credentials'[t][m] = "lasting", credentials'[t][n] = "lasting"
               PROVE  m = n
    BY DEF OneLasting
  <2>1. CASE t = s
    <3>1. \A k \in DOMAIN new : new[k] = "lasting" => k = Len(old) + 1
      BY <1>2, <1>4, <1>5
    <3> HIDE DEF new
    <3> QED BY <2>1, <3>1, <1>7
  <2>2. CASE t # s
    BY <2>2, <1>7 DEF AuthorityInv, OneLasting
  <2> QED BY <2>1, <2>2
<1>10. SubjectsStay'
  BY DEF RotateCredential, AuthorityInv, SubjectsStay
<1>11. UnboundHasNone'
  <2>1. source[s].bound
    BY DEF RotateCredential
  <2>2. \A t \in Sources : source'[t].bound = source[t].bound
    BY DEF RotateCredential, AuthorityInv, AccessTypeOK
  <2> HIDE DEF new
  <2> QED BY <2>1, <2>2, <1>7 DEF AuthorityInv, UnboundHasNone
<1> QED BY <1>6, <1>8, <1>9, <1>10, <1>11 DEF AuthorityInv

(* Every other command keeps the authority as well.                          *)
LEMMA AuthorityKept == AuthorityInv /\ [AccessNext]_accessVars => AuthorityInv'
<1> SUFFICES ASSUME AuthorityInv, [AccessNext]_accessVars PROVE AuthorityInv'
  OBVIOUS
<1> USE DEF AuthorityInv
<1>1. ASSUME NEW s \in Sources, NEW subjects \in SUBSET Subjects, BeginBind(s, subjects)
      PROVE  AuthorityInv'
  BY <1>1 DEF BeginBind, Order, AccessTypeOK, RetiredRevoked, UnboundHasNone, OneLasting, SubjectsStay
<1>2. ASSUME NEW s \in Sources, EndBind(s) PROVE AuthorityInv'
  <2>1. SubjectsStay'
    BY <1>2, AccessAssumption DEF EndBind, Reserved, SubjectsStay, AccessTypeOK
  <2>2. CASE source[s].bound
    <3>1. AccessTypeOK'
      BY <1>2, <2>2 DEF EndBind, Reserved, AccessTypeOK
    <3>2. RetiredRevoked' /\ OneLasting' /\ UnboundHasNone'
      BY <1>2, <2>2 DEF EndBind, RetiredRevoked, OneLasting, UnboundHasNone
    <3> QED BY <2>1, <3>1, <3>2
  <2>3. CASE ~source[s].bound
    <3>0. /\ credentials' = [credentials EXCEPT ![s] = <<"lasting">>]
          /\ source' = [source EXCEPT ![s] = [bound |-> TRUE, enabled |-> TRUE]]
      BY <1>2, <2>3 DEF EndBind
    <3>1. AccessTypeOK'
      <4>1. <<"lasting">> \in Seq(States)
        BY DEF States
      <4>2. credentials' \in [Sources -> Seq(States)]
        BY <3>0, <4>1 DEF AccessTypeOK
      <4>3. source' \in [Sources -> [bound : BOOLEAN, enabled : BOOLEAN]]
        BY <3>0 DEF AccessTypeOK
      <4> QED BY <1>2, <4>2, <4>3 DEF EndBind, Reserved, AccessTypeOK
    <3>2. RetiredRevoked' /\ OneLasting'
      <4>1. \A n \in DOMAIN <<"lasting">> : n = 1
        OBVIOUS
      <4>2. \A t \in Sources : credentials'[t] = IF t = s THEN <<"lasting">> ELSE credentials[t]
        BY <3>0 DEF AccessTypeOK
      <4>3. retired' = retired
        BY <1>2 DEF EndBind
      <4>4. OneLasting'
        BY <4>1, <4>2 DEF OneLasting
      <4>5. retired[s] = {}
        BY <2>3 DEF RetiredRevoked, UnboundHasNone
      <4> QED BY <4>2, <4>3, <4>4, <4>5 DEF RetiredRevoked
    <3>3. UnboundHasNone'
      BY <3>0 DEF UnboundHasNone, AccessTypeOK
    <3> QED BY <2>1, <3>1, <3>2, <3>3
  <2> QED BY <2>2, <2>3
<1>3. ASSUME NEW s \in Sources, DisableSource(s) PROVE AuthorityInv'
  <2> DEFINE new == Revoked(s)
  <2>1. /\ new \in Seq(States) /\ DOMAIN new = DOMAIN credentials[s]
        /\ \A n \in DOMAIN new : new[n] = "revoked"
    <3>1. credentials[s] \in Seq(States)
      BY DEF AccessTypeOK
    <3>2. DOMAIN credentials[s] = 1..Len(credentials[s]) /\ Len(credentials[s]) \in Nat
      BY <3>1
    <3>3. new \in [1..Len(credentials[s]) -> States]
      BY <3>2 DEF Revoked, States
    <3> QED BY <3>2, <3>3 DEF Revoked
  <2> HIDE DEF new
  <2>2. \A t \in Sources : credentials'[t] = IF t = s THEN new ELSE credentials[t]
    BY <1>3 DEF DisableSource, AccessTypeOK, new
  <2>3. AccessTypeOK'
    <3>1. credentials' \in [Sources -> Seq(States)]
      BY <1>3, <2>1 DEF DisableSource, AccessTypeOK, new
    <3>2. source' \in [Sources -> [bound : BOOLEAN, enabled : BOOLEAN]]
      BY <1>3 DEF DisableSource, AccessTypeOK
    <3>3. DOMAIN credentials[s] \subseteq Nat
      BY DEF AccessTypeOK
    <3>4. retired' \in [Sources -> SUBSET Nat]
      BY <1>3, <3>3 DEF DisableSource, AccessTypeOK
    <3> QED BY <1>3, <3>1, <3>2, <3>4 DEF DisableSource, Order, AccessTypeOK
  <2>4. RetiredRevoked'
    BY <1>3, <2>1, <2>2 DEF DisableSource, RetiredRevoked, AccessTypeOK
  <2>5. OneLasting'
    BY <2>1, <2>2 DEF OneLasting
  <2>6. UnboundHasNone'
    <3>1. source[s].enabled /\ credentials[s] # << >>
      BY <1>3 DEF DisableSource, Authenticated, Usable
    <3>2. source[s].bound
      BY <3>1 DEF UnboundHasNone
    <3>3. \A t \in Sources : source'[t].bound = source[t].bound
      BY <1>3 DEF DisableSource, AccessTypeOK
    <3> QED BY <2>2, <3>2, <3>3 DEF UnboundHasNone
  <2> QED BY <1>3, <2>3, <2>4, <2>5, <2>6 DEF DisableSource, SubjectsStay
<1>4. ASSUME NEW s \in Sources, NEW n \in DOMAIN credentials[s], Expires(s, n)
      PROVE  AuthorityInv'
  <2>1. credentials[s] \in Seq(States) /\ "expired" \in States
    BY DEF AccessTypeOK, States
  <2>2. [credentials[s] EXCEPT ![n] = "expired"] \in Seq(States)
    BY <2>1
  <2>3. credentials' = [credentials EXCEPT ![s] = [credentials[s] EXCEPT ![n] = "expired"]]
    BY <1>4 DEF Expires
  <2>4. AccessTypeOK'
    <3>1. credentials' \in [Sources -> Seq(States)]
      BY <2>2, <2>3 DEF AccessTypeOK
    <3> QED BY <1>4, <3>1 DEF Expires, AccessTypeOK
  <2>5. RetiredRevoked' /\ OneLasting'
    BY <1>4, <2>3 DEF Expires, RetiredRevoked, OneLasting, AccessTypeOK
  <2>6. UnboundHasNone'
    BY <1>4, <2>3 DEF Expires, UnboundHasNone, AccessTypeOK
  <2> QED BY <1>4, <2>4, <2>5, <2>6 DEF Expires, SubjectsStay
<1>5. ASSUME NEW s \in Sources, NEW open \in BOOLEAN, SetBranch(s, open) PROVE AuthorityInv'
  BY <1>5 DEF SetBranch, Projecting, Order, AccessTypeOK, RetiredRevoked, UnboundHasNone,
              OneLasting, SubjectsStay
<1>6. ASSUME NEW s \in Sources, NEW x \in Subjects, NEW role \in SUBSET Capabilities,
             NEW branches \in SUBSET {Branch}, ProvisionUser(s, x, role, branches)
      PROVE  AuthorityInv'
  <2>1. AccessTypeOK'
    BY <1>6 DEF ProvisionUser, Projecting, Order, AccessTypeOK
  <2>2. RetiredRevoked' /\ OneLasting' /\ UnboundHasNone'
    BY <1>6 DEF ProvisionUser, Projecting, RetiredRevoked, OneLasting, UnboundHasNone
  <2>3. SubjectsStay'
    BY <1>6 DEF ProvisionUser, Projecting, SubjectsStay, AccessTypeOK
  <2> QED BY <2>1, <2>2, <2>3
<1>7. ASSUME NEW s \in Sources, Projecting(s), UNCHANGED <<subjectOf, branchOpen>>
      PROVE  AuthorityInv'
  BY <1>7 DEF Projecting, Order, AccessTypeOK, RetiredRevoked, UnboundHasNone, OneLasting,
              SubjectsStay
<1>8. ASSUME UNCHANGED accessVars PROVE AuthorityInv'
  BY <1>8 DEF accessVars, AccessTypeOK, RetiredRevoked, UnboundHasNone, OneLasting, SubjectsStay
<1>9. ASSUME NEW s \in Sources,
             \/ \E role \in SUBSET Capabilities, branches \in SUBSET {Branch} :
               SetRole(s, role, branches)
             \/ \E c \in Capabilities, effect \in {"inherit", "allow", "deny"} :
                  SetException(s, c, effect)
             \/ \E driver \in {"on", "off"} : SetDriver(s, driver)
      PROVE  AuthorityInv'
  <2>1. Projecting(s) /\ UNCHANGED <<subjectOf, branchOpen>>
    BY <1>9 DEF SetRole, SetException, SetDriver
  <2> QED BY <2>1, <1>7
<1> HIDE DEF AuthorityInv
<1>10. ASSUME AccessNext PROVE AuthorityInv'
  <2> PICK s \in Sources :
        \/ \E subjects \in SUBSET Subjects : BeginBind(s, subjects)
        \/ EndBind(s)
        \/ \E operator, recover, overlap \in BOOLEAN :
             RotateCredential(s, operator, recover, overlap)
        \/ DisableSource(s)
        \/ \E n \in DOMAIN credentials[s] : Expires(s, n)
        \/ \E open \in BOOLEAN : SetBranch(s, open)
        \/ \E x \in Subjects, role \in SUBSET Capabilities, branches \in SUBSET {Branch} :
             ProvisionUser(s, x, role, branches)
        \/ \E role \in SUBSET Capabilities, branches \in SUBSET {Branch} :
               SetRole(s, role, branches)
        \/ \E c \in Capabilities, effect \in {"inherit", "allow", "deny"} :
             SetException(s, c, effect)
        \/ \E driver \in {"on", "off"} : SetDriver(s, driver)
    BY <1>10 DEF AccessNext
  <2> QED
    BY <1>1, <1>2, <1>3, <1>4, <1>5, <1>6, <1>9, RotationLeavesOne
<1> QED BY <1>8, <1>10

(* The authority of a source is neither moved nor revived.                   *)
THEOREM AuthorityHolds == AccessSpec => []AuthorityStays
<1>1. AuthorityInv => AuthorityStays
  BY DEF AuthorityInv, RetiredRevoked, AuthorityStays, RetiredStayOut, Usable
<1> QED BY AccessInitial, AuthorityKept, <1>1, PTL DEF AccessSpec

-----------------------------------------------------------------------------
(* Sessions and provisioned accounts (IdentityAccess).                       *)
LEMMA IdInitial == IdInit => IdInv
<1> SUFFICES ASSUME IdInit PROVE IdInv
  OBVIOUS
<1>1. IdTypeOK
  <2>1. intent \in Intents
    BY DEF IdInit, Intents
  <2>2. job \in [Reconcilers -> [gen : Nat, want : BOOLEAN, answer : {"none", "ok", "error"}]]
    BY DEF IdInit, NoClaim
  <2>3. /\ session \in [Logins -> [state : {"none", "open", "revoked"}, token : Nat]]
        /\ chain \in [Logins -> [live : BOOLEAN, token : Nat]]
        /\ request \in [Logins -> [phase : {"idle", "held", "rotated"}, token : Nat]]
        /\ login \in [Logins -> {"none", "begun", "granted", "admitted", "done", "failed"}]
    BY DEF IdInit, Idle
  <2>4. revision \in Int /\ faults \in Nat
    BY DEF IdInit
  <2>5. member \in BOOLEAN /\ subject \in BOOLEAN
    BY Zenon DEF IdInit
  <2>6. checked \subseteq Nat /\ lost \subseteq Logins
    BY Zenon DEF IdInit
  <2> QED BY <2>1, <2>2, <2>3, <2>4, <2>5, <2>6 DEF IdTypeOK
<1>2. IntentFollows /\ ClaimsFollow /\ SubjectFollows
  <2>1. revision \notin DOMAIN Wanted
    BY IdAssumption DEF IdInit
  <2>2. intent.gen = 0 /\ intent.want = FALSE /\ member = FALSE /\ subject = FALSE
    BY DEF IdInit
  <2>3. \A w \in Reconcilers : job[w].gen = 0 /\ job[w].want = FALSE
    BY DEF IdInit, NoClaim
  <2>4. IntentFollows
    BY Zenon, <2>1, <2>2 DEF IntentFollows
  <2>5. SubjectFollows
    BY Zenon, <2>2 DEF SubjectFollows
  <2>6. ASSUME NEW w \in Reconcilers
        PROVE  /\ job[w].gen <= intent.gen
               /\ job[w].gen = intent.gen => job[w].want = intent.want
               /\ job[w].want /\ job[w].answer = "ok" => job[w].gen \in checked
    <3>1. job[w].gen <= intent.gen
      BY <2>2, <2>3
    <3> QED BY Zenon, <2>2, <2>3, <3>1
  <2> QED BY Zenon, <2>4, <2>5, <2>6 DEF ClaimsFollow
<1>3. WithdrawnIsOut /\ Stages /\ TokenKept
  BY DEF IdInit, WithdrawnIsOut, Stages, TokenKept, Idle
<1> QED BY <1>1, <1>2, <1>3 DEF IdInv

-----------------------------------------------------------------------------
(* The source and the worker.                                                *)

LEMMA ProvisionKeeps ==
  ASSUME IdInv, NEW r \in DOMAIN Wanted, Provision(r)
  PROVE  IdInv'
<1> USE IdAssumption DEF IdInv
<1>1. /\ intent.gen \in Nat /\ intent'.gen = intent.gen + 1
      /\ intent'.want = Wanted[r] /\ intent'.status = "pending"
      /\ intent' \in Intents
  <2>1. intent \in Intents /\ Wanted[r] \in BOOLEAN /\ intent' = Reconciled(intent, Wanted[r])
    BY DEF Provision, IdTypeOK
  <2>2. intent.gen + 1 \in Nat
    BY <2>1 DEF Intents
  <2> QED BY <2>1, <2>2 DEF Reconciled, Intents
<1>2. IdTypeOK'
  <2>1. r \in Int /\ Wanted[r] \in BOOLEAN
    OBVIOUS
  <2>2. revision' \in Int /\ member' \in BOOLEAN /\ subject' \in BOOLEAN
    BY <2>1 DEF Provision
  <2> QED BY <1>1, <2>2 DEF Provision, IdTypeOK, workerVars, loginVars
<1>3. \A w \in Reconcilers : job[w].gen \in Nat /\ job[w].gen < intent'.gen
  BY <1>1 DEF IdTypeOK, ClaimsFollow
<1>4. IntentFollows' /\ SubjectFollows'
  BY <1>1 DEF Provision, IntentFollows, SubjectFollows
<1>5. ClaimsFollow'
  BY <1>1, <1>3 DEF Provision, workerVars, ClaimsFollow
<1>6. WithdrawnIsOut'
  BY <1>1, <1>3 DEF Provision, workerVars, WithdrawnIsOut, Withdrawn
<1>7. Stages' /\ TokenKept'
  BY DEF Provision, loginVars, Stages, TokenKept
<1> QED BY <1>2, <1>4, <1>5, <1>6, <1>7

(* What no step of the worker touches.                                       *)
LEMMA LoginsUntouched ==
  ASSUME IdInv, UNCHANGED <<loginVars, request, lost>>,
         \A s \in Logins : chain'[s].token = chain[s].token /\ (chain'[s].live => chain[s].live)
  PROVE  Stages' /\ TokenKept'
  BY DEF IdInv, loginVars, Stages, TokenKept

LEMMA ClaimKeeps ==
  ASSUME IdInv, NEW w \in Reconcilers, ClaimIntent(w)
  PROVE  IdInv'
<1> USE DEF IdInv
<1>1. /\ intent'.gen = intent.gen /\ intent'.want = intent.want /\ intent'.status = "running"
      /\ intent' \in Intents
  BY DEF ClaimIntent, IdTypeOK, Intents
<1>2. job' = [job EXCEPT ![w] = [gen |-> intent.gen, want |-> intent.want, answer |-> "none"]]
  BY DEF ClaimIntent
<1>3. IdTypeOK'
  <2>1. job' \in [Reconcilers -> [gen : Nat, want : BOOLEAN, answer : {"none", "ok", "error"}]]
    BY <1>2 DEF IdTypeOK, Intents
  <2> QED BY <1>1, <2>1 DEF ClaimIntent, IdTypeOK, sourceVars, loginVars
<1>4. \A v \in Reconcilers :
        job'[v] = IF v = w THEN [gen |-> intent.gen, want |-> intent.want, answer |-> "none"]
                  ELSE job[v]
  BY <1>2 DEF IdTypeOK
<1>5. IntentFollows' /\ SubjectFollows'
  BY <1>1 DEF ClaimIntent, sourceVars, IntentFollows, SubjectFollows
<1>6. ClaimsFollow'
  BY <1>1, <1>4 DEF ClaimIntent, ClaimsFollow, IdTypeOK, Intents
<1>7. Withdrawn' => Withdrawn
  BY <1>1, <1>4 DEF Withdrawn
<1>8. WithdrawnIsOut'
  BY <1>7 DEF ClaimIntent, loginVars, WithdrawnIsOut
<1>9. Stages' /\ TokenKept'
  BY LoginsUntouched DEF ClaimIntent
<1> QED BY <1>3, <1>5, <1>6, <1>8, <1>9

LEMMA AskKeeps ==
  ASSUME IdInv, NEW w \in Reconcilers, AskIssuer(w)
  PROVE  IdInv'
<1> USE DEF IdInv
<1>1. \A v \in Reconcilers :
        /\ job'[v].gen = job[v].gen /\ job'[v].want = job[v].want
        /\ job'[v].answer = IF v = w THEN "ok" ELSE job[v].answer
  BY DEF AskIssuer, IdTypeOK
<1>2. job' \in [Reconcilers -> [gen : Nat, want : BOOLEAN, answer : {"none", "ok", "error"}]]
  BY DEF AskIssuer, IdTypeOK
<1>a. /\ chain \in [Logins -> [live : BOOLEAN, token : Nat]]
      /\ chain' = IF job[w].want THEN chain
                  ELSE [s \in Logins |-> [chain[s] EXCEPT !.live = FALSE]]
  BY DEF AskIssuer, IdTypeOK
<1>3. \A s \in Logins : /\ chain'[s].token = chain[s].token
                        /\ chain'[s].live => chain[s].live /\ job[w].want
  BY <1>a
<1>4. chain' \in [Logins -> [live : BOOLEAN, token : Nat]]
  BY <1>a
<1>5. checked' = IF job[w].want THEN checked \cup {job[w].gen} ELSE checked
  BY DEF AskIssuer
<1>6. IdTypeOK'
  BY <1>2, <1>4, <1>5 DEF AskIssuer, IdTypeOK, sourceVars, loginVars
<1>7. IntentFollows' /\ SubjectFollows'
  BY <1>5 DEF AskIssuer, sourceVars, IntentFollows, SubjectFollows
<1>8. ClaimsFollow'
  BY <1>1, <1>5 DEF AskIssuer, ClaimsFollow
<1>9. WithdrawnIsOut'
  <2> SUFFICES ASSUME Withdrawn', NEW s \in Logins, login[s] \in {"admitted", "done"}
               PROVE  ~chain'[s].live
    BY DEF WithdrawnIsOut, AskIssuer, loginVars
  <2>1. CASE Withdrawn
    BY <1>3, <2>1 DEF WithdrawnIsOut
  <2>2. CASE ~Withdrawn
    <3>1. job[w].gen = intent.gen /\ ~intent.want
      BY <1>1, <2>2 DEF Withdrawn, AskIssuer
    <3>2. ~job[w].want
      BY <3>1 DEF ClaimsFollow
    <3> QED BY <1>3, <3>2
  <2> QED BY <2>1, <2>2
<1>10. Stages' /\ TokenKept'
  BY <1>3, LoginsUntouched DEF AskIssuer
<1> QED BY <1>6, <1>7, <1>8, <1>9, <1>10

LEMMA CompleteKeeps ==
  ASSUME IdInv, NEW w \in Reconcilers, Complete(w)
  PROVE  IdInv'
<1> USE DEF IdInv
<1>1. \A v \in Reconcilers : job'[v] = IF v = w THEN NoClaim ELSE job[v]
  BY DEF Complete, IdTypeOK
<1>2. /\ intent'.gen = intent.gen /\ intent'.want = intent.want
      /\ intent'.status = "ready" =>
           intent.status = "ready" \/ (job[w].gen = intent.gen /\ job[w].answer = "ok")
      /\ intent' \in Intents
  BY DEF Complete, Completed, SameIntent, IdTypeOK, Intents
<1>3. subject' => subject \/ (/\ job[w].gen = intent.gen /\ job[w].answer = "ok" /\ job[w].want
                              /\ member)
  BY DEF Complete, SameIntent
<1>4. IdTypeOK'
  <2>1. job' \in [Reconcilers -> [gen : Nat, want : BOOLEAN, answer : {"none", "ok", "error"}]]
    BY DEF Complete, NoClaim, IdTypeOK
  <2>2. subject' \in BOOLEAN
    BY DEF Complete, SameIntent, IdTypeOK
  <2> QED BY <1>2, <2>1, <2>2 DEF Complete, IdTypeOK, sourceVars, loginVars
<1>5. IntentFollows'
  BY <1>2 DEF Complete, sourceVars, IntentFollows
<1>6. SubjectFollows'
  BY <1>2, <1>3 DEF Complete, sourceVars, SubjectFollows, ClaimsFollow
<1>7. ClaimsFollow'
  <2>1. intent.gen \in Nat /\ intent.want \in BOOLEAN /\ UNCHANGED checked
    BY DEF Complete, IdTypeOK, Intents
  <2>2. /\ NoClaim.gen = 0 /\ NoClaim.want = FALSE /\ NoClaim.answer = "none"
        /\ intent.gen = 0 => intent.want = FALSE
    BY <2>1 DEF NoClaim, IntentFollows
  <2>3. ASSUME NEW v \in Reconcilers
        PROVE  /\ job'[v].gen <= intent'.gen
               /\ job'[v].gen = intent'.gen => job'[v].want = intent'.want
               /\ job'[v].want /\ job'[v].answer = "ok" => job'[v].gen \in checked'
    <3>1. CASE v = w
      <4>1. job'[v] = NoClaim /\ 0 <= intent.gen
        BY <1>1, <2>1, <3>1
      <4> QED BY Zenon, <1>2, <2>2, <4>1
    <3>2. CASE v # w
      <4>1. job'[v] = job[v]
        BY <1>1, <3>2
      <4> QED BY Zenon, <1>2, <2>1, <4>1 DEF ClaimsFollow
    <3> QED BY <3>1, <3>2
  <2> QED BY Zenon, <2>3 DEF ClaimsFollow
<1>8. Withdrawn' => Withdrawn
  BY <1>1, <1>2 DEF Withdrawn, NoClaim
<1>9. WithdrawnIsOut'
  BY <1>8 DEF Complete, loginVars, WithdrawnIsOut
<1>10. Stages' /\ TokenKept'
  BY LoginsUntouched DEF Complete
<1> QED BY <1>4, <1>5, <1>6, <1>7, <1>9, <1>10

(* A failed question, a lease that ends, a worker that dies.                 *)
LEMMA FaultsKeep ==
  ASSUME IdInv,
         LeaseExpires \/ \E w \in Reconcilers : IssuerFails(w) \/ WorkerDies(w)
  PROVE  IdInv'
<1> USE DEF IdInv
<1>1. /\ intent'.gen = intent.gen /\ intent'.want = intent.want /\ intent'.status = intent.status
      /\ intent' \in Intents
  BY DEF LeaseExpires, IssuerFails, WorkerDies, IdTypeOK, Intents
<1>2. \A v \in Reconcilers :
        \/ job'[v] = job[v] \/ job'[v] = NoClaim
        \/ job'[v].gen = job[v].gen /\ job'[v].want = job[v].want /\ job'[v].answer = "error"
  BY DEF LeaseExpires, IssuerFails, WorkerDies, workerVars, IdTypeOK
<1>3. IdTypeOK'
  <2>1. job' \in [Reconcilers -> [gen : Nat, want : BOOLEAN, answer : {"none", "ok", "error"}]]
    <3>1. CASE LeaseExpires
      BY <3>1 DEF LeaseExpires, workerVars, IdTypeOK
    <3>2. ASSUME NEW w \in Reconcilers, IssuerFails(w) 
          PROVE  job' \in [Reconcilers -> [gen : Nat, want : BOOLEAN,
                                          answer : {"none", "ok", "error"}]]
      BY <3>2 DEF IssuerFails, IdTypeOK
    <3>3. ASSUME NEW w \in Reconcilers, WorkerDies(w) 
          PROVE  job' \in [Reconcilers -> [gen : Nat, want : BOOLEAN,
                                          answer : {"none", "ok", "error"}]]
      BY <3>3 DEF WorkerDies, NoClaim, IdTypeOK
    <3> QED BY <3>1, <3>2, <3>3
  <2>2. faults' \in Nat
    BY DEF LeaseExpires, IssuerFails, WorkerDies, IdTypeOK
  <2> QED BY <1>1, <2>1, <2>2
       DEF LeaseExpires, IssuerFails, WorkerDies, IdTypeOK, sourceVars, workerVars, loginVars
<1>4. UNCHANGED <<sourceVars, subject, loginVars, chain, request, checked, lost>>
  BY DEF LeaseExpires, IssuerFails, WorkerDies, workerVars
<1>5. IntentFollows' /\ SubjectFollows'
  BY <1>1, <1>4 DEF sourceVars, IntentFollows, SubjectFollows
<1>6. ClaimsFollow'
  <2>1. intent.gen \in Nat /\ intent.want \in BOOLEAN
    BY DEF IdTypeOK, Intents
  <2>2. /\ NoClaim.gen = 0 /\ NoClaim.want = FALSE /\ NoClaim.answer = "none"
        /\ intent.gen = 0 => intent.want = FALSE
    BY <2>1 DEF NoClaim, IntentFollows
  <2>3. ASSUME NEW v \in Reconcilers
        PROVE  /\ job'[v].gen <= intent'.gen
               /\ job'[v].gen = intent'.gen => job'[v].want = intent'.want
               /\ job'[v].want /\ job'[v].answer = "ok" => job'[v].gen \in checked'
    <3>1. CASE job'[v] = job[v]
      BY Zenon, <1>1, <1>4, <3>1 DEF ClaimsFollow
    <3>2. CASE job'[v] = NoClaim
      <4>1. 0 <= intent.gen
        BY <2>1
      <4> QED BY Zenon, <1>1, <2>2, <3>2, <4>1
    <3>3. CASE job'[v].gen = job[v].gen /\ job'[v].want = job[v].want /\ job'[v].answer = "error"
      <4>1. job'[v].answer # "ok"
        BY <3>3
      <4> QED BY Zenon, <1>1, <3>3, <4>1 DEF ClaimsFollow
    <3> QED BY <1>2, <3>1, <3>2, <3>3
  <2> QED BY Zenon, <2>3 DEF ClaimsFollow
<1>7. Withdrawn' => Withdrawn
  BY <1>1, <1>2 DEF Withdrawn, NoClaim
<1>8. WithdrawnIsOut'
  BY <1>4, <1>7 DEF loginVars, WithdrawnIsOut
<1>9. Stages' /\ TokenKept'
  BY <1>4, LoginsUntouched
<1> QED BY <1>3, <1>5, <1>6, <1>8, <1>9

-----------------------------------------------------------------------------
(* Logins and requests.                                                      *)

(* What a step of a session leaves of the intent; it is enough to look at    *)
(* that session.                                                             *)
LEMMA OneSession ==
  ASSUME IdInv, NEW s \in Logins,
         UNCHANGED <<sourceVars, subject, intent, workerVars>>, IdTypeOK',
         lost' \in {lost, lost \cup {s}},
         \A t \in Logins \ {s} : /\ login'[t] = login[t] /\ session'[t] = session[t]
                                 /\ chain'[t] = chain[t] /\ request'[t] = request[t],
         Withdrawn => (login'[s] \in {"admitted", "done"} => ~chain'[s].live),
         /\ session'[s].state # "none" => login'[s] = "done"
         /\ request'[s].phase # "idle" => session'[s].state = "open"
         /\ request'[s].phase = "idle" => request'[s] = Idle
         /\ login'[s] \in {"none", "begun"} => ~chain'[s].live,
         s \notin lost' /\ chain'[s].live =>
           /\ login'[s] \in {"granted", "admitted"} => chain'[s].token = 1
           /\ session'[s].state = "open" /\ request'[s].phase # "rotated" =>
                session'[s].token = chain'[s].token
           /\ request'[s].phase # "idle" => request'[s].token = chain'[s].token
  PROVE  IdInv'
<1> USE DEF IdInv
<1>1. IntentFollows' /\ SubjectFollows' /\ ClaimsFollow'
  BY DEF sourceVars, workerVars, IntentFollows, SubjectFollows, ClaimsFollow
<1>2. Withdrawn' <=> Withdrawn
  BY DEF sourceVars, workerVars, Withdrawn
<1>3. WithdrawnIsOut'
  BY <1>2 DEF WithdrawnIsOut
<1>4. Stages'
  BY DEF Stages
<1>5. TokenKept'
  BY DEF TokenKept
<1> QED BY <1>1, <1>3, <1>4, <1>5

LEMMA LoginKeeps ==
  ASSUME IdInv, NEW s \in Logins, Begin(s) \/ Exchange(s) \/ Admit(s) \/ Store(s)
  PROVE  IdInv'
<1> USE DEF IdInv
<1>1. IdTypeOK'
  <2>1. login' \in [Logins -> {"none", "begun", "granted", "admitted", "done", "failed"}]
    BY DEF Begin, Exchange, Admit, Store, IdTypeOK
  <2>2. session' \in [Logins -> [state : {"none", "open", "revoked"}, token : Nat]]
    BY DEF Begin, Exchange, Admit, Store, IdTypeOK
  <2>3. chain' \in [Logins -> [live : BOOLEAN, token : Nat]]
    <3>1. chain' = chain \/ chain' = [chain EXCEPT ![s] = [live |-> TRUE, token |-> 1]]
      BY DEF Begin, Exchange, Admit, Store
    <3>2. [live |-> TRUE, token |-> 1] \in [live : BOOLEAN, token : Nat]
      OBVIOUS
    <3>3. chain \in [Logins -> [live : BOOLEAN, token : Nat]]
      BY DEF IdTypeOK
    <3> QED BY Zenon, <3>1, <3>2, <3>3
  <2> QED BY <2>1, <2>2, <2>3
       DEF Begin, Exchange, Admit, Store, IdTypeOK, sourceVars, workerVars, loginVars
<1>2. UNCHANGED <<sourceVars, subject, intent, workerVars, request, lost>>
  BY DEF Begin, Exchange, Admit, Store
<1>3. \A t \in Logins \ {s} :
        login'[t] = login[t] /\ session'[t] = session[t] /\ chain'[t] = chain[t]
  BY DEF Begin, Exchange, Admit, Store, IdTypeOK
<1>4. CASE Begin(s)
  <2>1. login'[s] = "begun" /\ login[s] = "none" /\ UNCHANGED <<session, chain>>
    BY <1>4 DEF Begin, IdTypeOK
  <2> QED BY <1>1, <1>2, <1>3, <2>1, OneSession DEF Stages, TokenKept
<1>5. CASE Exchange(s)
  <2>1. /\ login[s] = "begun" /\ UNCHANGED session
        /\ \/ login'[s] = "granted" /\ chain'[s] = [live |-> TRUE, token |-> 1]
           \/ login'[s] = "failed" /\ UNCHANGED chain
    BY <1>5 DEF Exchange, IdTypeOK
  <2>2. session[s].state = "none" /\ request[s].phase = "idle"
    BY <2>1 DEF Stages, IdTypeOK
  <2> QED BY <1>1, <1>2, <1>3, <2>1, <2>2, OneSession DEF Stages, TokenKept
<1>6. CASE Admit(s)
  <2>1. /\ login[s] = "granted" /\ UNCHANGED <<session, chain>>
        /\ (login'[s] = "admitted" /\ subject) \/ login'[s] = "failed"
    BY <1>6 DEF Admit, Admitted, IdTypeOK
  <2>2. session[s].state = "none" /\ request[s].phase = "idle"
    BY <2>1 DEF Stages, IdTypeOK
  <2>3. subject => ~Withdrawn
    BY DEF SubjectFollows, Withdrawn
  <2> QED BY <1>1, <1>2, <1>3, <2>1, <2>2, <2>3, OneSession DEF Stages, TokenKept
<1>7. CASE Store(s)
  <2>1. /\ login[s] = "admitted" /\ login'[s] = "done" /\ UNCHANGED chain
        /\ session'[s] = [state |-> "open", token |-> 1]
    BY <1>7 DEF Store, IdTypeOK
  <2>2. request[s].phase = "idle"
    BY <2>1 DEF Stages, IdTypeOK
  <2>3. Withdrawn => ~chain[s].live
    BY <2>1 DEF WithdrawnIsOut
  <2> QED BY <1>1, <1>2, <1>3, <2>1, <2>2, <2>3, OneSession DEF Stages, TokenKept
<1> QED BY <1>4, <1>5, <1>6, <1>7

LEMMA RowKeeps ==
  ASSUME IdInv, NEW s \in Logins, LockRow(s) \/ Refresh(s) \/ Logout(s)
  PROVE  IdInv'
<1> USE DEF IdInv
<1>1. IdTypeOK'
  <2>1. session' \in [Logins -> [state : {"none", "open", "revoked"}, token : Nat]]
    BY DEF LockRow, Refresh, Logout, loginVars, IdTypeOK
  <2>2. chain' \in [Logins -> [live : BOOLEAN, token : Nat]]
    <3>1. chain[s] \in [live : BOOLEAN, token : Nat] /\ chain[s].token + 1 \in Nat
      BY DEF IdTypeOK
    <3>2. /\ chain \in [Logins -> [live : BOOLEAN, token : Nat]]
          /\ [chain[s] EXCEPT !.token = chain[s].token + 1] \in [live : BOOLEAN, token : Nat]
          /\ [chain[s] EXCEPT !.live = FALSE] \in [live : BOOLEAN, token : Nat]
      BY <3>1 DEF IdTypeOK
    <3>3. CASE LockRow(s)
      BY <3>2, <3>3 DEF LockRow
    <3>4. CASE Refresh(s)
      BY <3>2, <3>4 DEF Refresh, Rotated
    <3>5. CASE Logout(s)
      BY <3>2, <3>5 DEF Logout
    <3> QED BY <3>3, <3>4, <3>5
  <2>3. request' \in [Logins -> [phase : {"idle", "held", "rotated"}, token : Nat]]
    BY DEF LockRow, Refresh, Logout, IdTypeOK
  <2> QED BY <2>1, <2>2, <2>3
       DEF LockRow, Refresh, Logout, IdTypeOK, sourceVars, workerVars, loginVars
<1>2. UNCHANGED <<sourceVars, subject, intent, workerVars, login, lost>>
  BY DEF LockRow, Refresh, Logout, loginVars
<1>3. \A t \in Logins \ {s} :
        session'[t] = session[t] /\ chain'[t] = chain[t] /\ request'[t] = request[t]
  BY DEF LockRow, Refresh, Logout, loginVars, IdTypeOK
<1>4. CASE LockRow(s)
  <2>1. /\ session[s].state = "open" /\ request[s].phase = "idle" /\ UNCHANGED <<session, chain>>
        /\ request'[s] = [phase |-> "held", token |-> session[s].token]
    BY <1>4 DEF LockRow, Idle, loginVars, IdTypeOK
  <2> QED BY <1>1, <1>2, <1>3, <2>1, OneSession DEF Stages, TokenKept, WithdrawnIsOut
<1>5. CASE Refresh(s)
  <2>1. /\ request[s].phase = "held" /\ chain[s].live /\ chain[s].token = request[s].token
        /\ chain'[s].live = chain[s].live /\ chain'[s].token = chain[s].token + 1
        /\ request'[s] = [phase |-> "rotated", token |-> request[s].token + 1]
        /\ UNCHANGED session
    BY <1>5 DEF Refresh, Honoured, Rotated, loginVars, IdTypeOK
  <2>2. session[s].state = "open" /\ login[s] = "done"
    BY <2>1 DEF Stages
  <2> QED BY <1>1, <1>2, <1>3, <2>1, <2>2, OneSession DEF Stages, TokenKept, WithdrawnIsOut
<1>6. CASE Logout(s)
  <2>1. /\ session[s].state = "open" /\ request[s] = Idle /\ UNCHANGED request
        /\ session'[s].state = "revoked"
        /\ chain'[s].token = chain[s].token /\ (chain'[s].live => chain[s].live)
    BY <1>6 DEF Logout, IdTypeOK
  <2>2. request[s].phase = "idle" /\ login[s] = "done"
    BY <2>1 DEF Stages, Idle
  <2> QED BY <1>1, <1>2, <1>3, <2>1, <2>2, OneSession DEF Stages, TokenKept, WithdrawnIsOut
<1> QED BY <1>4, <1>5, <1>6

LEMMA RequestKeeps ==
  ASSUME IdInv, NEW s \in Logins, Revoke(s) \/ Serve(s) \/ FailRequest(s) \/ LoseRequest(s)
  PROVE  IdInv'
<1> USE DEF IdInv
<1>1. /\ session'[s].state \in {"open", "revoked"} /\ request'[s] = Idle
      /\ session'[s].token \in {request[s].token, session[s].token}
      /\ session' = [session EXCEPT ![s] = [state |-> session'[s].state, token |-> session'[s].token]]
      /\ request' = [request EXCEPT ![s] = Idle]
  BY DEF Revoke, Serve, FailRequest, KeptOnFailure, LoseRequest, EndRequest, IdTypeOK
<1>2. IdTypeOK'
  <2>1. session' \in [Logins -> [state : {"none", "open", "revoked"}, token : Nat]]
    BY <1>1 DEF IdTypeOK
  <2>2. request' \in [Logins -> [phase : {"idle", "held", "rotated"}, token : Nat]]
    BY <1>1 DEF Idle, IdTypeOK
  <2>3. chain' \in [Logins -> [live : BOOLEAN, token : Nat]]
    BY DEF Revoke, Serve, FailRequest, LoseRequest, Rotated, IdTypeOK
  <2>4. faults' \in Nat /\ lost' \subseteq Logins
    BY DEF Revoke, Serve, FailRequest, LoseRequest, IdTypeOK
  <2> QED BY <2>1, <2>2, <2>3, <2>4
       DEF Revoke, Serve, FailRequest, LoseRequest, EndRequest, IdTypeOK, sourceVars, workerVars
<1>3. UNCHANGED <<sourceVars, subject, intent, workerVars, login>> /\ lost' \in {lost, lost \cup {s}}
  BY DEF Revoke, Serve, FailRequest, LoseRequest, EndRequest
<1>4. \A t \in Logins \ {s} :
        session'[t] = session[t] /\ chain'[t] = chain[t] /\ request'[t] = request[t]
  BY <1>1 DEF Revoke, Serve, FailRequest, LoseRequest, IdTypeOK
<1>5. request[s].phase # "idle"
  BY DEF Revoke, Serve, FailRequest, LoseRequest, Stages, IdTypeOK
<1>6. session[s].state = "open" /\ login[s] = "done"
  BY <1>5 DEF Stages
<1>7. chain'[s].live = chain[s].live
  BY DEF Revoke, Serve, FailRequest, LoseRequest, Rotated, IdTypeOK
<1>8. s \notin lost' /\ chain[s].live /\ session'[s].state = "open" =>
        session'[s].token = chain'[s].token
  <2> SUFFICES ASSUME s \notin lost', chain[s].live, session'[s].state = "open"
               PROVE  session'[s].token = chain'[s].token
    OBVIOUS
  <2>1. s \notin lost
    BY <1>3
  <2>2. /\ request[s].token = chain[s].token
        /\ request[s].phase # "rotated" => session[s].token = chain[s].token
    BY <1>5, <1>6, <2>1 DEF TokenKept
  <2>3. chain'[s] = chain[s]
    BY DEF Revoke, Serve, FailRequest, LoseRequest
  <2>4. session'[s].token = request[s].token \/ request[s].phase # "rotated"
    BY DEF Revoke, Serve, FailRequest, KeptOnFailure, LoseRequest, EndRequest, IdTypeOK
  <2> QED BY <1>1, <2>2, <2>3, <2>4
<1>9. request'[s].phase = "idle"
  BY <1>1 DEF Idle
<1> QED BY <1>1, <1>2, <1>3, <1>4, <1>6, <1>7, <1>8, <1>9, OneSession DEF WithdrawnIsOut

-----------------------------------------------------------------------------
(* The intent, its claims and the sessions agree in every behaviour.         *)
THEOREM IdInvariant == IdSpec => []IdInv
<1>1. IdInv /\ [IdNext]_idVars => IdInv'
  <2> SUFFICES ASSUME IdInv, [IdNext]_idVars PROVE IdInv'
    OBVIOUS
  <2>1. CASE UNCHANGED idVars
    BY <2>1 DEF idVars, IdInv, IdTypeOK, IntentFollows, ClaimsFollow, SubjectFollows,
                WithdrawnIsOut, Withdrawn, Stages, TokenKept
  <2>2. CASE IdNext
    BY <2>2, ProvisionKeeps, ClaimKeeps, AskKeeps, CompleteKeeps, FaultsKeep, LoginKeeps, RowKeeps,
       RequestKeeps DEF IdNext, SessionStep
  <2> QED BY <2>1, <2>2
<1> QED BY IdInitial, <1>1, PTL DEF IdSpec

(* No late answer or revision reopens what a newer intent closed, and a      *)
(* reconciled withdrawal leaves no session with honoured tokens.             *)
THEOREM AccessHolds == IdSpec => []AccessFollowsIntent
<1>1. IdInv => AccessFollowsIntent
  BY DEF IdInv, IntentFollows, SubjectFollows, WithdrawnIsOut, Withdrawn, Stages,
         AccessFollowsIntent
<1> QED BY IdInvariant, <1>1, PTL

(* A session at rest holds the token the issuer honours, but for a fault     *)
(* between the issuer's answer and the commit.                               *)
THEOREM TokenHolds == IdSpec => []SessionKeepsItsToken
<1>1. IdInv => SessionKeepsItsToken
  BY DEF IdInv, TokenKept, Idle, SessionKeepsItsToken
<1> QED BY IdInvariant, <1>1, PTL

(* Access follows the newest intent and no fault but a lost commit costs a     *)
(* session its token.                                                          *)
THEOREM AccessStands == IdSpec => []AccessSound
  BY AccessHolds, TokenHolds, PTL DEF AccessSound
=============================================================================
