---------------------------- MODULE OAuthSession ----------------------------
(***************************************************************************)
(* One SUT session and the arms that keep no capability: B0, B1 and the    *)
(* four OAuth arms.  The parent provisions an arm, has it delegate and     *)
(* present, may corrupt what it staged, and asks it to decide, in any      *)
(* order and as often as it likes; an operation that raises is a step that *)
(* leaves things half done, or no step at all.  The hop is one request     *)
(* over a keep-alive connection to an authorization server that may be out *)
(* of reach or late.                                                       *)
(*                                                                         *)
(* The arms' monitor is PolicyPlane's: here none is attached.  What the    *)
(* server issues is TokenExchange's, as far as an arm can see it.          *)
(*                                                                         *)
(* A verdict is a function of the state, so the properties range over      *)
(* every call that could be decided in it.                                 *)
(***************************************************************************)
EXTENDS ReplayCache, Sequences

CONSTANTS
  Omega,          \* the authority elements, one call for each
  UTask,          \* the task's grant, of the narrowing rows
  Attenuation,    \* C_1, what the hop is for
  Widening,       \* what F1-chain-tamper adds to it
  BaseExp,        \* when the Phase-1 tokens expire
  HopLifetime,    \* of a token the hop yields
  Nothing,
  MaxTime, MaxProofs, MaxAdmissions   \* bounds

ASSUME OAuthSessionAssumption ==
  /\ Attenuation \subseteq UTask /\ UTask \subseteq Omega /\ Widening \subseteq Omega
  /\ ~(Widening \subseteq UTask)    \* or the tampered hop would be issuable
  /\ BaseExp \in Nat /\ HopLifetime \in Nat \ {0}
  /\ Instants = 0 .. MaxTime
  /\ Keys = 1 .. MaxProofs
  /\ MaxTime \in Nat /\ MaxProofs \in Nat /\ MaxAdmissions \in Nat

-----------------------------------------------------------------------------
(* The rows of the ladder. *)

Exchanging == {"B2-exchange-broad", "B2-exchange-task", "B2-exchange-task-DPoP"}
OAuthArms == Exchanging \cup {"B2-broad-noexchange"}
ArmNames == OAuthArms \cup {"B0", "B1"}

Narrows(n) == n \in {"B2-exchange-task", "B2-exchange-task-DPoP"}
HolderBound(n) == n = "B2-exchange-task-DPoP"

LadderGrant(n) == IF Narrows(n) THEN UTask ELSE Omega
Reach(n) == IF Narrows(n) THEN Attenuation ELSE Omega

(* How a provisioning ends: refused before anything is set; refused for its *)
(* subject token, with the boundary configured; DPoP's proof key unparsed.  *)
Stages == {"bare", "configured", "unkeyed", "ready"}

-----------------------------------------------------------------------------
VARIABLES
  arm,         \* the instance: [name, stage, base, cached, delegated]
  link,        \* its connection: sound, dropped by the peer, wedged
  now,
  credentials, \* Session.credentials: what the last hop that returned left
  staged,      \* what the arm staged to be decided on
  proof,       \* the DPoP proof it staged
  seen,        \* the proofs that were presented
  used,        \* the shared replay cache, where one is attached
  fault,       \* the credential fault applied to what is staged
  admissions   \* history: [id, at] of the admissions by proof, in order

vars == <<arm, link, now, credentials, staged, proof, seen, used, fault, admissions>>

Instance ==
  [name : ArmNames, stage : Stages, base : {{}, UTask, Omega}, cached : BOOLEAN,
   delegated : BOOLEAN]

Token ==
  [genuine : BOOLEAN, here : BOOLEAN,   \* the server's signature; aud names this server
   respelled : BOOLEAN,                 \* another spelling of the same signature
   auth : SUBSET Omega, exp : Nat,
   bound : BOOLEAN,                     \* cnf.jkt is the arm's proof key
   of : ArmNames]                       \* history: the arm that obtained it

MaybeToken == Token \cup {Nothing}

Credentials == [token : MaybeToken, key : BOOLEAN, refused : BOOLEAN]

(* `own`: history, presented after a hop of this very instance. *)
Staged ==
  [token : MaybeToken, key : {"none", "right", "forged"}, refused : BOOLEAN,
   at : Instants, own : BOOLEAN]

Proof == [id : Keys, own : BOOLEAN, ath : MaybeToken, iat : Instants]

(* The absent value is no value of another kind. *)
ASSUME NothingAssumption ==
  Nothing \notin Token /\ Nothing \notin Credentials /\ Nothing \notin Staged /\ Nothing \notin Proof

Admitted == [id : Keys, at : Instants]

Empty == [token |-> Nothing, key |-> FALSE, refused |-> FALSE]

BaseToken ==
  [genuine |-> TRUE, here |-> TRUE, respelled |-> FALSE, auth |-> arm.base, exp |-> BaseExp,
   bound |-> FALSE, of |-> arm.name]

(* The token a wrong-audience attacker holds: valid, for another server. *)
ForeignToken == [BaseToken EXCEPT !.here = FALSE]

-----------------------------------------------------------------------------
(* provision.  A new instance is the session's before it is provisioned;   *)
(* the credentials of the one before it stay. *)

(* Seeded fault (AdmittedWithinRow): containment of the subject token only, *)
(* so a token wider than its row's grant will do. *)
StageOfWide(n, authority, keyed) ==
  IF n \notin OAuthArms THEN "ready"
  ELSE IF ~(LadderGrant(n) \subseteq authority) \/ now >= BaseExp THEN "configured"
  ELSE IF HolderBound(n) /\ ~keyed THEN "unkeyed"
  ELSE "ready"

(* The subject token must carry exactly its row's grant, now. *)
StageOf(n, authority, keyed) ==
  IF n \notin OAuthArms THEN "ready"
  ELSE IF authority # LadderGrant(n) \/ now >= BaseExp THEN "configured"
  ELSE IF HolderBound(n) /\ ~keyed THEN "unkeyed"
  ELSE "ready"

(* The material: whether it is complete, the authority of the subject token, *)
(* whether the proof key parses, whether the run attaches the cache. *)
Incomplete == [complete |-> FALSE, authority |-> {}, keyed |-> FALSE, cached |-> FALSE]

Setups(n) ==
  {Incomplete} \cup
    [complete : {TRUE},
     authority : IF n \in OAuthArms THEN {UTask, Omega} ELSE {{}},
     keyed : IF HolderBound(n) THEN BOOLEAN ELSE {FALSE},
     cached : IF HolderBound(n) THEN BOOLEAN ELSE {FALSE}]

(* Incomplete material, or that of another row: nothing is set.  B0 needs none. *)
Provision(n, s) ==
  /\ arm' = [name |-> n, base |-> s.authority, cached |-> s.cached, delegated |-> FALSE,
             stage |-> IF s.complete \/ n = "B0"
                       THEN StageOf(n, s.authority, s.keyed) ELSE "bare"]
  /\ link' = "sound"
  /\ staged' = Nothing /\ proof' = Nothing /\ fault' = "none"
  /\ UNCHANGED <<now, credentials, seen, used, admissions>>

-----------------------------------------------------------------------------
(* delegate *)

Returns(c) ==
  /\ credentials' = c
  /\ arm' = [arm EXCEPT !.delegated = TRUE]
  /\ UNCHANGED <<now, staged, proof, seen, used, fault, admissions>>

(* Without a round trip: nothing, the key, or the base token itself. *)
DelegateOffline ==
  /\ arm.stage = "ready" /\ arm.name \notin Exchanging
  /\ Returns(CASE arm.name = "B0" -> Empty
               [] arm.name = "B1" -> [Empty EXCEPT !.key = TRUE]
               [] OTHER -> [Empty EXCEPT !.token = BaseToken])
  /\ UNCHANGED link

(* A narrowing row asks for C_1, and the tampering; a broad row for what it has. *)
RequestedElements(tampered) ==
  IF Narrows(arm.name)
  THEN Attenuation \cup (IF tampered THEN Widening ELSE {})
  ELSE LadderGrant(arm.name)

ExchangedToken(requested) ==
  [BaseToken EXCEPT !.auth = requested, !.exp = now + HopLifetime,
                    !.bound = HolderBound(arm.name)]

(* The server narrows or refuses, and never clamps. *)
Exchange(tampered) ==
  LET requested == RequestedElements(tampered)
  IN  /\ arm.stage = "ready" /\ arm.name \in Exchanging
      /\ link = "sound"
      /\ UNCHANGED link
      /\ Returns(IF requested \subseteq arm.base /\ now < BaseExp
                 THEN [Empty EXCEPT !.token = ExchangedToken(requested)]
                 ELSE [Empty EXCEPT !.refused = TRUE])

(* http.client closes the connection when the peer is found gone on reading *)
(* the answer, and the next request reconnects.  When it is found gone on   *)
(* sending, when it cannot be reached, and when the answer is late, the     *)
(* object stays "Request-sent" and refuses every later request. *)
ExchangeRaises ==
  /\ arm.stage = "ready" /\ arm.name \in Exchanging
  /\ \/ link = "dropped" /\ link' \in {"sound", "wedged"}
     \/ link = "sound" /\ link' = "wedged"
  /\ UNCHANGED <<arm, now, credentials, staged, proof, seen, used, fault, admissions>>

(* The server closes the connection between two hops. *)
DropKeepAlive ==
  /\ arm.name \in Exchanging /\ arm.delegated
  /\ link = "sound" /\ link' = "dropped"
  /\ UNCHANGED <<arm, now, credentials, staged, proof, seen, used, fault, admissions>>

-----------------------------------------------------------------------------
(* present *)

FreshIds == Keys \ {p.id : p \in seen}

(* A proof of a key over a token, under a fresh jti; which one is immaterial. *)
Proofs(own, token, at) == {[id |-> i, own |-> own, ath |-> token, iat |-> at] : i \in FreshIds}
AnyOf(proofs) == CHOOSE p \in proofs : TRUE

(* B0 stages nothing and presents nothing. *)
PresentKey ==
  /\ arm.name = "B1" /\ credentials # Nothing
  /\ staged' = IF credentials.key
               THEN [token |-> Nothing, key |-> "right", refused |-> FALSE, at |-> now,
                     own |-> arm.delegated]
               ELSE Nothing
  /\ fault' = "none"
  /\ UNCHANGED <<arm, link, now, credentials, proof, seen, used, admissions>>

(* B2ExchangeTaskArm.present; the DPoP arm calls it, and only then raises *)
(* where it has no key.  A raise leaves no record. *)
PresentToken ==
  LET token == credentials.token
  IN  /\ arm.name \in OAuthArms /\ arm.stage \in {"unkeyed", "ready"} /\ credentials # Nothing
      /\ staged' = [token |-> token, key |-> "none", refused |-> credentials.refused,
                    at |-> now, own |-> arm.delegated]
      /\ IF ~HolderBound(arm.name) \/ arm.stage = "unkeyed"
         THEN UNCHANGED <<proof, seen>>
         ELSE IF token = Nothing
         THEN proof' = Nothing /\ UNCHANGED seen
         ELSE /\ FreshIds # {}
              /\ proof' = AnyOf(Proofs(TRUE, token, now))
              /\ seen' = seen \cup {proof'}
      /\ fault' = "none"
      /\ UNCHANGED <<arm, link, now, credentials, used, admissions>>

(* restage_proof: a captured proof in place of the staged one. *)
RestageProof(p) ==
  /\ HolderBound(arm.name) /\ staged # Nothing /\ fault = "none" /\ p # proof
  /\ proof' = p
  /\ UNCHANGED <<arm, link, now, credentials, staged, seen, used, fault, admissions>>

-----------------------------------------------------------------------------
(* apply_to_presentation: the attacker between the arm and the resource    *)
(* server, after the presentation was returned and before it is recorded.  *)
(* What binds the credential is re-minted under the arm's own key. *)

TokenFaults == {"unauthenticated_caller", "invalid_credential", "audience_mismatch"}
HolderFaults == {"wrong_registered_holder", "stolen_AT_key_substitution"}
Faults == TokenFaults \cup HolderFaults

(* The last base64url character of a 64-byte signature carries two bits of it *)
(* and four of padding: the replacement breaks the signature, or (A to B, one *)
(* token in four) only spells the same bytes differently. *)
Corruptions(f, token) ==
  CASE f = "unauthenticated_caller" -> {Nothing}
    [] f = "invalid_credential" -> {[token EXCEPT !.genuine = FALSE],
                                    [token EXCEPT !.respelled = TRUE]}
    [] f = "audience_mismatch" -> {ForeignToken}

FaultApiKey(f) ==
  /\ arm.name = "B1"
  /\ \/ f = "unauthenticated_caller" /\ staged' = Nothing
     \/ f = "invalid_credential" /\ staged' = [staged EXCEPT !.key = "forged"]
  /\ UNCHANGED <<proof, seen>>

FaultToken(f) ==
  /\ arm.name \in OAuthArms /\ f \in TokenFaults
  /\ f = "invalid_credential" => staged.token # Nothing
  /\ \E t \in Corruptions(f, staged.token) : staged' = [staged EXCEPT !.token = t]
  /\ IF HolderBound(arm.name) /\ arm.stage = "ready"
     THEN /\ FreshIds # {}
          /\ proof' = AnyOf(Proofs(TRUE, staged'.token, staged.at))
          /\ seen' = seen \cup {proof'}
     ELSE UNCHANGED <<proof, seen>>

(* Bearer arms have nothing a holder fault could apply to. *)
FaultProof(f) ==
  /\ HolderBound(arm.name) /\ arm.stage = "ready" /\ f \in HolderFaults
  /\ FreshIds # {}
  /\ proof' = AnyOf(Proofs(FALSE, staged.token, staged.at))
  /\ seen' = seen \cup {proof'}
  /\ UNCHANGED staged

InjectFault(f) ==
  /\ staged # Nothing /\ staged.at = now /\ fault = "none"
  /\ FaultApiKey(f) \/ FaultToken(f) \/ FaultProof(f)
  /\ fault' = f
  /\ UNCHANGED <<arm, link, now, credentials, used, admissions>>

-----------------------------------------------------------------------------
(* decide.  Everything is judged at the instant of the presentation. *)

TokenVerifies(t) == t.genuine /\ t.here /\ staged.at < t.exp

(* The capability plane; the scope is the same string everywhere here. *)
Admits(t, e) == e \in t.auth

(* Seeded fault (HalfProvisionedRefuses): no proof, nothing to check. *)
ProofOkIfAny(t) ==
  proof # Nothing =>
    t.bound /\ proof.own /\ proof.ath = t /\ IsFresh(staged.at, proof.iat)

ProofOk(t) ==
  /\ proof # Nothing
  /\ t.bound /\ proof.own /\ proof.ath = t /\ IsFresh(staged.at, proof.iat)

(* A captured proof restaged where no resource URL was set: there is none to *)
(* compare its htu with, and the decision raises. *)
ProofRaises(t) == arm.stage = "unkeyed" /\ t.bound /\ proof # Nothing

ReasonB1 ==
  IF arm.stage # "ready" THEN "not_provisioned"
  ELSE IF staged = Nothing THEN "no_credential"
  ELSE IF staged.key # "right" THEN "invalid_credential"
  ELSE "admitted"

Consumes == HolderBound(arm.name) /\ arm.cached

(* Seeded fault (FaultIsRefusedByItsCheck): the holder before the token. *)
ReasonHolderFirst(e) ==
  IF arm.stage = "bare" THEN "not_provisioned"
  ELSE IF staged = Nothing THEN "not_presented"
  ELSE IF staged.refused THEN "exchange_refused"
  ELSE IF staged.token = Nothing THEN "not_presented"
  ELSE IF HolderBound(arm.name) /\ ~ProofOk(staged.token) THEN "holder_proof"
  ELSE IF ~TokenVerifies(staged.token) THEN "token_rejected"
  ELSE IF Consumes /\ Outcome(used, proof.id, staged.at) # "admitted" THEN "replay_duplicate"
  ELSE IF ~Admits(staged.token, e) THEN "token_scope"
  ELSE "admitted"

(* The id is consumed with the holder check, ahead of the scope. *)
ReasonOAuth(e) ==
  IF arm.stage = "bare" THEN "not_provisioned"
  ELSE IF staged = Nothing THEN "not_presented"
  ELSE IF staged.refused THEN "exchange_refused"
  ELSE IF staged.token = Nothing THEN "not_presented"
  ELSE IF ~TokenVerifies(staged.token) THEN "token_rejected"
  ELSE IF HolderBound(arm.name) /\ ProofRaises(staged.token) THEN "arm_error"
  ELSE IF HolderBound(arm.name) /\ ~ProofOk(staged.token) THEN "holder_proof"
  ELSE IF Consumes /\ Outcome(used, proof.id, staged.at) # "admitted" THEN "replay_duplicate"
  ELSE IF ~Admits(staged.token, e) THEN "token_scope"
  ELSE "admitted"

Reason(e) ==
  CASE arm.name = "B0" -> "admitted"
    [] arm.name = "B1" -> ReasonB1
    [] OTHER -> ReasonOAuth(e)

(* Seeded fault (ProofAdmittedOnce): consumed by what is refused for its scope, *)
(* as if an admission were recorded elsewhere. *)
SpendsIfScoped(e) == Consumes /\ Reason(e) = "token_scope"

Spends(e) == Consumes /\ Reason(e) \in {"token_scope", "admitted"}

Decide(e) ==
  /\ Len(admissions) < MaxAdmissions
  /\ used' = IF Spends(e) THEN Consumed(used, proof.id, staged.at) ELSE used
  /\ admissions' = IF Consumes /\ Reason(e) = "admitted"
                   THEN Append(admissions, [id |-> proof.id, at |-> staged.at])
                   ELSE admissions
  /\ UNCHANGED <<arm, link, now, credentials, staged, proof, seen, fault>>

-----------------------------------------------------------------------------
Tick ==
  /\ now < MaxTime
  /\ now' = now + 1
  /\ UNCHANGED <<arm, link, credentials, staged, proof, seen, used, fault, admissions>>

Init ==
  /\ arm = [name |-> "B0", stage |-> "bare", base |-> {}, cached |-> FALSE, delegated |-> FALSE]
  /\ link = "sound" /\ now = 0
  /\ credentials = Nothing /\ staged = Nothing /\ proof = Nothing
  /\ seen = {} /\ used = EmptyCache /\ fault = "none"
  /\ admissions = <<>>

Next ==
  \/ \E n \in ArmNames : \E s \in Setups(n) : Provision(n, s)
  \/ DelegateOffline
  \/ \E tampered \in BOOLEAN : Exchange(tampered)
  \/ ExchangeRaises
  \/ DropKeepAlive
  \/ PresentKey \/ PresentToken
  \/ \E p \in seen : RestageProof(p)
  \/ \E f \in Faults : InjectFault(f)
  \/ \E e \in Omega : Decide(e)
  \/ Tick

Spec == Init /\ [][Next]_vars

-----------------------------------------------------------------------------
TypeOK ==
  /\ arm \in Instance
  /\ link \in {"sound", "dropped", "wedged"}
  /\ now \in Instants
  /\ credentials \in Credentials \cup {Nothing}
  /\ staged \in Staged \cup {Nothing}
  /\ seen \subseteq Proof /\ proof \in seen \cup {Nothing}
  /\ IsCache(used) /\ Cardinality(DOMAIN used) <= Capacity
  /\ fault \in Faults \cup {"none"}
  /\ admissions \in Seq(Admitted)

(* An OAuth arm admits a call within what its row of the ladder allows,     *)
(* whatever was provisioned, delegated, presented, refused or retried       *)
(* before: tampering a hop gains nothing, nor does a base token that is not *)
(* the row's.  What is presented before this instance has delegated is the  *)
(* last arm's credential, and lies within that arm's row: a session does    *)
(* not forget it. *)
AdmittedWithinRow ==
  \A e \in Omega :
    (arm.name \in OAuthArms /\ Reason(e) = "admitted") =>
      e \in Reach(IF staged.own THEN arm.name ELSE staged.token.of)

(* An arm whose provisioning raised half-way, at whichever point, admits     *)
(* nothing, though the session keeps the instance and what an earlier one    *)
(* obtained.  B0 has nothing to provision. *)
HalfProvisionedRefuses ==
  \A e \in Omega : (arm.name # "B0" /\ arm.stage # "ready") => Reason(e) # "admitted"

(* A cell that stages a credential fault measures the check it is named for. *)
CheckOf(f) ==
  CASE f = "unauthenticated_caller" -> IF arm.name = "B1" THEN "no_credential" ELSE "not_presented"
    [] f = "invalid_credential" -> IF arm.name = "B1" THEN "invalid_credential" ELSE "token_rejected"
    [] f = "audience_mismatch" -> "token_rejected"
    [] OTHER -> "holder_proof"

SignatureKept == staged # Nothing /\ staged.token # Nothing /\ staged.token.respelled

(* Every fault that could be applied is refused, for every call, by the      *)
(* check it aims at and not by a binding that broke on the way, if and only  *)
(* if it took: a token corrupted to another spelling of its signature passes *)
(* that check.  Set apart is an arm that could not have admitted anything:   *)
(* refused at the hop, or with a token that had run out. *)
FaultIsRefusedByItsCheck ==
  \A e \in Omega :
    (/\ fault # "none" /\ arm.stage = "ready"
     /\ staged # Nothing => ~staged.refused
     /\ fault \in HolderFaults => staged.token # Nothing
     /\ (fault \in HolderFaults \/ SignatureKept) => staged.at < staged.token.exp) =>
       (Reason(e) = CheckOf(fault) <=> ~SignatureKept)

(* The docstring of credential_faults.CredentialFaultError: a fault is never *)
(* silently a no-op.  An arm whose credential was corrupted admits nothing. *)
FaultIsNeverANoOp ==
  \A e \in Omega : (fault # "none" /\ arm.stage = "ready") => Reason(e) # "admitted"

(* With the shared cache attached, no proof is admitted twice within Delta, *)
(* across presentations, arms and provisionings. *)
ProofAdmittedOnce ==
  \A i, j \in DOMAIN admissions :
    (i < j /\ admissions[i].id = admissions[j].id) =>
      \/ admissions[j].at - admissions[i].at >= Delta
      \/ admissions[i].at - admissions[j].at >= Delta

=============================================================================
