------------------------- MODULE OAuthSessionProofs -------------------------
(***************************************************************************)
(* What a session admits, after any sequence of operations on it.          *)
(*                                                                         *)
(* None of the properties is inductive.  What an arm admits lies within    *)
(* its row because of what its tokens were issued for, which is settled    *)
(* when it delegates (Obtained) and kept until it decides (OnStage); a     *)
(* fault is refused by its check because of what was left of what the arm  *)
(* had staged (Corrupt); and a proof is not admitted again because the     *)
(* instants at which calls are judged never go back (Horizon), so the      *)
(* cache forgets none too early (Remembered).                              *)
(***************************************************************************)
EXTENDS OAuthSession, ReplayCacheProofs

(* A token the check of credentials lets through: genuine, for this server, *)
(* within the row of the arm that obtained it. *)
Sound(t) == t.genuine /\ t.here /\ t.auth \subseteq Reach(t.of)

(* A token as some arm obtained it. *)
Proper(t) == t # Nothing => Sound(t) /\ ~t.respelled

Provisioned ==
  /\ arm.stage = "ready" /\ arm.name \in OAuthArms => arm.base = LadderGrant(arm.name)
  /\ arm.stage = "configured" => arm.name \in OAuthArms /\ staged = Nothing
  /\ arm.stage = "unkeyed" => HolderBound(arm.name)

Obtained ==
  /\ credentials # Nothing => Proper(credentials.token)
  /\ arm.delegated =>
       credentials # Nothing /\ (credentials.token # Nothing => credentials.token.of = arm.name)

OnStage ==
  staged # Nothing =>
    /\ staged.at <= now
    /\ staged.own /\ staged.token # Nothing => staged.token.of = arm.name
    /\ arm.name \notin OAuthArms => staged.token = Nothing
    /\ fault \notin TokenFaults => Proper(staged.token)

Corrupt ==
  /\ fault = "unauthenticated_caller" =>
       \/ arm.name = "B1" /\ staged = Nothing
       \/ arm.name \in OAuthArms /\ staged # Nothing /\ staged.token = Nothing
  /\ fault = "invalid_credential" =>
       /\ staged # Nothing
       /\ \/ arm.name = "B1" /\ staged.key = "forged"
          \/ /\ arm.name \in OAuthArms /\ staged.token # Nothing
             /\ IF staged.token.respelled THEN Sound(staged.token) ELSE ~staged.token.genuine
  /\ fault = "audience_mismatch" =>
       /\ arm.name \in OAuthArms /\ staged # Nothing /\ staged.token # Nothing
       /\ ~staged.token.here /\ ~staged.token.respelled
  /\ fault \in HolderFaults =>
       /\ HolderBound(arm.name) /\ arm.stage = "ready" /\ staged # Nothing
       /\ proof # Nothing /\ ~proof.own

(* Calls are judged at the instant of the presentation in force. *)
Horizon == IF staged = Nothing THEN now ELSE staged.at

Remembered ==
  \A i \in DOMAIN admissions :
    /\ admissions[i].at <= Horizon
    /\ admissions[i].at + Delta > Horizon =>
         /\ admissions[i].id \in DOMAIN used
         /\ used[admissions[i].id] >= admissions[i].at + Delta

Spaced ==
  \A i, j \in DOMAIN admissions :
    (i < j /\ admissions[i].id = admissions[j].id) => admissions[j].at - admissions[i].at >= Delta

SessionInv == TypeOK /\ Provisioned /\ Obtained /\ OnStage /\ Corrupt

SessionCacheInv == SessionInv /\ Remembered /\ Spaced

-----------------------------------------------------------------------------
(* The tokens an arm can obtain. *)

LEMMA SetFacts ==
  /\ \A n : Reach(n) \subseteq Omega /\ LadderGrant(n) \subseteq Omega
  /\ \A x : HolderBound(x) => Narrows(x) /\ x \in OAuthArms
  /\ Exchanging \subseteq OAuthArms /\ OAuthArms \subseteq ArmNames
  /\ "B0" \notin OAuthArms /\ "B1" \notin OAuthArms
  /\ Instants \subseteq Nat /\ Delta \in Nat
BY OAuthSessionAssumption, ReplayCacheAssumption
   DEF Reach, LadderGrant, HolderBound, Narrows, OAuthArms, Exchanging, ArmNames

(* The token an arm obtains by provisioning is its own and genuine. *)
LEMMA BaseTokenFacts ==
  ASSUME TypeOK
  PROVE  /\ BaseToken \in Token /\ BaseToken # Nothing
         /\ BaseToken.genuine /\ BaseToken.here /\ BaseToken.auth = arm.base
         /\ ~BaseToken.respelled
         /\ BaseToken.of = arm.name
<1>1. arm.base \subseteq Omega /\ arm.name \in ArmNames
  BY OAuthSessionAssumption DEF TypeOK, Instance
<1>2. BaseToken \in Token
  BY <1>1, OAuthSessionAssumption DEF BaseToken, Token
<1> QED BY <1>2, NothingAssumption DEF BaseToken

(* The token of the other audience is refused here by its audience only. *)
LEMMA ForeignTokenFacts ==
  ASSUME TypeOK
  PROVE  /\ ForeignToken \in Token /\ ForeignToken # Nothing /\ ForeignToken.of = arm.name
         /\ ~ForeignToken.here /\ ~ForeignToken.respelled
<1>1. /\ ForeignToken \in Token /\ ForeignToken.of = arm.name
      /\ ~ForeignToken.here /\ ~ForeignToken.respelled
  BY BaseTokenFacts DEF ForeignToken, Token
<1> QED BY <1>1, NothingAssumption

(* The hop of a ready arm yields a token within its row, or none. *)
LEMMA ExchangedTokenFacts ==
  ASSUME TypeOK, Provisioned, arm.stage = "ready", arm.name \in Exchanging,
         NEW tampered \in BOOLEAN, RequestedElements(tampered) \subseteq arm.base
  PROVE  LET t == ExchangedToken(RequestedElements(tampered))
         IN  t \in Token /\ t # Nothing /\ Proper(t) /\ t.of = arm.name
<1> DEFINE requested == RequestedElements(tampered)
           t == ExchangedToken(requested)
<1>1. arm.base = LadderGrant(arm.name)
  BY SetFacts DEF Provisioned
<1>2. requested \subseteq Reach(arm.name)
  BY <1>1, OAuthSessionAssumption DEF RequestedElements, Reach, LadderGrant
<1>3. requested \subseteq Omega
  BY <1>2, SetFacts
<1>4. now + HopLifetime \in Nat /\ HolderBound(arm.name) \in BOOLEAN
  BY OAuthSessionAssumption, SetFacts DEF TypeOK, HolderBound
<1> HIDE DEF requested
<1>5. t \in Token
  BY <1>3, <1>4, BaseTokenFacts DEF ExchangedToken, Token
<1>6. t.genuine /\ t.here /\ ~t.respelled /\ t.auth = requested /\ t.of = arm.name
  BY BaseTokenFacts DEF ExchangedToken, BaseToken
<1> QED BY <1>2, <1>5, <1>6, NothingAssumption DEF Proper, Sound, requested

-----------------------------------------------------------------------------
(* The steps. *)

(* The material a setup may carry, and how far it gets an instance. *)
LEMMA SetupFacts ==
  ASSUME NEW n \in ArmNames, NEW s \in Setups(n)
  PROVE  /\ s.complete \in BOOLEAN /\ s.authority \in {{}, UTask, Omega} /\ s.cached \in BOOLEAN
         /\ StageOf(n, s.authority, s.keyed) \in Stages \ {"bare"}
         /\ StageOf(n, s.authority, s.keyed) = "ready" /\ n \in OAuthArms
              => s.authority = LadderGrant(n)
         /\ StageOf(n, s.authority, s.keyed) = "configured" => n \in OAuthArms
         /\ StageOf(n, s.authority, s.keyed) = "unkeyed" => HolderBound(n)
<1>1. s.complete \in BOOLEAN /\ s.authority \in {{}, UTask, Omega} /\ s.cached \in BOOLEAN
  <2>1. CASE s = Incomplete
    BY <2>1 DEF Incomplete
  <2>2. CASE s # Incomplete
    <3>1. s \in [complete : {TRUE}, authority : IF n \in OAuthArms THEN {UTask, Omega} ELSE {{}},
                 keyed : IF HolderBound(n) THEN BOOLEAN ELSE {FALSE},
                 cached : IF HolderBound(n) THEN BOOLEAN ELSE {FALSE}]
      BY <2>2 DEF Setups
    <3>2. /\ s.complete \in {TRUE} /\ s.authority \in IF n \in OAuthArms THEN {UTask, Omega} ELSE {{}}
          /\ s.cached \in IF HolderBound(n) THEN BOOLEAN ELSE {FALSE}
      BY <3>1
    <3> QED BY <3>2
  <2> QED BY <2>1, <2>2
<1>2. CASE n \notin OAuthArms
  <2>1. StageOf(n, s.authority, s.keyed) = "ready"
    BY <1>2 DEF StageOf
  <2> QED BY <1>1, <1>2, <2>1 DEF Stages
<1>3. CASE n \in OAuthArms /\ (s.authority # LadderGrant(n) \/ now >= BaseExp)
  <2>1. StageOf(n, s.authority, s.keyed) = "configured"
    BY <1>3 DEF StageOf
  <2> QED BY <1>1, <1>3, <2>1 DEF Stages
<1>4. CASE n \in OAuthArms /\ ~(s.authority # LadderGrant(n) \/ now >= BaseExp)
  <2>1. StageOf(n, s.authority, s.keyed) = IF HolderBound(n) /\ ~s.keyed THEN "unkeyed" ELSE "ready"
    BY <1>4 DEF StageOf
  <2> QED BY <1>1, <1>4, <2>1 DEF Stages
<1> QED BY <1>2, <1>3, <1>4

(* The instants and ids of what is staged are of their types. *)
LEMMA StagedFacts ==
  ASSUME TypeOK
  PROVE  /\ now \in Nat /\ arm.name \in ArmNames /\ arm.stage \in Stages
         /\ staged # Nothing => /\ staged \in Staged /\ staged.token \in MaybeToken
                                /\ staged.at \in Instants /\ staged.at \in Nat
         /\ proof # Nothing => proof \in Proof /\ proof.id \in Keys
<1>1. now \in Nat /\ arm.name \in ArmNames /\ arm.stage \in Stages
  BY SetFacts DEF TypeOK, Instance
<1>2. ASSUME staged # Nothing
      PROVE  staged \in Staged /\ staged.token \in MaybeToken /\ staged.at \in Instants
  BY <1>2 DEF TypeOK, Staged
<1>3. proof # Nothing => proof \in Proof /\ proof.id \in Keys
  BY DEF TypeOK, Proof
<1> QED BY <1>1, <1>2, <1>3, SetFacts

(* What is staged once a field of it was corrupted is still something staged. *)
LEMMA RestagedFacts ==
  ASSUME TypeOK, staged # Nothing, NEW t \in MaybeToken
  PROVE  /\ [staged EXCEPT !.token = t] \in Staged /\ [staged EXCEPT !.token = t] # Nothing
         /\ [staged EXCEPT !.token = t].token = t /\ [staged EXCEPT !.token = t].at = staged.at
         /\ [staged EXCEPT !.key = "forged"] \in Staged /\ [staged EXCEPT !.key = "forged"] # Nothing
         /\ [staged EXCEPT !.key = "forged"].key = "forged"
         /\ [staged EXCEPT !.key = "forged"].at = staged.at
<1>1. staged \in Staged
  BY StagedFacts
<1>2. [staged EXCEPT !.token = t] \in Staged /\ [staged EXCEPT !.key = "forged"] \in Staged
  BY <1>1 DEF Staged
<1> QED BY <1>1, <1>2, NothingAssumption DEF Staged

(* What each fault makes of a staged token: another signature, or another *)
(* spelling of the one it had. *)
LEMMA CorruptionFacts ==
  ASSUME TypeOK, staged # Nothing, NEW f \in TokenFaults,
         f = "invalid_credential" => staged.token # Nothing,
         NEW t \in Corruptions(f, staged.token)
  PROVE  /\ t \in MaybeToken
         /\ f = "unauthenticated_caller" => t = Nothing
         /\ f = "invalid_credential" =>
              /\ t # Nothing /\ t.of = staged.token.of
              /\ Proper(staged.token) =>
                   IF t.respelled THEN Sound(t) ELSE ~t.genuine
         /\ f = "audience_mismatch" =>
              t # Nothing /\ t.of = arm.name /\ ~t.here /\ ~t.respelled
<1>1. CASE f = "unauthenticated_caller"
  BY <1>1 DEF Corruptions, MaybeToken
<1>2. CASE f = "invalid_credential"
  <2>1. staged.token \in Token
    BY <1>2, StagedFacts DEF MaybeToken
  <2>2. CASE t = [staged.token EXCEPT !.genuine = FALSE]
    <3>1. t \in Token /\ ~t.genuine /\ t.of = staged.token.of /\ t.respelled = staged.token.respelled
      BY <2>1, <2>2 DEF Token
    <3> QED BY <1>2, <2>1, <3>1, NothingAssumption DEF MaybeToken, Proper
  <2>3. CASE t = [staged.token EXCEPT !.respelled = TRUE]
    <3>1. /\ t \in Token /\ t.respelled /\ t.of = staged.token.of /\ t.auth = staged.token.auth
          /\ t.genuine = staged.token.genuine /\ t.here = staged.token.here
      BY <2>1, <2>3 DEF Token
    <3> QED BY <1>2, <2>1, <3>1, NothingAssumption DEF MaybeToken, Proper, Sound
  <2> QED BY <1>2, <2>2, <2>3 DEF Corruptions
<1>3. CASE f = "audience_mismatch"
  BY <1>3, ForeignTokenFacts DEF Corruptions, MaybeToken
<1> QED BY <1>1, <1>2, <1>3 DEF TokenFaults

(* A proof minted for the occasion is a proof, of the key it was made with. *)
LEMMA FreshProof ==
  ASSUME TypeOK, FreshIds # {}, NEW own \in BOOLEAN, NEW token \in MaybeToken, NEW at \in Instants
  PROVE  LET p == AnyOf(Proofs(own, token, at))
         IN  p \in Proof /\ p # Nothing /\ p.own = own
<1> DEFINE p == AnyOf(Proofs(own, token, at))
<1>1. Proofs(own, token, at) # {}
  BY DEF Proofs
<1>2. p \in Proofs(own, token, at)
  BY <1>1 DEF AnyOf
<1>3. PICK i \in FreshIds : p = [id |-> i, own |-> own, ath |-> token, iat |-> at]
  BY <1>2 DEF Proofs
<1>4. i \in Keys
  BY DEF FreshIds
<1>5. p \in Proof /\ p.own = own
  BY <1>3, <1>4 DEF Proof
<1> QED BY <1>5, NothingAssumption

(* Provisioning, half-way or to the end, preserves the invariant. *)
LEMMA ProvisionStep ==
  ASSUME SessionInv, NEW n \in ArmNames, NEW s \in Setups(n), Provision(n, s)
  PROVE  SessionInv'
<1> USE SetFacts, NothingAssumption DEF SessionInv
<1>1. TypeOK'
  <2>1. arm' \in Instance
    BY SetupFacts DEF Provision, Instance, Stages
  <2> QED BY <2>1 DEF TypeOK, Provision
<1>2. Provisioned'
  BY SetupFacts DEF TypeOK, Provisioned, Provision
<1>3. Obtained'
  BY DEF TypeOK, Obtained, Proper, Provision, StageOf, Setups, Incomplete
<1>4. OnStage'
  BY DEF TypeOK, OnStage, Obtained, Proper, Provision, StageOf, Setups, Incomplete, Faults
<1>5. Corrupt'
  BY DEF TypeOK, Corrupt, Provision, StageOf, Setups, Incomplete, Faults, TokenFaults, HolderFaults
<1> QED BY <1>1, <1>2, <1>3, <1>4, <1>5

(* A delegation that asks no server preserves it. *)
LEMMA DelegateOfflineStep ==
  ASSUME SessionInv, DelegateOffline
  PROVE  SessionInv'
<1> USE SetFacts, NothingAssumption DEF SessionInv
<1>1. TypeOK'
  <2>1. arm' \in Instance
    BY DEF TypeOK, DelegateOffline, Returns, Instance
  <2>2. credentials' \in Credentials
    BY BaseTokenFacts DEF DelegateOffline, Returns, Empty, Credentials, MaybeToken
  <2> QED BY <2>1, <2>2 DEF TypeOK, DelegateOffline, Returns
<1>2. Provisioned'
  BY DEF TypeOK, Provisioned, DelegateOffline, Returns, Empty, Credentials
<1>3. Obtained'
  <2>1. credentials' # Nothing
    <3>1. credentials' \in Credentials
      BY BaseTokenFacts DEF DelegateOffline, Returns, Empty, Credentials, MaybeToken
    <3> QED BY <3>1
  <2>2. arm' = [arm EXCEPT !.delegated = TRUE] /\ arm'.name = arm.name
    BY DEF DelegateOffline, Returns, TypeOK, Instance
  <2>3. CASE arm.name \in {"B0", "B1"}
    BY <2>1, <2>2, <2>3 DEF DelegateOffline, Returns, Empty, Obtained, Proper
  <2>4. CASE arm.name \notin {"B0", "B1"}
    <3>1. credentials'.token = BaseToken
      BY <2>4 DEF DelegateOffline, Returns, Empty
    <3>2. arm.name = "B2-broad-noexchange" /\ arm.name \in OAuthArms
      BY <2>4 DEF DelegateOffline, TypeOK, Instance, ArmNames, OAuthArms
    <3>3. arm.base = LadderGrant(arm.name) /\ LadderGrant(arm.name) = Reach(arm.name)
      BY <3>2 DEF DelegateOffline, Provisioned, LadderGrant, Reach, Narrows
    <3>4. Proper(BaseToken) /\ BaseToken.of = arm.name
      BY <3>3, BaseTokenFacts DEF Proper, Sound
    <3> QED BY <2>1, <2>2, <3>1, <3>4 DEF Obtained, Proper
  <2> QED BY <2>3, <2>4
<1>4. OnStage'
  BY DEF TypeOK, OnStage, Obtained, Proper, DelegateOffline, Returns, Empty, Credentials, Faults
<1>5. Corrupt'
  BY DEF TypeOK, Corrupt, DelegateOffline, Returns, Empty, Credentials, Faults, TokenFaults, HolderFaults
<1> QED BY <1>1, <1>2, <1>3, <1>4, <1>5

(* An exchange, granted or refused, preserves it. *)
LEMMA ExchangeStep ==
  ASSUME SessionInv, NEW tampered \in BOOLEAN, Exchange(tampered)
  PROVE  SessionInv'
<1> USE SetFacts, NothingAssumption DEF SessionInv
<1>1. TypeOK'
  <2>1. arm' \in Instance
    BY DEF TypeOK, Exchange, Returns, Instance
  <2>2. credentials' \in Credentials
    BY ExchangedTokenFacts DEF Exchange, Returns, Empty, Credentials, MaybeToken
  <2> QED BY <2>1, <2>2 DEF TypeOK, Exchange, Returns
<1>2. Provisioned'
  BY DEF TypeOK, Provisioned, Exchange, Returns, Empty, Credentials
<1>3. Obtained'
  <2>1. arm'.name = arm.name
    BY DEF Exchange, Returns, TypeOK, Instance
  <2>2. credentials' # Nothing
    BY ExchangedTokenFacts DEF Exchange, Returns, Empty, Credentials, MaybeToken
  <2> DEFINE requested == RequestedElements(tampered)
  <2>3. CASE requested \subseteq arm.base /\ now < BaseExp
    <3>1. credentials'.token = ExchangedToken(requested)
      BY <2>3 DEF Exchange, Returns, Empty
    <3>2. Proper(ExchangedToken(requested)) /\ ExchangedToken(requested).of = arm.name
      BY <2>3, ExchangedTokenFacts DEF Exchange
    <3> HIDE DEF requested
    <3> QED BY <2>1, <2>2, <3>1, <3>2 DEF Obtained, Proper
  <2>4. CASE ~(requested \subseteq arm.base /\ now < BaseExp)
    <3>1. credentials'.token = Nothing
      BY <2>4 DEF Exchange, Returns, Empty
    <3> QED BY <2>1, <2>2, <3>1 DEF Obtained, Proper
  <2> QED BY <2>3, <2>4
<1>4. OnStage'
  BY DEF TypeOK, OnStage, Obtained, Proper, Exchange, Returns, Empty, Credentials, Faults
<1>5. Corrupt'
  BY DEF TypeOK, Corrupt, Exchange, Returns, Empty, Credentials, Faults, TokenFaults, HolderFaults
<1> QED BY <1>1, <1>2, <1>3, <1>4, <1>5

(* A server that raises or drops the connection preserves it. *)
LEMMA LinkStep ==
  ASSUME SessionInv, ExchangeRaises \/ DropKeepAlive
  PROVE  SessionInv'
<1> USE SetFacts, NothingAssumption DEF SessionInv
<1>1. TypeOK'
  BY OAuthSessionAssumption DEF TypeOK, ExchangeRaises, DropKeepAlive, Instance, Staged
<1>2. Provisioned'
  BY DEF TypeOK, Provisioned, ExchangeRaises, DropKeepAlive
<1>3. Obtained'
  BY DEF TypeOK, Obtained, Proper, ExchangeRaises, DropKeepAlive
<1>4. OnStage'
  BY DEF TypeOK, OnStage, Obtained, Proper, ExchangeRaises, DropKeepAlive, Faults
<1>5. Corrupt'
  BY DEF TypeOK, Corrupt, ExchangeRaises, DropKeepAlive, Faults, TokenFaults, HolderFaults
<1> QED BY <1>1, <1>2, <1>3, <1>4, <1>5

(* Staging an API key preserves it. *)
LEMMA PresentKeyStep ==
  ASSUME SessionInv, PresentKey
  PROVE  SessionInv'
<1> USE SetFacts, NothingAssumption DEF SessionInv
<1>1. TypeOK'
  <2>1. staged' \in Staged \cup {Nothing}
    <3>1. arm.delegated \in BOOLEAN /\ now \in Instants
      BY DEF TypeOK, Instance
    <3> QED BY <3>1 DEF PresentKey, Staged, MaybeToken
  <2> QED BY <2>1 DEF TypeOK, PresentKey
<1>2. Provisioned'
  BY DEF TypeOK, Provisioned, PresentKey, Credentials, Staged
<1>3. Obtained'
  BY DEF TypeOK, Obtained, Proper, PresentKey, Credentials, Staged
<1>4. OnStage'
  BY DEF TypeOK, OnStage, Obtained, Proper, PresentKey, Credentials, Staged, Faults
<1>5. Corrupt'
  BY DEF TypeOK, Corrupt, PresentKey, Credentials, Staged, Faults, TokenFaults, HolderFaults
<1> QED BY <1>1, <1>2, <1>3, <1>4, <1>5

(* Staging a token, with the proof of the DPoP arm, preserves it. *)
LEMMA PresentTokenStep ==
  ASSUME SessionInv, PresentToken
  PROVE  SessionInv'
<1> USE SetFacts, NothingAssumption DEF SessionInv
<1>1. TypeOK'
  <2>1. credentials \in Credentials /\ credentials.token \in MaybeToken
        /\ credentials.refused \in BOOLEAN /\ arm.delegated \in BOOLEAN /\ now \in Instants
    BY DEF TypeOK, PresentToken, Credentials, Instance
  <2>2. staged' \in Staged
    BY <2>1 DEF PresentToken, Staged
  <2>3. seen' \subseteq Proof /\ proof' \in seen' \cup {Nothing}
    <3>1. CASE UNCHANGED <<proof, seen>>
      BY <3>1 DEF TypeOK
    <3>2. CASE proof' = Nothing /\ UNCHANGED seen
      BY <3>2 DEF TypeOK
    <3>3. CASE /\ FreshIds # {} /\ proof' = AnyOf(Proofs(TRUE, credentials.token, now))
               /\ seen' = seen \cup {proof'}
      BY <2>1, <3>3, FreshProof DEF TypeOK
    <3> QED BY <3>1, <3>2, <3>3 DEF PresentToken
  <2> QED BY <2>2, <2>3 DEF TypeOK, PresentToken
<1>2. Provisioned'
  BY DEF TypeOK, Provisioned, PresentToken, Credentials, Staged
<1>3. Obtained'
  BY DEF TypeOK, Obtained, Proper, PresentToken, Credentials, Staged
<1>4. OnStage'
  BY DEF TypeOK, OnStage, Obtained, Proper, PresentToken, Credentials, Staged, Faults
<1>5. Corrupt'
  BY DEF TypeOK, Corrupt, PresentToken, Credentials, Staged, Faults, TokenFaults, HolderFaults
<1> QED BY <1>1, <1>2, <1>3, <1>4, <1>5

(* Staging a proof seen before preserves it. *)
LEMMA RestageProofStep ==
  ASSUME SessionInv, NEW p \in seen, RestageProof(p)
  PROVE  SessionInv'
<1> USE SetFacts, NothingAssumption DEF SessionInv
<1>1. TypeOK'
  BY OAuthSessionAssumption DEF TypeOK, RestageProof, Instance, Staged
<1>2. Provisioned'
  BY DEF TypeOK, Provisioned, RestageProof
<1>3. Obtained'
  BY DEF TypeOK, Obtained, Proper, RestageProof
<1>4. OnStage'
  BY DEF TypeOK, OnStage, Obtained, Proper, RestageProof, Faults
<1>5. Corrupt'
  BY DEF TypeOK, Corrupt, RestageProof, Faults, TokenFaults, HolderFaults
<1> QED BY <1>1, <1>2, <1>3, <1>4, <1>5

(* A fault of a staged key preserves it. *)
LEMMA FaultApiKeyStep ==
  ASSUME SessionInv, NEW f \in Faults, InjectFault(f), FaultApiKey(f)
  PROVE  SessionInv'
<1> USE SetFacts, NothingAssumption DEF SessionInv
<1>1. TypeOK'
  <2>1. staged' \in Staged \cup {Nothing}
    <3>1. Nothing \in MaybeToken /\ staged # Nothing
      BY DEF MaybeToken, InjectFault
    <3> QED BY <3>1, RestagedFacts DEF FaultApiKey
  <2> QED BY <2>1 DEF TypeOK, InjectFault, FaultApiKey
<1>2. Provisioned'
  BY DEF TypeOK, Provisioned, InjectFault, FaultApiKey
<1>3. Obtained'
  BY DEF TypeOK, Obtained, Proper, InjectFault, FaultApiKey
<1>4. OnStage'
  <2>1. f \in TokenFaults
    BY DEF FaultApiKey, TokenFaults
  <2>2. staged' # Nothing => staged' = [staged EXCEPT !.key = "forged"] /\ staged # Nothing
    BY DEF InjectFault, FaultApiKey
  <2>3. staged' # Nothing =>
          staged'.at = staged.at /\ staged'.token = staged.token /\ staged'.own = staged.own
    BY <2>2, StagedFacts DEF Staged
  <2> QED BY <2>1, <2>2, <2>3 DEF OnStage, InjectFault
<1>5. Corrupt'
  <2>1. /\ arm.name = "B1" /\ arm' = arm /\ fault' = f
        /\ \/ f = "unauthenticated_caller" /\ staged' = Nothing
           \/ f = "invalid_credential" /\ staged' = [staged EXCEPT !.key = "forged"]
    BY DEF InjectFault, FaultApiKey
  <2>2. staged # Nothing /\ Nothing \in MaybeToken
    BY DEF InjectFault, MaybeToken
  <2>3. f = "invalid_credential" => staged' # Nothing /\ staged'.key = "forged"
    BY <2>1, <2>2, RestagedFacts
  <2> QED BY <2>1, <2>3 DEF Corrupt, HolderFaults
<1> QED BY <1>1, <1>2, <1>3, <1>4, <1>5

(* A fault of a staged token preserves it. *)
LEMMA FaultTokenStep ==
  ASSUME SessionInv, NEW f \in Faults, InjectFault(f), FaultToken(f)
  PROVE  SessionInv'
<1> USE SetFacts, NothingAssumption DEF SessionInv
<1>1. PICK t \in Corruptions(f, staged.token) : staged' = [staged EXCEPT !.token = t]
  BY DEF FaultToken
<1>2. /\ staged # Nothing /\ f \in TokenFaults /\ f \notin HolderFaults /\ fault = "none"
      /\ f = "invalid_credential" => staged.token # Nothing
      /\ arm.name \in OAuthArms /\ fault' = f /\ now' = now /\ arm' = arm
  BY DEF InjectFault, FaultToken, TokenFaults, HolderFaults
<1>3. /\ staged' \in Staged /\ staged' # Nothing /\ staged'.token = t
      /\ staged'.at = staged.at /\ staged'.own = staged.own
  <2>1. t \in MaybeToken
    BY <1>2, CorruptionFacts
  <2>2. staged' \in Staged /\ staged' # Nothing /\ staged'.token = t /\ staged'.at = staged.at
    BY <1>1, <1>2, <2>1, RestagedFacts
  <2>3. staged'.own = staged.own
    BY <1>1, <1>2, StagedFacts DEF Staged
  <2> QED BY <2>2, <2>3
<1>4. Proper(staged.token)
  BY <1>2 DEF OnStage, TokenFaults
<1>5. TypeOK'
  <2>1. t \in MaybeToken /\ staged.at \in Instants
    BY <1>2, CorruptionFacts, StagedFacts
  <2>2. seen' \subseteq Proof /\ proof' \in seen' \cup {Nothing}
    <3>1. CASE UNCHANGED <<proof, seen>>
      BY <3>1 DEF TypeOK
    <3>2. CASE /\ FreshIds # {} /\ proof' = AnyOf(Proofs(TRUE, staged'.token, staged.at))
               /\ seen' = seen \cup {proof'}
      BY <1>3, <2>1, <3>2, FreshProof DEF TypeOK
    <3> QED BY <3>1, <3>2 DEF FaultToken
  <2> QED BY <1>3, <2>2 DEF TypeOK, InjectFault
<1>6. Provisioned'
  BY <1>2, <1>3 DEF TypeOK, Provisioned
<1>7. Obtained'
  BY DEF TypeOK, Obtained, Proper, InjectFault, FaultToken
<1>8. OnStage'
  <2>1. staged.own /\ t # Nothing => t.of = arm.name
    BY <1>2, CorruptionFacts DEF OnStage, TokenFaults
  <2> QED BY <1>2, <1>3, <2>1 DEF OnStage
<1>9. Corrupt'
  BY <1>2, <1>3, <1>4, CorruptionFacts DEF Corrupt
<1> QED BY <1>5, <1>6, <1>7, <1>8, <1>9

(* A fault of a staged proof preserves it. *)
LEMMA FaultProofStep ==
  ASSUME SessionInv, NEW f \in Faults, InjectFault(f), FaultProof(f)
  PROVE  SessionInv'
<1> USE SetFacts, NothingAssumption DEF SessionInv
<1>1. TypeOK'
  <2>1. staged # Nothing /\ FreshIds # {} /\ seen' = seen \cup {proof'}
        /\ proof' = AnyOf(Proofs(FALSE, staged.token, staged.at))
    BY DEF InjectFault, FaultProof
  <2>2. proof' \in Proof
    BY <2>1, StagedFacts, FreshProof
  <2> QED BY <2>1, <2>2 DEF TypeOK, InjectFault, FaultProof
<1>2. Provisioned'
  BY DEF TypeOK, Provisioned, InjectFault, FaultProof
<1>3. Obtained'
  BY DEF TypeOK, Obtained, Proper, InjectFault, FaultProof
<1>4. OnStage'
  <2>1. fault = "none" /\ UNCHANGED <<arm, now, staged>>
    BY DEF InjectFault, FaultProof
  <2>2. fault \notin TokenFaults
    BY <2>1 DEF TokenFaults
  <2> QED BY <2>1, <2>2 DEF OnStage, Proper
<1>5. Corrupt'
  <2>1. /\ f \in HolderFaults /\ fault' = f /\ HolderBound(arm.name) /\ arm.stage = "ready"
        /\ UNCHANGED <<arm, staged>> /\ staged # Nothing /\ FreshIds # {}
        /\ proof' = AnyOf(Proofs(FALSE, staged.token, staged.at))
    BY DEF InjectFault, FaultProof
  <2>2. proof' # Nothing /\ proof'.own = FALSE
    BY <2>1, StagedFacts, FreshProof
  <2> QED BY <2>1, <2>2 DEF Corrupt, HolderFaults
<1> QED BY <1>1, <1>2, <1>3, <1>4, <1>5

(* Time passing preserves it. *)
LEMMA TickStep ==
  ASSUME SessionInv, Tick
  PROVE  SessionInv'
<1> USE SetFacts, NothingAssumption DEF SessionInv
<1>1. TypeOK'
  <2>1. now' \in Instants
    <3>1. now \in 0 .. MaxTime /\ now' = now + 1 /\ now < MaxTime /\ MaxTime \in Nat
      BY OAuthSessionAssumption DEF TypeOK, Tick
    <3>2. now' \in 0 .. MaxTime
      BY <3>1
    <3> QED BY <3>2, OAuthSessionAssumption
  <2> QED BY <2>1 DEF TypeOK, Tick
<1>2. Provisioned'
  BY DEF TypeOK, Provisioned, Tick
<1>3. Obtained'
  BY DEF TypeOK, Obtained, Proper, Tick
<1>4. OnStage'
  <2>1. staged # Nothing => staged.at <= now + 1
    BY StagedFacts DEF OnStage
  <2> QED BY <2>1 DEF OnStage, Tick, Proper
<1>5. Corrupt'
  BY DEF TypeOK, Corrupt, Tick, Faults, TokenFaults, HolderFaults
<1> QED BY <1>1, <1>2, <1>3, <1>4, <1>5

-----------------------------------------------------------------------------
(* A decision that consumes an id was given a proof that is neither used up nor *)
(* refused, and every admission by proof consumes. *)
LEMMA SpendsFacts ==
  ASSUME TypeOK, NEW e, Spends(e)
  PROVE  /\ staged # Nothing /\ staged.at \in Nat
         /\ proof # Nothing /\ proof.id \in Keys
         /\ Outcome(used, proof.id, staged.at) = "admitted"
<1>1. Consumes /\ HolderBound(arm.name) /\ arm.name \notin {"B0", "B1"}
  BY SetFacts DEF Spends, Consumes
<1>2. ReasonOAuth(e) \in {"token_scope", "admitted"}
  BY <1>1 DEF Spends, Reason
<1>3. staged # Nothing /\ ProofOk(staged.token)
  BY <1>1, <1>2 DEF ReasonOAuth
<1>4. Outcome(used, proof.id, staged.at) = "admitted"
  BY <1>1, <1>2 DEF ReasonOAuth
<1> QED
  BY <1>3, <1>4, StagedFacts DEF ProofOk

(* An admission under the DPoP arm has spent the id of its proof. *)
LEMMA AdmissionSpends ==
  ASSUME NEW e, Consumes, Reason(e) = "admitted"
  PROVE  Spends(e)
BY DEF Spends

(* A decision preserves it. *)
LEMMA DecideStep ==
  ASSUME SessionInv, NEW e \in Omega, Decide(e)
  PROVE  SessionInv'
<1> USE SetFacts, NothingAssumption DEF SessionInv
<1>1. IsCache(used') /\ Cardinality(DOMAIN used') <= Capacity
  <2>1. CASE Spends(e)
    BY <2>1, SpendsFacts, ConsumedIsCache DEF Decide, TypeOK
  <2>2. CASE ~Spends(e)
    BY <2>2 DEF Decide, TypeOK
  <2> QED BY <2>1, <2>2
<1>2. admissions' \in Seq(Admitted)
  <2>1. CASE Consumes /\ Reason(e) = "admitted"
    <3>1. proof.id \in Keys /\ staged.at \in Instants
      BY <2>1, AdmissionSpends, SpendsFacts, StagedFacts
    <3>2. [id |-> proof.id, at |-> staged.at] \in Admitted
      BY <3>1 DEF Admitted
    <3> QED BY <2>1, <3>2 DEF Decide, TypeOK
  <2>2. CASE ~(Consumes /\ Reason(e) = "admitted")
    BY <2>2 DEF Decide, TypeOK
  <2> QED BY <2>1, <2>2
<1>3. UNCHANGED <<arm, link, now, credentials, staged, proof, seen, fault>>
  BY DEF Decide
<1>4. TypeOK'
  BY <1>1, <1>2, <1>3 DEF TypeOK
<1>5. Provisioned' /\ Obtained' /\ OnStage' /\ Corrupt'
  BY <1>3 DEF Provisioned, Obtained, OnStage, Corrupt, Proper
<1> QED BY <1>4, <1>5

-----------------------------------------------------------------------------
(* The instant calls are judged at. *)
LEMMA HorizonFacts ==
  ASSUME SessionInv
  PROVE  Horizon \in Nat /\ Horizon <= now /\ now \in Nat
<1>1. now \in Nat /\ (staged # Nothing => staged.at \in Nat /\ staged.at <= now)
  BY StagedFacts DEF SessionInv, OnStage
<1> QED BY <1>1 DEF Horizon

(* No operation but a decision touches the cache, and none moves the instant *)
(* back. *)
LEMMA HorizonAdvances ==
  ASSUME SessionInv, Next, ~\E e \in Omega : Decide(e)
  PROVE  UNCHANGED <<used, admissions>> /\ Horizon' >= Horizon
<1>1. Horizon \in Nat /\ Horizon <= now /\ now \in Nat
  BY HorizonFacts
<1>2. CASE \E n \in ArmNames : \E s \in Setups(n) : Provision(n, s)
  BY <1>1, <1>2 DEF Provision, Horizon
<1>3. CASE DelegateOffline \/ \E tampered \in BOOLEAN : Exchange(tampered)
  <2>1. UNCHANGED <<now, staged, used, admissions>>
    BY <1>3 DEF DelegateOffline, Exchange, Returns
  <2> QED BY <1>1, <2>1 DEF Horizon
<1>4. CASE ExchangeRaises \/ DropKeepAlive \/ \E p \in seen : RestageProof(p)
  <2>1. UNCHANGED <<now, staged, used, admissions>>
    BY <1>4 DEF ExchangeRaises, DropKeepAlive, RestageProof
  <2> QED BY <1>1, <2>1 DEF Horizon
<1>5. CASE PresentKey
  <2>1. now' = now /\ UNCHANGED <<used, admissions>>
        /\ (staged' # Nothing => staged'.at = now)
    BY <1>5 DEF PresentKey
  <2> QED BY <1>1, <2>1 DEF Horizon
<1>6. CASE PresentToken
  <2>1. now' = now /\ UNCHANGED <<used, admissions>>
        /\ (staged' # Nothing => staged'.at = now)
    BY <1>6 DEF PresentToken
  <2> QED BY <1>1, <2>1 DEF Horizon
<1>7. CASE \E f \in Faults : InjectFault(f)
  <2>1. PICK f \in Faults : InjectFault(f)
    BY <1>7
  <2>2. staged # Nothing /\ UNCHANGED <<now, used, admissions>>
    BY <2>1 DEF InjectFault
  <2>3. staged' # Nothing => staged'.at = staged.at
    <3>1. CASE FaultApiKey(f)
      BY <2>2, <3>1, RestagedFacts DEF FaultApiKey, SessionInv, MaybeToken
    <3>2. CASE FaultToken(f)
      <4>1. PICK t \in Corruptions(f, staged.token) : staged' = [staged EXCEPT !.token = t]
        BY <3>2 DEF FaultToken
      <4>2. t \in MaybeToken
        BY <2>2, <3>2, CorruptionFacts DEF FaultToken, SessionInv
      <4> QED BY <2>2, <4>1, <4>2, RestagedFacts DEF SessionInv
    <3>3. CASE FaultProof(f)
      BY <3>3 DEF FaultProof
    <3> QED BY <2>1, <3>1, <3>2, <3>3 DEF InjectFault
  <2> QED BY <1>1, <2>2, <2>3 DEF Horizon
<1>8. CASE Tick
  <2>1. now' = now + 1 /\ UNCHANGED <<staged, used, admissions>>
    BY <1>8 DEF Tick
  <2> QED BY <1>1, <2>1 DEF Horizon
<1> QED BY <1>2, <1>3, <1>4, <1>5, <1>6, <1>7, <1>8 DEF Next

(* The instants and ids of the admissions recorded. *)
LEMMA AdmissionFacts ==
  ASSUME TypeOK, NEW i \in DOMAIN admissions
  PROVE  admissions[i].at \in Nat /\ i \in Nat /\ i <= Len(admissions) /\ Len(admissions) \in Nat
<1>1. admissions \in Seq(Admitted) /\ Len(admissions) \in Nat /\ DOMAIN admissions = 1 .. Len(admissions)
  BY DEF TypeOK
<1>2. admissions[i] \in Admitted
  BY <1>1
<1>3. admissions[i].at \in Instants
  BY <1>2 DEF Admitted
<1>4. admissions[i].at \in Nat
  BY <1>3, ReplayCacheAssumption
<1>5. i \in Nat /\ i <= Len(admissions)
  BY <1>1
<1> QED BY <1>1, <1>4, <1>5

(* A step that decides nothing keeps the cache and the admissions in account. *)
LEMMA QuietStep ==
  ASSUME SessionCacheInv, UNCHANGED <<used, admissions>>, Horizon' >= Horizon,
         Horizon \in Nat, Horizon' \in Nat
  PROVE  Remembered' /\ Spaced'
<1>1. Spaced'
  BY DEF SessionCacheInv, Spaced
<1>2. Remembered'
  <2> SUFFICES ASSUME NEW i \in DOMAIN admissions
               PROVE  /\ admissions[i].at <= Horizon'
                      /\ admissions[i].at + Delta > Horizon' =>
                           /\ admissions[i].id \in DOMAIN used
                           /\ used[admissions[i].id] >= admissions[i].at + Delta
    BY DEF Remembered
  <2>1. admissions[i].at \in Nat /\ Delta \in Nat
    BY AdmissionFacts, SetFacts DEF SessionCacheInv, SessionInv
  <2>2. /\ admissions[i].at <= Horizon
        /\ admissions[i].at + Delta > Horizon =>
             /\ admissions[i].id \in DOMAIN used
             /\ used[admissions[i].id] >= admissions[i].at + Delta
    BY DEF SessionCacheInv, Remembered
  <2> HIDE DEF Horizon
  <2> QED BY <2>1, <2>2
<1> QED BY <1>1, <1>2

(* The cache forgets no admission that still counts. *)
LEMMA SpendKeeps ==
  ASSUME SessionCacheInv, NEW e, Spends(e), NEW i \in DOMAIN admissions,
         admissions[i].at + Delta > Horizon
  PROVE  LET after == Consumed(used, proof.id, staged.at)
         IN  /\ admissions[i].id \in DOMAIN after
             /\ after[admissions[i].id] >= admissions[i].at + Delta
             /\ admissions[i].id # proof.id
<1> DEFINE k == admissions[i].id
           after == Consumed(used, proof.id, staged.at)
<1>1. IsCache(used) /\ staged.at \in Nat /\ proof.id \in Keys /\ Horizon = staged.at
      /\ Outcome(used, proof.id, staged.at) = "admitted"
  BY SpendsFacts DEF SessionCacheInv, SessionInv, TypeOK, Horizon
<1>2. k \in DOMAIN used /\ used[k] >= admissions[i].at + Delta
  BY DEF SessionCacheInv, Remembered
<1>3. used[k] \in Nat /\ admissions[i].at \in Nat /\ Delta \in Nat
  BY <1>1, <1>2, AdmissionFacts, SetFacts DEF IsCache, SessionCacheInv, SessionInv
<1>4. used[k] > staged.at
  BY <1>1, <1>2, <1>3
<1>5. k \in DOMAIN after /\ after[k] = used[k]
      /\ ~(proof.id \in DOMAIN used /\ used[proof.id] > staged.at)
  BY <1>1, <1>2, <1>4, ConsumedFacts
<1> QED BY <1>2, <1>4, <1>5

(* A decision keeps them in account: a grant enters both, a refusal neither. *)
LEMMA DecideCache ==
  ASSUME SessionCacheInv, NEW e \in Omega, Decide(e)
  PROVE  Remembered' /\ Spaced'
<1>1. Horizon' = Horizon /\ Horizon \in Nat /\ Delta \in Nat
  BY HorizonFacts, SetFacts DEF Decide, Horizon, SessionCacheInv
<1>2. CASE ~Spends(e)
  <2>1. UNCHANGED <<used, admissions>>
    BY <1>2, AdmissionSpends DEF Decide
  <2> QED BY <1>1, <2>1, QuietStep
<1>3. CASE Spends(e)
  <2> DEFINE after == Consumed(used, proof.id, staged.at)
             n == Len(admissions)
             last == [id |-> proof.id, at |-> staged.at]
  <2>1. used' = after /\ Horizon = staged.at /\ staged.at \in Nat
        /\ staged.at + Delta > staged.at
        /\ proof.id \in DOMAIN after /\ after[proof.id] = staged.at + Delta
    <3>1. /\ IsCache(used) /\ used' = after /\ Horizon = staged.at
          /\ staged.at \in Nat /\ proof.id \in Keys
          /\ Outcome(used, proof.id, staged.at) = "admitted"
      BY <1>3, SpendsFacts DEF Decide, Horizon, SessionCacheInv, SessionInv, TypeOK
    <3> HIDE DEF n, last
    <3>2. proof.id \in DOMAIN after /\ after[proof.id] = staged.at + Delta
      <4>1. \A k \in Keys, t \in Nat :
              Outcome(used, k, t) = "admitted" =>
                k \in DOMAIN Consumed(used, k, t) /\ Consumed(used, k, t)[k] = t + Delta
        BY <3>1, ConsumedFacts
      <4> QED BY <3>1, <4>1
    <3>3. staged.at + Delta > staged.at
      BY <3>1, ReplayCacheAssumption
    <3> QED BY <3>1, <3>2, <3>3
  <2>2. \A i \in DOMAIN admissions :
          admissions[i].at \in Nat /\ admissions[i].at <= Horizon /\ i \in Nat /\ i <= n
    BY AdmissionFacts DEF SessionCacheInv, SessionInv, Remembered
  <2>3. \A i \in DOMAIN admissions :
          admissions[i].at + Delta > Horizon =>
            /\ admissions[i].id \in DOMAIN after
            /\ after[admissions[i].id] >= admissions[i].at + Delta
            /\ admissions[i].id # proof.id
    BY <1>3, SpendKeeps
  <2>4. n \in Nat /\ admissions \in Seq(Admitted) /\ DOMAIN admissions = 1 .. n
    BY DEF SessionCacheInv, SessionInv, TypeOK
  <2>5. CASE UNCHANGED admissions
    <3> HIDE DEF after, Horizon, n
    <3>1. Remembered'
      BY <1>1, <2>1, <2>2, <2>3, <2>5 DEF Remembered
    <3>2. Spaced'
      BY <2>5 DEF SessionCacheInv, Spaced
    <3> QED BY <3>1, <3>2
  <2>6. CASE admissions' = Append(admissions, last)
    <3>1. /\ DOMAIN admissions' = 1 .. n + 1 /\ admissions'[n + 1] = last
          /\ \A i \in DOMAIN admissions : admissions'[i] = admissions[i]
      BY <2>4, <2>6
    <3>2. \A i \in DOMAIN admissions' : i = n + 1 \/ i \in DOMAIN admissions
      BY <2>4, <3>1
    <3>3. last.id = proof.id /\ last.at = staged.at
      OBVIOUS
    <3>4. \A i \in DOMAIN admissions : i < n + 1
      BY <2>2, <2>4
    <3> HIDE DEF after, Horizon, n, last
    <3>5. Remembered'
      <4> SUFFICES ASSUME NEW i \in DOMAIN admissions'
                   PROVE  /\ admissions'[i].at <= Horizon'
                          /\ admissions'[i].at + Delta > Horizon' =>
                               /\ admissions'[i].id \in DOMAIN used'
                               /\ used'[admissions'[i].id] >= admissions'[i].at + Delta
        BY DEF Remembered
      <4>1. CASE i = n + 1
        BY <1>1, <2>1, <3>1, <3>3, <4>1
      <4>2. CASE i \in DOMAIN admissions
        BY <1>1, <2>1, <2>2, <2>3, <3>1, <4>2
      <4> QED BY <3>2, <4>1, <4>2
    <3>6. Spaced'
      <4> SUFFICES ASSUME NEW i \in DOMAIN admissions', NEW j \in DOMAIN admissions', i < j,
                          admissions'[i].id = admissions'[j].id
                   PROVE  admissions'[j].at - admissions'[i].at >= Delta
        BY DEF Spaced
      <4>1. CASE j = n + 1
        <5>1. i \in DOMAIN admissions
          BY <2>4, <3>1, <3>2, <4>1
        <5>2. admissions[i].id = proof.id
          BY <3>1, <3>3, <4>1, <5>1
        <5>3. ~(admissions[i].at + Delta > Horizon)
          BY <2>3, <5>1, <5>2
        <5> QED BY <1>1, <2>1, <2>2, <3>1, <3>3, <4>1, <5>1, <5>3
      <4>2. CASE j \in DOMAIN admissions
        <5>1. i \in DOMAIN admissions
          BY <2>4, <3>2, <4>2
        <5> QED BY <3>1, <4>2, <5>1 DEF SessionCacheInv, Spaced
      <4> QED BY <3>2, <4>1, <4>2
    <3> QED BY <3>5, <3>6
  <2> QED BY <2>5, <2>6 DEF Decide
<1> QED BY <1>2, <1>3

-----------------------------------------------------------------------------
(* A session begins with an arm not provisioned and nothing admitted. *)
LEMMA InitSession == Init => SessionCacheInv
<1> SUFFICES ASSUME Init PROVE SessionCacheInv
  OBVIOUS
<1> USE SetFacts, NothingAssumption DEF Init
<1>1. TypeOK
  <2>1. arm \in Instance
    BY DEF Instance, ArmNames, Stages
  <2>2. 0 \in Instants
    BY OAuthSessionAssumption
  <2>3. IsCache(used) /\ Cardinality(DOMAIN used) <= Capacity
    <3>1. DOMAIN EmptyCache = {}
      BY DEF EmptyCache
    <3>2. IsFiniteSet({}) /\ Cardinality({}) = 0
      BY FS_EmptySet
    <3>3. EmptyCache \in [DOMAIN EmptyCache -> Nat]
      BY <3>1 DEF EmptyCache
    <3> QED BY <3>1, <3>2, <3>3, ReplayCacheAssumption DEF IsCache
  <2> QED BY <2>1, <2>2, <2>3 DEF TypeOK
<1>2. Provisioned /\ Obtained /\ OnStage /\ Corrupt
  BY DEF Provisioned, Obtained, OnStage, Corrupt, HolderFaults
<1>3. Remembered /\ Spaced
  <2>1. DOMAIN admissions = {}
    OBVIOUS
  <2> QED BY <2>1 DEF Remembered, Spaced
<1> QED BY <1>1, <1>2, <1>3 DEF SessionCacheInv, SessionInv

(* The strengthening holds of every behaviour of a session. *)
THEOREM SessionInductive == Spec => []SessionCacheInv
<1>1. SessionCacheInv /\ [Next]_vars => SessionCacheInv'
  <2> SUFFICES ASSUME SessionCacheInv, [Next]_vars
               PROVE  SessionCacheInv'
    OBVIOUS
  <2>1. SessionInv
    BY DEF SessionCacheInv
  <2>2. CASE \E e \in Omega : Decide(e)
    BY <2>1, <2>2, DecideStep, DecideCache DEF SessionCacheInv
  <2>3. CASE Next /\ ~\E e \in Omega : Decide(e)
    <3>1. SessionInv'
      <4>1. CASE \E n \in ArmNames : \E s \in Setups(n) : Provision(n, s)
        BY <2>1, <4>1, ProvisionStep
      <4>2. CASE DelegateOffline \/ \E tampered \in BOOLEAN : Exchange(tampered)
        BY <2>1, <4>2, DelegateOfflineStep, ExchangeStep
      <4>3. CASE ExchangeRaises \/ DropKeepAlive
        BY <2>1, <4>3, LinkStep
      <4>4. CASE PresentKey \/ PresentToken
        BY <2>1, <4>4, PresentKeyStep, PresentTokenStep
      <4>5. CASE \E p \in seen : RestageProof(p)
        BY <2>1, <4>5, RestageProofStep
      <4>6. CASE \E f \in Faults : InjectFault(f)
        <5>1. PICK f \in Faults : InjectFault(f)
          BY <4>6
        <5>2. FaultApiKey(f) \/ FaultToken(f) \/ FaultProof(f)
          BY <5>1 DEF InjectFault
        <5> QED BY <2>1, <5>1, <5>2, FaultApiKeyStep, FaultTokenStep, FaultProofStep
      <4>7. CASE Tick
        BY <2>1, <4>7, TickStep
      <4> QED BY <2>3, <4>1, <4>2, <4>3, <4>4, <4>5, <4>6, <4>7 DEF Next
    <3>2. Horizon \in Nat /\ Horizon' \in Nat
      <4>1. Horizon \in Nat
        BY <2>1, HorizonFacts
      <4>2. SessionInv => Horizon \in Nat
        BY HorizonFacts
      <4>3. (SessionInv => Horizon \in Nat)'
        BY HorizonFacts, PTL
      <4> QED BY <3>1, <4>1, <4>3
    <3>3. Remembered' /\ Spaced'
      BY <2>1, <2>3, <3>2, HorizonAdvances, QuietStep
    <3> QED BY <3>1, <3>3 DEF SessionCacheInv
  <2>4. CASE UNCHANGED vars
    <3>1. SessionInv'
      BY <2>1, <2>4 DEF vars, SessionInv, TypeOK, Provisioned, Obtained, OnStage, Corrupt, Proper
    <3>2. Remembered' /\ Spaced'
      BY <2>4 DEF vars, SessionCacheInv, Remembered, Spaced, Horizon
    <3> QED BY <3>1, <3>2 DEF SessionCacheInv
  <2> QED BY <2>2, <2>3, <2>4
<1> QED BY <1>1, InitSession, PTL DEF Spec

(* Session: what is kept between two operations, of which kind it is, and that *)
(* the shared cache stays a bounded map whatever raises half-way. *)
THEOREM SessionTypeOK == Spec => []TypeOK
BY SessionInductive, PTL DEF SessionCacheInv, SessionInv

(* The OAuth arms' decide: an admitted call lies within what the row of the arm *)
(* that obtained the token reaches. *)
THEOREM SessionAdmittedWithinRow == Spec => []AdmittedWithinRow
<1>1. SessionCacheInv => AdmittedWithinRow
  <2> SUFFICES ASSUME SessionCacheInv, NEW e \in Omega, arm.name \in OAuthArms,
                      Reason(e) = "admitted"
               PROVE  e \in Reach(IF staged.own THEN arm.name ELSE staged.token.of)
    BY DEF AdmittedWithinRow
  <2>1. ReasonOAuth(e) = "admitted"
    BY SetFacts DEF Reason
  <2>2. /\ staged # Nothing /\ staged.token # Nothing
        /\ TokenVerifies(staged.token) /\ Admits(staged.token, e)
    BY <2>1 DEF ReasonOAuth
  <2>3. Sound(staged.token)
    <3>1. fault \in TokenFaults => fault = "invalid_credential"
      BY <2>2, SetFacts DEF SessionCacheInv, SessionInv, Corrupt, TokenFaults, TokenVerifies
    <3>2. CASE fault = "invalid_credential"
      BY <2>2, <3>2, SetFacts DEF SessionCacheInv, SessionInv, Corrupt, TokenVerifies
    <3>3. CASE fault \notin TokenFaults
      BY <2>2, <3>3 DEF SessionCacheInv, SessionInv, OnStage, Proper
    <3> QED BY <3>1, <3>2, <3>3
  <2> QED
    BY <2>2, <2>3 DEF SessionCacheInv, SessionInv, OnStage, Sound, Admits
<1> QED BY <1>1, SessionInductive, PTL

(* An instance whose provisioning raised half-way admits no call. *)
THEOREM SessionHalfProvisionedRefuses == Spec => []HalfProvisionedRefuses
<1>1. SessionCacheInv => HalfProvisionedRefuses
  <2> SUFFICES ASSUME SessionCacheInv, NEW e \in Omega, arm.name # "B0", arm.stage # "ready"
               PROVE  Reason(e) # "admitted"
    BY DEF HalfProvisionedRefuses
  <2>1. CASE arm.name = "B1"
    BY <2>1 DEF Reason, ReasonB1
  <2>2. CASE arm.name # "B1" /\ arm.stage = "bare"
    BY <2>2 DEF Reason, ReasonOAuth
  <2>3. CASE arm.name # "B1" /\ arm.stage = "configured"
    BY <2>3 DEF Reason, ReasonOAuth, SessionCacheInv, SessionInv, Provisioned
  <2>4. CASE arm.name # "B1" /\ arm.stage = "unkeyed"
    BY <2>4 DEF Reason, ReasonOAuth, ProofRaises, ProofOk, SessionCacheInv, SessionInv, Provisioned
  <2>5. arm.stage \in Stages
    BY StagedFacts DEF SessionCacheInv, SessionInv
  <2> QED BY <2>1, <2>2, <2>3, <2>4, <2>5 DEF Stages
<1> QED BY <1>1, SessionInductive, PTL

(* apply_to_presentation: a fault that was applied is refused by the check it *)
(* is named for, for every call, if and only if it took. *)
THEOREM SessionFaultIsRefusedByItsCheck == Spec => []FaultIsRefusedByItsCheck
<1>1. SessionCacheInv => FaultIsRefusedByItsCheck
  <2> SUFFICES ASSUME SessionCacheInv, NEW e \in Omega, fault # "none", arm.stage = "ready",
                      staged # Nothing => ~staged.refused,
                      fault \in HolderFaults => staged.token # Nothing,
                      (fault \in HolderFaults \/ SignatureKept) => staged.at < staged.token.exp
               PROVE  Reason(e) = CheckOf(fault) <=> ~SignatureKept
    BY DEF FaultIsRefusedByItsCheck
  <2> USE SetFacts DEF SessionCacheInv, SessionInv
  <2>1. CASE fault = "unauthenticated_caller"
    <3>1. ~SignatureKept
      BY <2>1 DEF Corrupt, SignatureKept
    <3>2. Reason(e) = CheckOf(fault)
      BY <2>1 DEF Corrupt, Reason, ReasonB1, ReasonOAuth, CheckOf
    <3> QED BY <3>1, <3>2
  <2>2. CASE fault = "invalid_credential"
    <3>1. CASE SignatureKept
      <4>1. arm.name \in OAuthArms /\ staged # Nothing /\ staged.token # Nothing
        BY <3>1 DEF SignatureKept, OnStage
      <4>2. TokenVerifies(staged.token)
        BY <2>2, <3>1, <4>1 DEF Corrupt, SignatureKept, Sound, TokenVerifies
      <4>3. Reason(e) # "token_rejected" /\ CheckOf(fault) = "token_rejected"
        BY <2>2, <4>1, <4>2 DEF Reason, ReasonOAuth, CheckOf
      <4> QED BY <3>1, <4>3
    <3>2. CASE ~SignatureKept
      <4>1. Reason(e) = CheckOf(fault)
        BY <2>2, <3>2 DEF Corrupt, SignatureKept, Reason, ReasonB1, ReasonOAuth, CheckOf, TokenVerifies
      <4> QED BY <3>2, <4>1
    <3> QED BY <3>1, <3>2
  <2>3. CASE fault = "audience_mismatch"
    <3>1. ~SignatureKept
      BY <2>3 DEF Corrupt, SignatureKept
    <3>2. Reason(e) = CheckOf(fault)
      BY <2>3 DEF Corrupt, Reason, ReasonOAuth, CheckOf, TokenVerifies
    <3> QED BY <3>1, <3>2
  <2>4. CASE fault \in HolderFaults
    <3>1. /\ HolderBound(arm.name) /\ arm.name \in OAuthArms /\ staged # Nothing
          /\ proof # Nothing /\ ~proof.own /\ staged.token # Nothing
      BY <2>4 DEF Corrupt
    <3>2. staged.token.genuine /\ staged.token.here /\ ~staged.token.respelled
      BY <2>4, <3>1 DEF OnStage, Proper, Sound, HolderFaults, TokenFaults
    <3>3. TokenVerifies(staged.token) /\ ~ProofOk(staged.token) /\ ~ProofRaises(staged.token)
      BY <2>4, <3>1, <3>2 DEF TokenVerifies, ProofOk, ProofRaises
    <3>4. ReasonOAuth(e) = "holder_proof"
      BY <3>1, <3>3 DEF ReasonOAuth
    <3>5. Reason(e) = CheckOf(fault) /\ ~SignatureKept
      BY <2>4, <3>1, <3>2, <3>4 DEF Reason, CheckOf, HolderFaults, SignatureKept
    <3> QED BY <3>5
  <2>5. fault \in TokenFaults \cup HolderFaults
    BY DEF TypeOK, Faults
  <2> QED BY <2>1, <2>2, <2>3, <2>4, <2>5 DEF TokenFaults
<1> QED BY <1>1, SessionInductive, PTL

(* DPoPVerifier with the shared cache: two admissions of one proof are Delta *)
(* apart. *)
THEOREM SessionProofAdmittedOnce == Spec => []ProofAdmittedOnce
<1>1. SessionCacheInv => ProofAdmittedOnce
  BY DEF SessionCacheInv, Spaced, ProofAdmittedOnce
<1> QED BY <1>1, SessionInductive, PTL

=============================================================================
