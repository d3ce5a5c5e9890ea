------------------------ MODULE TokenExchangeProofs ------------------------
(***************************************************************************)
(* What the authorization server guarantees for every registry, policy,    *)
(* set of requests and number of tokens.                                   *)
(*                                                                         *)
(* That a boundary admits under a token only what it would admit under     *)
(* each of its ancestors is not inductive: it speaks of admissions, while  *)
(* an exchange compares the two tokens' planes.  Narrowed says it of the   *)
(* planes, and is inductive with the type invariant.  That nothing issued  *)
(* was clamped rests on Located: every token's details are at its audience. *)
(***************************************************************************)
EXTENDS TokenExchange, TLAPS

Narrows(child, t) ==
  /\ child.aud = t.aud
  /\ child.exp <= t.exp
  /\ child.scope \subseteq t.scope
  /\ child.details \subseteq t.details

Narrowed ==
  \A i \in DOMAIN tokens : \A j \in tokens[i].ancestors :
    j \in DOMAIN tokens /\ Narrows(tokens[i], tokens[j])

Located ==
  \A i \in DOMAIN tokens : \A d \in tokens[i].details : d.at = tokens[i].aud

IInv == TypeOK /\ Narrowed /\ Located

-----------------------------------------------------------------------------
(* The pieces of a token have their types.                                 *)

LEMMA MayActType ==
  ASSUME NEW p
  PROVE  MayActOf(p) \in Principals \cup {None}
BY ExchangeAssumption DEF MayActOf

(* A base token is a token, with its details at its audience. *)
LEMMA InitialType ==
  ASSUME NEW i \in DOMAIN Phase1
  PROVE  /\ Initial(Phase1[i]) \in Token
         /\ Initial(Phase1[i]).ancestors = {}
         /\ \A d \in Initial(Phase1[i]).details : d.at = Initial(Phase1[i]).aud
<1> DEFINE g == Phase1[i]
<1>0. Phase1 \in Seq(Grant)
  BY ExchangeAssumption
<1>1. g \in [client : Clients, audience : ResourceServers, scope : SUBSET Scopes,
             details : SUBSET Details, lifetime : Nat]
  <2>1. \A k \in DOMAIN Phase1 : Phase1[k] \in Grant
    BY <1>0
  <2>2. QED BY <2>1 DEF Grant
<1>2. (IF g.lifetime = 0 THEN DefaultLifetime ELSE g.lifetime) \in Nat
  BY <1>1, ExchangeAssumption
<1>3. (IF g.client \in DOMAIN Principal THEN MayActOf(Principal[g.client]) ELSE None)
        \in Principals \cup {None}
  BY MayActType
<1>4. g.client \in Ids /\ <<>> \in Seq(Ids) /\ {} \in SUBSET Nat /\ 0 \in Nat
  BY <1>1, ExchangeAssumption
<1>5. FilterToAudience(g.details, g.audience) \in SUBSET Details
  BY <1>1 DEF FilterToAudience
<1>6. Initial(g) \in Token
  BY <1>1, <1>2, <1>3, <1>4, <1>5 DEF Initial, Token
<1>7. QED
  BY <1>6 DEF Initial, FilterToAudience

(* The default lifetime, or the one asked for, leaves a natural instant    *)
(* after the clock and no later than the subject token's.                  *)
LEMMA ExpiryBounds ==
  ASSUME NEW r \in Requests, NEW t \in Token, now \in Nat, LifetimeGranted(r, t)
  PROVE  ExpiresAt(r, t) \in Nat /\ now < ExpiresAt(r, t) /\ ExpiresAt(r, t) <= t.exp
<1>1. r.lifetime \in Int /\ t.exp \in Nat /\ DefaultLifetime \in Nat
  BY ExchangeAssumption DEF Request, Token
<1>2. CASE r.asksLifetime
  BY <1>1, <1>2 DEF LifetimeGranted, ExpiresAt
<1>3. CASE ~r.asksLifetime
  BY <1>1, <1>3 DEF LifetimeGranted, ExpiresAt, Lesser
<1>4. QED BY <1>2, <1>3

(* The step lemma: what an exchange issues is a token that narrows its     *)
(* subject token in all four planes and has its details at its audience.   *)
LEMMA GrantedNarrows ==
  ASSUME TypeOK, Located,
         NEW r \in Requests, NEW i \in DOMAIN tokens, Acceptable(r, tokens[i])
  PROVE  /\ Granted(r, i) \in Token
         /\ Narrows(Granted(r, i), tokens[i])
         /\ Granted(r, i).details = r.details
         /\ \A d \in Granted(r, i).details : d.at = Granted(r, i).aud
<1> DEFINE t == tokens[i]
           g == Granted(r, i)
<1>1. t \in Token /\ i \in Nat /\ now \in Nat
  BY DEF TypeOK
<1>2. r \in Request
  BY ExchangeAssumption
<1>3. ExpiresAt(r, t) \in Nat /\ ExpiresAt(r, t) <= t.exp
  BY <1>1, ExpiryBounds DEF Acceptable
<1>4. r.details \subseteq t.details /\ r.resource = t.aud /\ GrantedScope(r, t) \subseteq t.scope
  BY DEF Acceptable, Contained
<1>5. FilterToAudience(r.details, r.resource) = r.details
  <2>1. \A d \in r.details : d.at = r.resource
    BY <1>4 DEF Located
  <2>2. QED BY <2>1 DEF FilterToAudience
<1>6. /\ r.details \in SUBSET Details /\ GrantedScope(r, t) \in SUBSET Scopes
      /\ MayActOf(Principal[r.actor]) \in Principals \cup {None}
      /\ {i} \cup t.ancestors \in SUBSET Nat
  BY <1>1, <1>4, MayActType DEF Token
<1>7. <<r.actor>> \o t.actors \in Seq(Ids)
  BY <1>1, <1>2 DEF Token, Request
<1>8. /\ r.client \in Ids /\ r.resource \in ResourceServers
      /\ r.key \in Keys \cup {None}
  BY <1>2 DEF Request
<1>9. g \in Token
  BY <1>1, <1>3, <1>5, <1>6, <1>7, <1>8 DEF Granted, Token
<1>10. /\ g.aud = r.resource /\ g.exp = ExpiresAt(r, t)
       /\ g.scope = GrantedScope(r, t) /\ g.details = r.details
  BY <1>5 DEF Granted
<1>11. \A d \in g.details : d.at = g.aud
  BY <1>4, <1>10 DEF Located
<1>12. QED BY <1>3, <1>4, <1>9, <1>10, <1>11 DEF Narrows

-----------------------------------------------------------------------------
(* Before the first exchange there are the base tokens only. *)
LEMMA InitIInv == Init => IInv
<1> SUFFICES ASSUME Init PROVE IInv
  OBVIOUS
<1>1. Len(Phase1) \in Nat /\ DOMAIN Phase1 = 1 .. Len(Phase1)
  BY ExchangeAssumption
<1>2. DOMAIN tokens = DOMAIN Phase1 /\ \A i \in DOMAIN tokens : tokens[i] = Initial(Phase1[i])
  BY <1>1 DEF Init
<1>3. \A i \in DOMAIN tokens :
        /\ tokens[i] \in Token /\ tokens[i].ancestors = {}
        /\ \A d \in tokens[i].details : d.at = tokens[i].aud
  BY <1>2, InitialType
<1>4. tokens \in Seq(Token)
  BY <1>1, <1>2, <1>3 DEF Init
<1>5. TypeOK
  BY <1>4 DEF TypeOK, Init
<1>6. QED BY <1>3, <1>5 DEF IInv, Narrowed, Located

(* Every step of the server and its clients preserves the invariant. *)
LEMMA NextIInv == IInv /\ [Next]_vars => IInv'
<1> SUFFICES ASSUME IInv, [Next]_vars PROVE IInv'
  OBVIOUS
<1> USE DEF IInv
<1>1. ASSUME NEW r \in Requests, NEW i \in DOMAIN tokens, Exchange(r, i) PROVE IInv'
  <2> DEFINE g == Granted(r, i)
             n == Len(tokens)
  <2>1. /\ g \in Token /\ Narrows(g, tokens[i])
        /\ \A d \in g.details : d.at = g.aud
    BY <1>1, GrantedNarrows DEF Exchange
  <2>2. tokens \in Seq(Token) /\ n \in Nat /\ DOMAIN tokens = 1 .. n
    BY DEF TypeOK
  <2>3. /\ tokens' = Append(tokens, g) /\ nonces' = nonces /\ now' = now /\ turned' = turned
    BY <1>1 DEF Exchange
  <2>4. /\ tokens' \in Seq(Token)
        /\ DOMAIN tokens' = 1 .. n + 1
        /\ \A k \in 1 .. n : tokens'[k] = tokens[k]
        /\ tokens'[n + 1] = g
    BY <2>1, <2>2, <2>3
  <2>5. TypeOK'
    BY <2>3, <2>4 DEF TypeOK
  <2>6. Located'
    <3> SUFFICES ASSUME NEW k \in DOMAIN tokens', NEW d \in tokens'[k].details
                 PROVE  d.at = tokens'[k].aud
      BY DEF Located
    <3>1. CASE k = n + 1
      BY <2>1, <2>4, <3>1
    <3>2. CASE k \in 1 .. n
      BY <2>2, <2>4, <3>2 DEF Located
    <3>3. QED BY <2>2, <2>4, <3>1, <3>2
  <2>7. Narrowed'
    <3> SUFFICES ASSUME NEW k \in DOMAIN tokens', NEW j \in tokens'[k].ancestors
                 PROVE  j \in DOMAIN tokens' /\ Narrows(tokens'[k], tokens'[j])
      BY DEF Narrowed
    <3>1. CASE k \in 1 .. n
      <4>1. j \in DOMAIN tokens /\ Narrows(tokens[k], tokens[j])
        BY <2>2, <2>4, <3>1 DEF Narrowed
      <4>2. QED BY <2>2, <2>4, <3>1, <4>1
    <3>2. CASE k = n + 1
      <4>1. g.ancestors = {i} \cup tokens[i].ancestors
        BY DEF Granted
      <4>2. j \in DOMAIN tokens /\ Narrows(g, tokens[j])
        <5>1. CASE j = i
          BY <2>1, <5>1
        <5>2. CASE j \in tokens[i].ancestors
          <6>1. j \in DOMAIN tokens /\ Narrows(tokens[i], tokens[j])
            BY <5>2 DEF Narrowed
          <6>2. tokens[i] \in Token /\ tokens[j] \in Token
            BY <2>2, <6>1
          <6>3. g.exp \in Nat /\ tokens[i].exp \in Nat /\ tokens[j].exp \in Nat
            BY <2>1, <6>2 DEF Token
          <6>4. QED BY <2>1, <6>1, <6>3 DEF Narrows
        <5>3. QED BY <2>4, <3>2, <4>1, <5>1, <5>2
      <4>3. QED BY <2>2, <2>4, <3>2, <4>2
    <3>3. QED BY <2>2, <2>4, <3>1, <3>2
  <2>8. QED BY <2>5, <2>6, <2>7
<1>2. ASSUME NEW r \in Requests, NEW i \in DOMAIN tokens, DemandNonce(r, i) PROVE IInv'
  BY <1>2 DEF DemandNonce, TypeOK, Located, Narrowed
<1>3. ASSUME NEW r \in Requests, NEW i \in DOMAIN tokens, Refuse(r, i) PROVE IInv'
  BY <1>3 DEF Refuse, vars, TypeOK, Located, Narrowed
<1>4. CASE Tick
  BY <1>4 DEF Tick, TypeOK, Located, Narrowed
<1>5. CASE UNCHANGED vars
  BY <1>5 DEF vars, TypeOK, Located, Narrowed
<1>6. QED BY <1>1, <1>2, <1>3, <1>4, <1>5 DEF Next

(* The invariant holds of every run of the server. *)
LEMMA AlwaysIInv == Spec => []IInv
BY InitIInv, NextIInv, PTL DEF Spec

-----------------------------------------------------------------------------
(* Type correctness of the server, for every registry, policy and request. *)
THEOREM ExchangeTypeOK == Spec => []TypeOK
<1>1. IInv => TypeOK
  BY DEF IInv
<1>2. QED BY AlwaysIInv, <1>1, PTL

(* However long the chain and whoever extended it: a boundary admits under *)
(* a token nothing that the independent verifier would not find allowed,   *)
(* at that same instant, by it and by every token it was derived from      *)
(* (exchange step 7, gate G-13).                                           *)
THEOREM ExchangeNeverWidens == Spec => []NoAuthorityBeyondAnyAncestor
<1>1. IInv => NoAuthorityBeyondAnyAncestor
  <2> SUFFICES ASSUME IInv,
                      NEW i \in DOMAIN tokens, NEW j \in {i} \cup tokens[i].ancestors,
                      NEW rs \in ResourceServers, NEW pair \in Omega, NEW scope \in Scopes,
                      NEW at \in 0 .. MaxTime + DefaultLifetime,
                      BoundaryAdmits(tokens[i], rs, pair, scope, at)
               PROVE  pair \in TokenAllowed(tokens[j], rs, scope, at)
    BY DEF NoAuthorityBeyondAnyAncestor
  <2>1. j = i \/ (j \in DOMAIN tokens /\ Narrows(tokens[i], tokens[j]))
    BY DEF IInv, Narrowed
  <2>2. tokens[i] \in Token /\ tokens[j] \in Token
    BY <2>1 DEF IInv, TypeOK
  <2>3. tokens[i].exp \in Nat /\ tokens[j].exp \in Nat
    BY <2>2 DEF Token
  <2>4. at \in Int
    BY ExchangeAssumption
  <2>5. at < tokens[j].exp
    BY <2>1, <2>3, <2>4 DEF Narrows, BoundaryAdmits
  <2>6. BoundaryAdmits(tokens[j], rs, pair, scope, at)
    BY <2>1, <2>5 DEF Narrows, BoundaryAdmits
  <2>7. [at |-> rs, pair |-> pair].at = rs /\ [at |-> rs, pair |-> pair].pair = pair
    OBVIOUS
  <2>8. QED
    BY <2>6, <2>7 DEF BoundaryAdmits, TokenAllowed, VerifiesFor, TokenAdmits
<1>2. QED BY AlwaysIInv, <1>1, PTL

(* A widening is an error and never a clamp: what is issued is what was    *)
(* asked for, the filter to the audience included (exchange steps 7 to 9). *)
THEOREM ExchangeNeverClamps == Spec => NeverClamped
<1> DEFINE Asked(t) ==
             \A r \in Requests : Exchange(r, t.parent) =>
               /\ t.details = r.details
               /\ r.asksScope => t.scope = r.scope
               /\ r.asksLifetime => t.exp = now + r.lifetime
<1>1. ASSUME IInv, [Next]_vars, tokens' # tokens PROVE Asked(tokens'[Len(tokens')])
  <2>1. PICK q \in Requests, i \in DOMAIN tokens : Exchange(q, i)
    BY <1>1 DEF Next, DemandNonce, Refuse, Tick, vars
  <2> DEFINE t == tokens'[Len(tokens')]
  <2>2. tokens \in Seq(Token) /\ tokens' = Append(tokens, Granted(q, i))
    BY <1>1, <2>1 DEF Exchange, IInv, TypeOK
  <2>3. t = Granted(q, i)
    BY <2>2
  <2>4. t.parent = i
    BY <2>3 DEF Granted
  <2> SUFFICES ASSUME NEW r \in Requests, Exchange(r, i)
               PROVE  /\ t.details = r.details
                      /\ r.asksScope => t.scope = r.scope
                      /\ r.asksLifetime => t.exp = now + r.lifetime
    BY <2>4
  <2>5. tokens' = Append(tokens, Granted(r, i))
    BY DEF Exchange
  <2>6. t = Granted(r, i)
    BY <2>2, <2>5
  <2>7. t.details = r.details
    BY <1>1, <2>6, GrantedNarrows DEF Exchange, IInv
  <2>8. t.scope = GrantedScope(r, tokens[i]) /\ t.exp = ExpiresAt(r, tokens[i])
    BY <2>6 DEF Granted
  <2>9. QED BY <2>7, <2>8 DEF GrantedScope, ExpiresAt
<1>2. IInv /\ [Next]_vars => [tokens' # tokens => Asked(tokens'[Len(tokens')])]_vars
  BY <1>1
<1>3. QED BY AlwaysIInv, <1>2, PTL DEF Spec, NeverClamped

-----------------------------------------------------------------------------
(* The nonce.  What is asked of a request besides the instant ... *)
Standing(r, t) ==
  /\ Authenticated(r) /\ HolderDelegates(r, t)
  /\ r.actor \in DOMAIN Principal /\ r.signer = r.actor /\ MayAct(r, t)
  /\ Contained(r, t)
  /\ r.asksLifetime => r.lifetime > 0

(* ... is what it was when the nonce was demanded, and the nonce, once     *)
(* issued, stays among the issued ones.                                    *)
TurnedStands ==
  \A d \in turned :
    /\ d.of \in DOMAIN tokens
    /\ d.nonce \in 1 .. nonces
    /\ d.req.key # None
    /\ Standing(d.req, tokens[d.of])

(* A request is acceptable when it stands and has not lapsed. *)
LEMMA AcceptableUnlessLapsed ==
  ASSUME NEW r \in Request, NEW t \in Token, now \in Nat
  PROVE  Acceptable(r, t) <=> Standing(r, t) /\ ~Lapsed(r, t)
<1>1. /\ r.lifetime \in Int /\ r.assertionExp \in Nat /\ t.exp \in Nat
      /\ DefaultLifetime \in Nat \ {0} /\ r.asksLifetime \in BOOLEAN
  BY ExchangeAssumption DEF Request, Token
<1>2. SubjectVerifies(t) <=> ~(now >= t.exp)
  BY <1>1 DEF SubjectVerifies
<1>3. ActorVerifies(r) <=>
        r.actor \in DOMAIN Principal /\ r.signer = r.actor /\ ~(now >= r.assertionExp)
  BY <1>1 DEF ActorVerifies
<1>4. CASE r.asksLifetime
  <2>1. LifetimeGranted(r, t) <=> r.lifetime > 0 /\ ~(now + r.lifetime > t.exp)
    BY <1>1, <1>4 DEF LifetimeGranted, ExpiresAt
  <2>2. QED BY <1>2, <1>3, <1>4, <2>1 DEF Acceptable, Standing, Lapsed
<1>5. CASE ~r.asksLifetime
  <2>1. SubjectVerifies(t) => LifetimeGranted(r, t)
    BY <1>1, <1>5 DEF SubjectVerifies, LifetimeGranted, ExpiresAt, Lesser
  <2>2. QED BY <1>2, <1>3, <1>5, <2>1 DEF Acceptable, Standing, Lapsed
<1>6. QED BY <1>4, <1>5

(* No step takes anything from a request that was sent away for a nonce. *)
LEMMA NextTurned == IInv /\ TurnedStands /\ [Next]_vars => TurnedStands'
<1> SUFFICES ASSUME IInv, TurnedStands, [Next]_vars PROVE TurnedStands'
  OBVIOUS
<1> DEFINE n == Len(tokens)
<1>1. tokens \in Seq(Token) /\ n \in Nat /\ DOMAIN tokens = 1 .. n /\ nonces \in Nat /\ now \in Nat
  BY DEF IInv, TypeOK
<1>2. ASSUME NEW r \in Requests, NEW i \in DOMAIN tokens, Exchange(r, i) PROVE TurnedStands'
  <2>1. Granted(r, i) \in Token
    BY <1>2, GrantedNarrows DEF Exchange, IInv
  <2>2. /\ DOMAIN tokens' = 1 .. n + 1 /\ turned' = turned /\ nonces' = nonces
        /\ \A k \in 1 .. n : tokens'[k] = tokens[k]
    BY <1>1, <1>2, <2>1 DEF Exchange
  <2>3. \A d \in turned : d.of \in DOMAIN tokens' /\ tokens'[d.of] = tokens[d.of]
    BY <1>1, <2>2 DEF TurnedStands
  <2>4. \A d \in turned : Standing(d.req, tokens'[d.of])
    BY <2>3 DEF TurnedStands
  <2>5. \A d \in turned : Standing(d.req, tokens[d.of])'
    BY <2>4 DEF Standing
  <2>6. QED BY <2>2, <2>3, <2>5 DEF TurnedStands
<1>3. ASSUME NEW r \in Requests, NEW i \in DOMAIN tokens, DemandNonce(r, i) PROVE TurnedStands'
  <2> DEFINE e == [req |-> r, of |-> i, nonce |-> nonces + 1]
  <2>1. tokens' = tokens /\ nonces' = nonces + 1 /\ turned' = turned \cup {e}
    BY <1>3 DEF DemandNonce
  <2>2. r \in Request /\ tokens[i] \in Token
    BY <1>1, ExchangeAssumption
  <2>3. Standing(r, tokens[i]) /\ r.key # None
    BY <1>1, <1>3, <2>2, AcceptableUnlessLapsed DEF DemandNonce, NonceMissing
  <2>4. e.nonce \in 1 .. nonces' /\ e.req = r /\ e.of = i
    BY <1>1, <2>1
  <2>5. \A d \in turned : d.nonce \in 1 .. nonces'
    BY <1>1, <2>1 DEF TurnedStands
  <2>6. ASSUME NEW d \in turned'
        PROVE  /\ d.of \in DOMAIN tokens
               /\ d.nonce \in 1 .. nonces'
               /\ d.req.key # None
               /\ Standing(d.req, tokens[d.of])
    <3>1. CASE d \in turned
      BY <2>5, <3>1 DEF TurnedStands
    <3>2. CASE d = e
      BY <2>3, <2>4, <3>2
    <3>3. QED BY <2>1, <3>1, <3>2
  <2>7. \A d : Standing(d.req, tokens[d.of])' <=> Standing(d.req, tokens[d.of])
    BY <2>1 DEF Standing
  <2>8. QED BY <2>1, <2>6, <2>7 DEF TurnedStands
<1>4. ASSUME tokens' = tokens, nonces' = nonces, turned' = turned PROVE TurnedStands'
  BY <1>4 DEF TurnedStands, Standing
<1>5. QED BY <1>2, <1>3, <1>4 DEF Next, Refuse, Tick, vars

(* Test A6 of gate G-4, at any later instant: a request sent away for its  *)
(* nonce is granted with it whatever was exchanged and whichever nonces    *)
(* were issued meanwhile, unless its proof fails or time has run out.      *)
THEOREM ExchangeNonceRetryLosesToTimeAlone == Spec => []NonceRetryLosesToTimeAlone
<1>1. Init => TurnedStands
  BY DEF Init, TurnedStands
<1>2. IInv /\ TurnedStands => NonceRetryLosesToTimeAlone
  <2> SUFFICES ASSUME IInv, TurnedStands, NEW d \in turned
               PROVE  LET r == [d.req EXCEPT !.nonce = d.nonce]
                          t == tokens[d.of]
                      IN  Acceptable(r, t) /\ ProofVerifies(r) <=> r.proves /\ ~Lapsed(r, t)
    BY DEF NonceRetryLosesToTimeAlone
  <2> DEFINE r == [d.req EXCEPT !.nonce = d.nonce]
             t == tokens[d.of]
  <2>1. d.req \in Request /\ d.nonce \in Nat
    BY ExchangeAssumption DEF IInv, TypeOK
  <2>2. t \in Token /\ now \in Nat
    BY DEF IInv, TypeOK, TurnedStands
  <2>3. r \in Request /\ r.key = d.req.key /\ r.nonce = d.nonce
    BY <2>1 DEF Request
  <2>4. Standing(r, t)
    <3>1. Standing(d.req, t)
      BY DEF TurnedStands
    <3>2. /\ r.client = d.req.client /\ r.authentic = d.req.authentic
          /\ r.actor = d.req.actor /\ r.signer = d.req.signer
          /\ r.details = d.req.details /\ r.wellFormed = d.req.wellFormed
          /\ r.resource = d.req.resource /\ r.asksScope = d.req.asksScope
          /\ r.scope = d.req.scope /\ r.asksLifetime = d.req.asksLifetime
          /\ r.lifetime = d.req.lifetime
      BY <2>1 DEF Request
    <3> HIDE DEF r, t
    <3>3. QED
      BY <3>1, <3>2 DEF Standing, Authenticated, HolderDelegates, MayAct, Contained, GrantedScope
  <2>5. r.key # None /\ r.nonce \in 1 .. nonces
    BY <2>3 DEF TurnedStands
  <2> HIDE DEF r, t
  <2>6. ProofVerifies(r) <=> r.proves
    <3>1. Bound(r) /\ ~NonceMissing(r)
      BY <2>5 DEF Bound, NonceMissing
    <3>2. QED BY <2>5, <3>1 DEF ProofVerifies
  <2>7. Acceptable(r, t) <=> ~Lapsed(r, t)
    BY <2>2, <2>3, <2>4, AcceptableUnlessLapsed
  <2>8. QED BY <2>6, <2>7 DEF r, t
<1>3. QED BY AlwaysIInv, NextTurned, <1>1, <1>2, PTL DEF Spec

-----------------------------------------------------------------------------
(* The act chain.  An exchange sees the presented token's outermost actor   *)
(* only, so that the whole chain is the delegation needs two facts about    *)
(* every token: it descends from exactly one base token, and its may_act    *)
(* is the policy's for its current holder.                                  *)
Descends(t) ==
  /\ t.parent = 0 => t.actors = <<>> /\ t.ancestors = {}
  /\ t.parent # 0 =>
       /\ t.actors # <<>>
       /\ \E j \in t.ancestors :
            /\ tokens[j].parent = 0
            /\ \A k \in t.ancestors : tokens[k].parent = 0 => k = j

Entitled(t) == t.mayAct # None => t.mayAct = MayActOf(Principal[CurrentActor(t)])

IsDelegation(chain, client) ==
  \A k \in 1 .. Len(chain) - 1 :
    /\ {chain[k], chain[k + 1]} \subseteq DOMAIN Principal
    /\ MayActOf(Principal[chain[k]]) = Principal[chain[k + 1]]
    /\ k = Len(chain) - 1 => Principal[client] = Principal[chain[k]]

Chained(t) == IsDelegation(Holders(t), t.client)

ChainInv ==
  IInv /\ \A i \in DOMAIN tokens : Descends(tokens[i]) /\ Entitled(tokens[i]) /\ Chained(tokens[i])

(* The base token that a token descends from. *)
Root(t) ==
  IF t.parent = 0 THEN t ELSE tokens[CHOOSE j \in t.ancestors : tokens[j].parent = 0]

(* The holders of a token: its first client, then the actors, innermost first. *)
LEMMA HoldersFacts ==
  ASSUME NEW t \in Token
  PROVE  /\ Holders(t) \in Seq(Ids \cup {Root(t).client})
         /\ Len(Holders(t)) = Len(t.actors) + 1
         /\ \A k \in 1 .. Len(t.actors) + 1 :
              Holders(t)[k] = IF k = 1 THEN Root(t).client ELSE t.actors[Len(t.actors) + 2 - k]
<1>1. t.actors \in Seq(Ids)
  BY DEF Token
<1>2. Holders(t) = [k \in 1 .. Len(t.actors) + 1 |->
                      IF k = 1 THEN Root(t).client ELSE t.actors[Len(t.actors) + 2 - k]]
  BY DEF Holders, Root
<1>3. \A k \in 1 .. Len(t.actors) + 1 : k # 1 => t.actors[Len(t.actors) + 2 - k] \in Ids
  BY <1>1
<1>4. QED BY <1>1, <1>2, <1>3

(* A base token has one holder, and no hop. *)
LEMMA BaseChained ==
  ASSUME NEW t \in Token, t.parent = 0, t.actors = <<>>
  PROVE  Chained(t)
<1>1. Len(t.actors) = 0
  OBVIOUS
<1>2. Len(Holders(t)) = 0 + 1
  BY <1>1, HoldersFacts
<1>3. 1 .. Len(Holders(t)) - 1 = {}
  BY <1>2
<1>4. QED BY <1>3 DEF Chained, IsDelegation

(* The holders of what an exchange issues are those of the token presented, *)
(* and the actor of the request. *)
LEMMA GrantedChain ==
  ASSUME ChainInv, NEW r \in Requests, NEW i \in DOMAIN tokens, Acceptable(r, tokens[i])
  PROVE  LET g == Granted(r, i)
         IN  Descends(g) /\ Entitled(g) /\ Chained(g)
<1> DEFINE t == tokens[i]
           g == Granted(r, i)
           n == Len(t.actors)
<1>1. /\ t \in Token /\ t.actors \in Seq(Ids) /\ n \in Nat /\ i \in Nat /\ i # 0
      /\ Descends(t) /\ Entitled(t) /\ Chained(t)
  <2>1. tokens \in Seq(Token)
    BY DEF ChainInv, IInv, TypeOK
  <2>2. t \in Token /\ i \in Nat /\ i # 0
    BY <2>1
  <2>3. t.actors \in Seq(Ids)
    BY <2>2 DEF Token
  <2>4. QED BY <2>2, <2>3 DEF ChainInv
<1>2. r \in Request /\ r.actor \in Ids
  BY ExchangeAssumption DEF Request
<1>3. g \in Token
  BY GrantedNarrows DEF ChainInv, IInv
<1>4. /\ g.parent = i /\ g.ancestors = {i} \cup t.ancestors
      /\ g.actors = <<r.actor>> \o t.actors /\ g.client = r.client
      /\ g.mayAct = MayActOf(Principal[r.actor])
  BY DEF Granted
<1>5. /\ Len(g.actors) = n + 1 /\ g.actors # <<>> /\ Head(g.actors) = r.actor
      /\ g.actors[1] = r.actor
      /\ \A k \in 1 .. n : g.actors[k + 1] = t.actors[k]
  BY <1>1, <1>2, <1>4
<1>6. Entitled(g)
  BY <1>4, <1>5 DEF Entitled, CurrentActor
<1>7. Descends(g) /\ Root(g) = Root(t)
  <2>1. CASE t.parent = 0
    <3>1. g.ancestors = {i}
      BY <1>1, <1>4, <2>1 DEF Descends
    <3>2. (CHOOSE j \in g.ancestors : tokens[j].parent = 0) = i
      BY <2>1, <3>1
    <3>3. QED BY <1>1, <1>4, <1>5, <2>1, <3>1, <3>2 DEF Descends, Root
  <2>2. CASE t.parent # 0
    <3>1. PICK j \in t.ancestors : /\ tokens[j].parent = 0
                                   /\ \A k \in t.ancestors : tokens[k].parent = 0 => k = j
      BY <1>1, <2>2 DEF Descends
    <3>2. \A k \in g.ancestors : tokens[k].parent = 0 => k = j
      BY <1>4, <2>2, <3>1
    <3>3. j \in g.ancestors
      BY <1>4
    <3>4. (CHOOSE k \in g.ancestors : tokens[k].parent = 0) = j
      BY <3>1, <3>2, <3>3
    <3>5. (CHOOSE k \in t.ancestors : tokens[k].parent = 0) = j
      BY <3>1
    <3>6. QED BY <1>1, <1>4, <1>5, <2>2, <3>1, <3>2, <3>3, <3>4, <3>5 DEF Descends, Root
  <2>3. QED BY <2>1, <2>2
<1>8. /\ Len(Holders(t)) = n + 1 /\ Len(Holders(g)) = n + 2
      /\ \A k \in 1 .. n + 1 :
           Holders(t)[k] = IF k = 1 THEN Root(t).client ELSE t.actors[n + 2 - k]
      /\ \A k \in 1 .. n + 2 :
           Holders(g)[k] = IF k = 1 THEN Root(g).client ELSE g.actors[n + 3 - k]
  <2>1. /\ Len(Holders(t)) = n + 1
        /\ \A k \in 1 .. n + 1 :
             Holders(t)[k] = IF k = 1 THEN Root(t).client ELSE t.actors[n + 2 - k]
    BY <1>1, HoldersFacts
  <2>2. /\ Len(Holders(g)) = Len(g.actors) + 1
        /\ \A k \in 1 .. Len(g.actors) + 1 :
             Holders(g)[k] = IF k = 1 THEN Root(g).client ELSE g.actors[Len(g.actors) + 2 - k]
    BY <1>3, HoldersFacts
  <2>3. Len(g.actors) = n + 1 /\ n + 1 + 1 = n + 2 /\ \A k \in 1 .. n + 2 : n + 1 + 2 - k = n + 3 - k
    BY <1>1, <1>5
  <2> HIDE DEF g, n
  <2>4. QED BY <2>1, <2>2, <2>3
<1>9. \A k \in 1 .. n + 1 : Holders(g)[k] = Holders(t)[k]
  <2> SUFFICES ASSUME NEW k \in 1 .. n + 1 PROVE Holders(g)[k] = Holders(t)[k]
    OBVIOUS
  <2>1. CASE k = 1
    BY <1>1, <1>7, <1>8, <2>1
  <2>2. CASE k # 1
    <3>1. n + 2 - k \in 1 .. n /\ n + 3 - k = (n + 2 - k) + 1
      BY <1>1, <2>2
    <3>2. g.actors[n + 3 - k] = t.actors[n + 2 - k]
      BY <1>5, <3>1
    <3>3. QED BY <1>1, <1>8, <2>2, <3>2
  <2>3. QED BY <2>1, <2>2
<1>10. Holders(g)[n + 2] = r.actor
  BY <1>1, <1>5, <1>8
<1>11. Holders(t)[n + 1] = CurrentActor(t)
  <2>1. CASE t.actors = <<>>
    BY <1>1, <1>8, <2>1 DEF CurrentActor, Descends, Root
  <2>2. CASE t.actors # <<>>
    <3>1. n > 0 /\ Head(t.actors) = t.actors[1]
      BY <1>1, <2>2
    <3>2. QED BY <1>1, <1>8, <2>2, <3>1 DEF CurrentActor
  <2>3. QED BY <2>1, <2>2
<1>12. /\ r.client \in DOMAIN Principal /\ CurrentActor(t) \in DOMAIN Principal
       /\ Principal[CurrentActor(t)] = Principal[r.client]
       /\ r.actor \in DOMAIN Principal
       /\ MayActOf(Principal[CurrentActor(t)]) = Principal[r.actor]
  BY <1>1 DEF Acceptable, HolderDelegates, ActorVerifies, MayAct, Entitled
<1>13. Chained(g)
  <2> SUFFICES ASSUME NEW k \in 1 .. n + 1
               PROVE  /\ {Holders(g)[k], Holders(g)[k + 1]} \subseteq DOMAIN Principal
                      /\ MayActOf(Principal[Holders(g)[k]]) = Principal[Holders(g)[k + 1]]
                      /\ k = n + 1 => Principal[g.client] = Principal[Holders(g)[k]]
    BY <1>1, <1>8 DEF Chained, IsDelegation
  <2>1. CASE k = n + 1
    <3>1. Holders(g)[k] = CurrentActor(t) /\ Holders(g)[k + 1] = r.actor
      BY <1>1, <1>9, <1>10, <1>11, <2>1
    <3>2. QED BY <1>4, <1>12, <3>1
  <2>2. CASE k # n + 1
    <3>1. k \in 1 .. Len(Holders(t)) - 1 /\ k + 1 \in 1 .. n + 1
      BY <1>1, <1>8, <2>2
    <3>2. /\ {Holders(t)[k], Holders(t)[k + 1]} \subseteq DOMAIN Principal
          /\ MayActOf(Principal[Holders(t)[k]]) = Principal[Holders(t)[k + 1]]
      BY <1>1, <3>1 DEF Chained, IsDelegation
    <3>3. QED BY <1>9, <2>2, <3>1, <3>2
  <2>3. QED BY <2>1, <2>2
<1>14. QED BY <1>6, <1>7, <1>13

(* The base tokens are their own roots, and have no hop yet. *)
LEMMA InitChain == Init => ChainInv
<1> SUFFICES ASSUME Init PROVE ChainInv
  OBVIOUS
<1>1. IInv
  BY InitIInv
<1>2. \A i \in DOMAIN tokens : i \in DOMAIN Phase1 /\ tokens[i] = Initial(Phase1[i])
  BY ExchangeAssumption DEF Init
<1> SUFFICES ASSUME NEW i \in DOMAIN tokens
             PROVE  Descends(tokens[i]) /\ Entitled(tokens[i]) /\ Chained(tokens[i])
  BY <1>1 DEF ChainInv
<1> DEFINE t == tokens[i]
<1>3. t \in Token
  BY <1>1 DEF IInv, TypeOK
<1>4. /\ t.parent = 0 /\ t.actors = <<>> /\ t.ancestors = {}
      /\ t.mayAct = IF t.client \in DOMAIN Principal THEN MayActOf(Principal[t.client]) ELSE None
  BY <1>2 DEF Initial
<1>5. Entitled(t)
  BY <1>4 DEF Entitled, CurrentActor
<1>6. QED BY <1>3, <1>4, <1>5, BaseChained DEF Descends

(* A token keeps its root and its chain when others are issued. *)
LEMMA NextChain == ChainInv /\ [Next]_vars => ChainInv'
<1> SUFFICES ASSUME ChainInv, [Next]_vars PROVE ChainInv'
  OBVIOUS
<1>1. IInv /\ IInv'
  BY NextIInv DEF ChainInv
<1>2. CASE tokens' = tokens
  <2>1. ASSUME NEW t
        PROVE  /\ Descends(t)' <=> Descends(t)
               /\ Entitled(t)' <=> Entitled(t)
               /\ Holders(t)' = Holders(t)
    BY <1>2 DEF Descends, Entitled, CurrentActor, Holders
  <2>2. ASSUME NEW t PROVE Chained(t)' <=> Chained(t)
    BY <2>1 DEF Chained
  <2>3. QED BY <1>1, <1>2, <2>1, <2>2 DEF ChainInv
<1>3. ASSUME NEW r \in Requests, NEW i \in DOMAIN tokens, Exchange(r, i) PROVE ChainInv'
  <2> DEFINE g == Granted(r, i)
             n == Len(tokens)
  <2>1. tokens \in Seq(Token) /\ n \in Nat /\ DOMAIN tokens = 1 .. n
    BY <1>1 DEF IInv, TypeOK
  <2>2. g \in Token /\ g.ancestors = {i} \cup tokens[i].ancestors
    BY <1>1, <1>3, GrantedNarrows DEF Exchange, IInv, Granted
  <2>3. /\ DOMAIN tokens' = 1 .. n + 1
        /\ \A k \in 1 .. n : tokens'[k] = tokens[k]
        /\ tokens'[n + 1] = g
    BY <1>3, <2>1, <2>2 DEF Exchange
  <2>4. \A k \in DOMAIN tokens : tokens[k].ancestors \subseteq DOMAIN tokens
    BY <1>1 DEF IInv, Narrowed
  <2>5. \A t \in {tokens[k] : k \in DOMAIN tokens} \cup {g} : \A j \in t.ancestors : tokens'[j] = tokens[j]
    BY <2>1, <2>2, <2>3, <2>4
  <2>6. ASSUME NEW t \in {tokens[k] : k \in DOMAIN tokens} \cup {g},
               Descends(t), Entitled(t), Chained(t)
        PROVE  Descends(t)' /\ Entitled(t)' /\ Chained(t)'
    <3>1. \A j \in t.ancestors : tokens'[j] = tokens[j]
      BY <2>5
    <3>2. Descends(t)' /\ Entitled(t)'
      BY <2>6, <3>1 DEF Descends, Entitled
    <3>3. (CHOOSE j \in t.ancestors : tokens'[j].parent = 0)
            = (CHOOSE j \in t.ancestors : tokens[j].parent = 0)
      BY <3>1
    <3>4. t.parent # 0 => (CHOOSE j \in t.ancestors : tokens[j].parent = 0) \in t.ancestors
      BY <2>6 DEF Descends
    <3>5. Holders(t)' = Holders(t)
      <4> DEFINE old == IF t.parent = 0 THEN t ELSE tokens[CHOOSE j \in t.ancestors : tokens[j].parent = 0]
                 new == IF t.parent = 0 THEN t ELSE tokens'[CHOOSE j \in t.ancestors : tokens'[j].parent = 0]
      <4>1. new = old
        BY <3>1, <3>3, <3>4
      <4> DEFINE h(root) == [k \in 1 .. Len(t.actors) + 1 |->
                               IF k = 1 THEN root.client ELSE t.actors[Len(t.actors) + 2 - k]]
      <4>2. Holders(t) = h(old) /\ Holders(t)' = h(new)
        BY DEF Holders
      <4> HIDE DEF old, new
      <4>3. QED BY <4>1, <4>2
    <3>6. QED BY <2>6, <3>2, <3>5 DEF Chained
  <2>7. Descends(g) /\ Entitled(g) /\ Chained(g)
    BY <1>3, GrantedChain DEF Exchange
  <2>8. ASSUME NEW k \in DOMAIN tokens'
        PROVE  Descends(tokens[k])' /\ Entitled(tokens[k])' /\ Chained(tokens[k])'
    <3>1. CASE k = n + 1
      BY <2>3, <2>6, <2>7, <3>1
    <3>2. CASE k \in 1 .. n
      BY <2>1, <2>3, <2>6, <3>2 DEF ChainInv
    <3>3. QED BY <2>1, <2>3, <3>1, <3>2
  <2>9. QED BY <1>1, <2>8 DEF ChainInv
<1>4. QED BY <1>2, <1>3 DEF Next, DemandNonce, Refuse, Tick, vars

(* Exchange steps 4 and 5: over any number of hops, the act chain is a      *)
(* delegation that the policy permits hop by hop and its holders asked for. *)
THEOREM ExchangeChainFollowsPolicy == Spec => []ChainFollowsPolicy
<1>1. ChainInv => ChainFollowsPolicy
  BY DEF ChainInv, Chained, IsDelegation, ChainFollowsPolicy
<1>2. QED BY InitChain, NextChain, <1>1, PTL DEF Spec

=============================================================================
