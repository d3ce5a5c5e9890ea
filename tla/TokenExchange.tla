--------------------------- MODULE TokenExchange ---------------------------
(***************************************************************************)
(* The experiment's authorization server: src/sut/oauth_as.  It mints one  *)
(* Phase-1 base token per grant at start-up and then narrows a presented   *)
(* token at every hop (RFC 8693 exchange, smoke/g4/DESIGN.md 5.3).         *)
(*                                                                         *)
(* Any registered client may present any token that was ever issued; the   *)
(* server keeps no record of its own tokens, and what it knows of a chain  *)
(* is what the presented token says.  Exchanges run on threads of one      *)
(* process that share the nonce store alone, whose set only grows, and     *)
(* each reads the clock once; so an exchange is one step.                  *)
(*                                                                         *)
(* Authority is the expansion of authorization_details: a set of           *)
(* [at, pair], the location and the element of Omega.  parent and          *)
(* ancestors are history fields of a token, not claims of it, and turned   *)
(* is a history variable: who was sent away for a nonce, and with which.   *)
(***************************************************************************)
EXTENDS Integers, Sequences

CONSTANTS
  Ids,              \* OAuth client and actor ids
  Clients,          \* config.clients
  Principal,        \* the registry: Principal[id], for the registered actors
  DelegationPolicy, \* DelegationPolicy[p]: whom p may delegate to
  ResourceServers,
  Omega,            \* the frozen ontology
  Scopes,
  Keys,             \* DPoP keys (their thumbprints)
  Phase1,           \* the sequence of base grants
  Requests,         \* what is posted to the token endpoint
  DefaultLifetime,
  RequireDPoP, RequireNonce,
  MaxTokens, MaxTime, MaxNonces  \* bounds: tokens, the clock, nonces

None == "none"

Details == [at : ResourceServers, pair : Omega]
Principals == {Principal[a] : a \in DOMAIN Principal}

Grant ==
  [client : Clients, audience : ResourceServers, scope : SUBSET Scopes,
   details : SUBSET Details, lifetime : Nat]

Request ==
  [client : Ids, authentic : BOOLEAN,
   actor : Ids, signer : Ids, assertionExp : Nat,
   details : SUBSET [at : ResourceServers, pair : Omega], wellFormed : BOOLEAN,
   resource : ResourceServers,
   asksScope : BOOLEAN, scope : SUBSET Scopes,
   asksLifetime : BOOLEAN, lifetime : Int,
   key : Keys \cup {None}, nonce : Nat, proves : BOOLEAN]

ASSUME ExchangeAssumption ==
  /\ Clients \subseteq Ids
  /\ DOMAIN Principal \subseteq Ids
  /\ None \notin Principals /\ None \notin Keys
  /\ DOMAIN DelegationPolicy \subseteq Principals
  /\ \A p \in DOMAIN DelegationPolicy : DelegationPolicy[p] \in Principals
  /\ Phase1 \in Seq(Grant)
  /\ Requests \subseteq Request
  /\ DefaultLifetime \in Nat \ {0}
  /\ RequireDPoP \in BOOLEAN /\ RequireNonce \in BOOLEAN
  /\ MaxTokens \in Nat /\ MaxTime \in Nat /\ MaxNonces \in Nat

VARIABLES
  tokens,   \* every access token issued, in order
  nonces,   \* how many nonces NonceStore has issued; nonce n is the n-th
  now,      \* the server's clock
  turned    \* history: the requests answered use_dpop_nonce

vars == <<tokens, nonces, now, turned>>

Token ==
  [client : Ids, aud : ResourceServers, exp : Nat, scope : SUBSET Scopes,
   details : SUBSET Details,
   actors : Seq(Ids),                  \* `act`, the current actor first
   mayAct : Principals \cup {None},
   cnf : Keys \cup {None},
   parent : Nat, ancestors : SUBSET Nat]

TypeOK ==
  /\ tokens \in Seq(Token)
  /\ nonces \in Nat
  /\ now \in Nat
  /\ turned \subseteq [req : Requests, of : Nat, nonce : Nat]

-----------------------------------------------------------------------------
(* The pieces of an exchange.  A request that is not well formed is one    *)
(* that does not parse, repeats a parameter or a target, or asks for       *)
(* details outside the profile or Omega.                                   *)

MayActOf(principal) ==
  IF principal \in DOMAIN DelegationPolicy THEN DelegationPolicy[principal] ELSE None

FilterToAudience(details, audience) == {d \in details : d.at = audience}

(* Seeded fault: every location of the grant goes into the base token. *)
InitialUnfiltered(grant) ==
  [client |-> grant.client, aud |-> grant.audience,
   exp |-> IF grant.lifetime = 0 THEN DefaultLifetime ELSE grant.lifetime,
   scope |-> grant.scope, details |-> grant.details, actors |-> <<>>,
   mayAct |-> IF grant.client \in DOMAIN Principal THEN MayActOf(Principal[grant.client]) ELSE None,
   cnf |-> None, parent |-> 0, ancestors |-> {}]

(* issue_initial at start-up.  A lifetime of 0 is the default's. *)
Initial(grant) ==
  [client |-> grant.client, aud |-> grant.audience,
   exp |-> IF grant.lifetime = 0 THEN DefaultLifetime ELSE grant.lifetime,
   scope |-> grant.scope, details |-> FilterToAudience(grant.details, grant.audience),
   actors |-> <<>>,
   mayAct |-> IF grant.client \in DOMAIN Principal THEN MayActOf(Principal[grant.client]) ELSE None,
   cnf |-> None, parent |-> 0, ancestors |-> {}]

Init ==
  /\ tokens = [i \in 1 .. Len(Phase1) |-> Initial(Phase1[i])]
  /\ nonces = 0
  /\ now = 0
  /\ turned = {}

(* Seeded fault: the holder is whoever the token was minted for. *)
CurrentActorIsClient(t) == t.client

(* The outermost act.sub, or client_id at hop 0. *)
CurrentActor(t) == IF t.actors = <<>> THEN t.client ELSE Head(t.actors)

Authenticated(r) == r.authentic /\ r.client \in Clients

SubjectVerifies(t) == now < t.exp

(* The delegating client is the subject token's current holder. *)
HolderDelegates(r, t) ==
  /\ r.client \in DOMAIN Principal
  /\ CurrentActor(t) \in DOMAIN Principal
  /\ Principal[CurrentActor(t)] = Principal[r.client]

(* The actor's key is found under the unverified subject, then verifies it. *)
ActorVerifies(r) ==
  /\ r.actor \in DOMAIN Principal
  /\ r.signer = r.actor /\ now < r.assertionExp

MayAct(r, t) == t.mayAct # None /\ t.mayAct = Principal[r.actor]

GrantedScope(r, t) == IF r.asksScope THEN r.scope ELSE t.scope

Contained(r, t) ==
  /\ r.wellFormed /\ r.details # {}
  /\ r.details \subseteq t.details
  /\ r.resource = t.aud
  /\ GrantedScope(r, t) \subseteq t.scope

Lesser(a, b) == IF a <= b THEN a ELSE b

(* Seeded fault: the default lifetime is not capped by the subject token's. *)
ExpiresUncapped(r, t) == IF r.asksLifetime THEN now + r.lifetime ELSE now + DefaultLifetime

ExpiresAt(r, t) ==
  IF r.asksLifetime THEN now + r.lifetime ELSE Lesser(now + DefaultLifetime, t.exp)

(* Asking for too long is an error, never clamped; so is leaving nothing. *)
LifetimeGranted(r, t) ==
  /\ r.asksLifetime => ExpiresAt(r, t) <= t.exp
  /\ ExpiresAt(r, t) > now

(* All the checks ahead of the DPoP step. *)
Acceptable(r, t) ==
  /\ Authenticated(r) /\ SubjectVerifies(t)
  /\ HolderDelegates(r, t) /\ ActorVerifies(r) /\ MayAct(r, t)
  /\ Contained(r, t) /\ LifetimeGranted(r, t)

Bound(r) == RequireDPoP \/ r.key # None

(* Seeded fault: the nonces rotate, and the last one issued alone is good. *)
NonceMissingRotating(r) ==
  /\ r.key # None
  /\ RequireNonce /\ (r.nonce = 0 \/ r.nonce # nonces)

NonceMissing(r) ==
  /\ r.key # None
  /\ RequireNonce /\ r.nonce \notin 1 .. nonces

ProofVerifies(r) == Bound(r) => r.key # None /\ r.proves /\ ~NonceMissing(r)

Granted(r, i) ==
  LET t == tokens[i]
  IN  [client |-> r.client, aud |-> r.resource, exp |-> ExpiresAt(r, t),
       scope |-> GrantedScope(r, t),
       details |-> FilterToAudience(r.details, r.resource),
       actors |-> <<r.actor>> \o t.actors,
       mayAct |-> MayActOf(Principal[r.actor]),
       cnf |-> r.key,
       parent |-> i, ancestors |-> {i} \cup t.ancestors]

-----------------------------------------------------------------------------
Exchange(r, i) ==
  /\ Acceptable(r, tokens[i]) /\ ProofVerifies(r)
  /\ Len(tokens) < MaxTokens
  /\ tokens' = Append(tokens, Granted(r, i))
  /\ UNCHANGED <<nonces, now, turned>>

(* use_dpop_nonce: the one refusal that leaves something behind. *)
DemandNonce(r, i) ==
  /\ Acceptable(r, tokens[i]) /\ NonceMissing(r)
  /\ nonces < MaxNonces
  /\ nonces' = nonces + 1
  /\ turned' = turned \cup {[req |-> r, of |-> i, nonce |-> nonces + 1]}
  /\ UNCHANGED <<tokens, now>>

(* Every other refusal: an error response, and no token. *)
Refuse(r, i) ==
  /\ ~Acceptable(r, tokens[i]) \/ (~NonceMissing(r) /\ ~ProofVerifies(r))
  /\ UNCHANGED vars

Tick ==
  /\ now < MaxTime
  /\ now' = now + 1
  /\ UNCHANGED <<tokens, nonces, turned>>

Next ==
  \/ \E r \in Requests, i \in DOMAIN tokens :
       Exchange(r, i) \/ DemandNonce(r, i) \/ Refuse(r, i)
  \/ Tick

Spec == Init /\ [][Next]_vars

-----------------------------------------------------------------------------
(* What the boundary of resource server rs makes of a presented token      *)
(* (src/sut/authz/boundary.py): audience, expiry, and one element in both  *)
(* the capability plane and the scope plane.                               *)
BoundaryAdmits(t, rs, pair, scope, at) ==
  /\ t.aud = rs /\ at < t.exp
  /\ [at |-> rs, pair |-> pair] \in t.details
  /\ scope \in t.scope

(* The independent verifier's recomputation of the same token over Omega   *)
(* (harness/verifier/matched_authority.py): verify it, or there is nothing *)
(* to recompute, then ask it about one element at a time.                  *)
VerifiesFor(t, rs, at) == t.aud = rs /\ at < t.exp

TokenAdmits(t, rs, scope, pair) ==
  /\ scope \in t.scope
  /\ \E d \in t.details : d.at = rs /\ d.pair = pair

TokenAllowed(t, rs, scope, at) ==
  {pair \in Omega : VerifiesFor(t, rs, at) /\ TokenAdmits(t, rs, scope, pair)}

-----------------------------------------------------------------------------
(* Properties.                                                             *)

(* Over any number of hops, by any clients, at any instants: whatever a    *)
(* boundary admits under a token, the independent verifier finds allowed   *)
(* at that instant by the token itself and by every token it was derived   *)
(* from -- capability, audience, scope and expiry planes together          *)
(* (exchange step 7, boundary.admits, gate G-13).                          *)
NoAuthorityBeyondAnyAncestor ==
  \A i \in DOMAIN tokens : \A j \in {i} \cup tokens[i].ancestors :
    \A rs \in ResourceServers, pair \in Omega, scope \in Scopes, at \in 0 .. MaxTime + DefaultLifetime :
      BoundaryAdmits(tokens[i], rs, pair, scope, at) => pair \in TokenAllowed(tokens[j], rs, scope, at)

(* Who handed the token to whom: the base token's client, then the actors. *)
Holders(t) ==
  LET root == IF t.parent = 0 THEN t
              ELSE tokens[CHOOSE j \in t.ancestors : tokens[j].parent = 0]
      n == Len(t.actors)
  IN  [k \in 1 .. n + 1 |-> IF k = 1 THEN root.client ELSE t.actors[n + 2 - k]]

(* The chain in `act` is the delegation that took place, and every hop of  *)
(* it is one the policy permits from the holder at that hop and the holder *)
(* asked for -- though no exchange looks beyond the outermost actor (steps *)
(* 4 and 5, nest_actor).                                                   *)
ChainFollowsPolicy ==
  \A i \in DOMAIN tokens :
    LET chain == Holders(tokens[i])
    IN  \A k \in 1 .. Len(chain) - 1 :
          /\ {chain[k], chain[k + 1]} \subseteq DOMAIN Principal
          /\ MayActOf(Principal[chain[k]]) = Principal[chain[k + 1]]
          /\ k = Len(chain) - 1 => Principal[tokens[i].client] = Principal[chain[k]]

(* smoke/g4/DESIGN.md 5.3: "The AS never silently narrows a widening       *)
(* request to the intersection".  What is issued is exactly what was asked *)
(* for, although the details are filtered to the audience on the way out.  *)
NeverClamped ==
  [][tokens' # tokens =>
       LET t == tokens'[Len(tokens')]
       IN  \A r \in Requests : Exchange(r, t.parent) =>
             /\ t.details = r.details
             /\ r.asksScope => t.scope = r.scope
             /\ r.asksLifetime => t.exp = now + r.lifetime]_vars

(* What time alone can take from a request: the token it presents or the   *)
(* actor's assertion has run out, or the lifetime it asks for no longer    *)
(* fits in the token's.                                                    *)
Lapsed(r, t) ==
  \/ now >= t.exp \/ now >= r.assertionExp
  \/ r.asksLifetime /\ now + r.lifetime > t.exp

(* Test A6 of gate G-4, "retry with the nonce succeeds", for a retry that  *)
(* comes at any later instant, after any number of exchanges and of nonces *)
(* handed to others: it passes every check again, and what refuses it is   *)
(* its own proof or a lapse, never another client's nonce.                 *)
NonceRetryLosesToTimeAlone ==
  \A d \in turned :
    LET r == [d.req EXCEPT !.nonce = d.nonce]
        t == tokens[d.of]
    IN  Acceptable(r, t) /\ ProofVerifies(r) <=> r.proves /\ ~Lapsed(r, t)

=============================================================================
