-------------------------- MODULE CapabilityChain --------------------------
(***************************************************************************)
(* The capability arms: the issuer mints an authority block, the Supervisor *)
(* appends an attenuation and hands it to the Specialist with a holder     *)
(* transfer (HTC), the Specialist signs an invocation (INV), and the       *)
(* boundary decides over the ten conjuncts (CapabilityDecisionPath).       *)
(*                                                                         *)
(* Between present and decide anything may happen to what is staged: the   *)
(* harness injects a credential fault, a gate reseals or re-stages a piece, *)
(* an older presentation is decided again.  The independent verifier       *)
(* (harness/verifier/holder_binding.py) reads the same presentation.       *)
(*                                                                         *)
(* Cryptography is symbolic.  A key, its kid and the principal registered  *)
(* with it are one value (the registry refuses two of one).  P_(n-1) of    *)
(* the d-th delegation is the token <<d, n>>, and also its last block's    *)
(* id, which the fresh keys of every append make unique; <<-d, n>> is the  *)
(* same grant minted under a root that is not kappa.  `by` is the key that *)
(* really signed.  A task stands for a (task, audience) pair: the code     *)
(* binds and compares the two side by side.                                *)
(***************************************************************************)
EXTENDS Freshness, Sequences, FiniteSets

CONSTANTS
  Kappa, Supervisor, Specialist,   \* the capability root and the two holders
  Bystanders,      \* other principals of the registry
  Strangers,       \* keys of no principal
  Tasks, Omega,    \* (task, audience) pairs; the frozen ontology
  Hops,            \* HopContexts: task, authority, appended, lifetime
  Calls,           \* (tool, arguments) pairs
  Required,        \* Required[call]: the element of Omega it needs, or Malformed
  PolicyRefuses,   \* PolicyRefuses[call]: the policy conjunct against it, or None
  TokenGrants,     \* what the arm's access token admits within its scope
  Actor,           \* the principal its act or client_id claim names
  TokenExpiry,     \* its exp
  HopMargin,       \* HTC_1 expires this much before HTC_0
  InvLifetime,     \* the INV's validity
  Arms,            \* [enabled, disabled]: a bitmask's conjuncts, an ablation's
  Nothing,         \* no presentation, no assertion, no verdict
  Presented,       \* bound: the calls the session presents
  MaxTime, MaxDelegations, MaxEdits   \* bounds

None == "none"
Malformed == "malformed"

CONJUNCT_ORDER ==
  <<"crypto_chain_ok", "authorizer_policy_ok", "htc_chain_ok", "holder_proof_ok",
    "invocation_binding_ok", "containment_ok", "context_policy_ok",
    "approval_artifact_ok", "oauth_resource_authorization_ok",
    "identity_plane_consistency_ok">>

Conjuncts == {CONJUNCT_ORDER[i] : i \in DOMAIN CONJUNCT_ORDER}
Admitted == "b3_admitted"

Registered == {Supervisor, Specialist} \cup Bystanders
Foreign    == {Specialist} \cup Bystanders \cup Strangers   \* who reseals
Keys       == {Kappa} \cup Registered \cup Strangers

(* What loading and binding the registry refuse: a kid or a key that the root
   and a principal, or two principals, share. *)
OnePrincipalPerKey ==
  /\ Supervisor # Specialist
  /\ {Kappa, Supervisor, Specialist} \cap Bystanders = {}
  /\ Kappa \notin Registered
  /\ Strangers \cap ({Kappa} \cup Registered) = {}

(* A fault takes its key from the registry or from outside it. *)
ASSUME RegistryAssumption ==
  OnePrincipalPerKey /\ Bystanders # {} /\ Strangers # {}

(* The bitmask of B-cap; B3's selects every conjunct. *)
BearerConjuncts ==
  {"crypto_chain_ok", "authorizer_policy_ok", "containment_ok",
   "oauth_resource_authorization_ok"}

(* An ablation is B3 without exactly one conjunct. *)
ASSUME ArmsAssumption ==
  \A a \in Arms :
    /\ a \in [enabled : {BearerConjuncts, Conjuncts}, disabled : SUBSET Conjuncts]
    /\ a.disabled # {} => a.enabled = Conjuncts /\ \E c \in Conjuncts : a.disabled = {c}

ASSUME SessionAssumption ==
  /\ \A hop \in Hops : /\ hop.task \in Tasks /\ hop.lifetime \in Nat
                       /\ hop.authority \subseteq Omega /\ hop.appended \subseteq Omega
  /\ Presented \subseteq Calls
  /\ HopMargin \in Nat /\ InvLifetime \in Nat
  /\ MaxTime \in Nat /\ MaxDelegations \in Nat /\ MaxEdits \in Nat \ {0}

TokenFaults  == {"invalid_credential", "unauthenticated_caller", "audience_mismatch"}
HolderFaults == {"wrong_registered_holder", "stolen_AT_key_substitution"}
OwnToken  == "own"
Respelled == "respelled"   \* its signature in another spelling of the same bytes
Tokens    == {OwnToken, Respelled} \cup TokenFaults   \* a replacement bears its fault's name

VARIABLES
  arm,          \* the arm under test
  now,          \* the clock of the run
  delegations,  \* the arm's delegate() calls, as what each signed
  staged,       \* what the boundary will decide over
  fault,        \* the credential fault injected since present
  honest,       \* history: what was staged before the fault
  edits,        \* how many pieces were re-staged since
  verdict       \* what it decides on that, call by call

vars == <<arm, now, delegations, staged, honest, fault, edits, verdict>>

Instants == 0 .. MaxTime

-----------------------------------------------------------------------------
(* What the signer issues. *)

(* Seeded fault (TypeOK): the proof behind the blocks counted as one of them. *)
BlockIdsAndProof(token) == [j \in 1 .. token[2] + 1 |-> <<token[1], j>>]

BlockIds(token) == [j \in 1 .. token[2] |-> <<token[1], j>>]
CommitPrefix(ids, upto) == SubSeq(ids, 1, upto)
ParentIndex(i) == IF i = 1 THEN 1 ELSE i - 1   \* max(index - 1, 0), from one

HolderAt(n) == IF n = 1 THEN Supervisor ELSE Specialist

Htc(d, i) ==
  LET g == delegations[d]
      signer == IF i = 1 THEN Kappa ELSE Supervisor
  IN  [by |-> signer, kid |-> signer, signer |-> signer, next |-> HolderAt(i),
       prefix |-> CommitPrefix(BlockIds(<<d, i>>), ParentIndex(i)), child |-> <<d, i>>,
       task |-> g.task, nbf |-> g.iat, depth |-> i - 1,
       exp |-> IF i = 1 THEN g.exp ELSE g.exp - HopMargin]

Chain(d, n)  == [i \in 1 .. n |-> Htc(d, i)]
Prefixes(d, n) == [i \in 1 .. n |-> <<d, i>>]

Inv(d, call, task) ==
  [by |-> Specialist, kid |-> Specialist, capability |-> BlockIds(<<d, 2>>), token |-> OwnToken,
   call |-> call, task |-> task, iat |-> now, nbf |-> now, exp |-> now + InvLifetime]

(* B-cap carries no HTC chain and signs no INV. *)
Bearer == "htc_chain_ok" \notin arm.enabled

Presentation(d, call, task) ==
  [hops |-> Prefixes(d, 2), htc |-> IF Bearer THEN <<>> ELSE Chain(d, 2),
   inv |-> IF Bearer THEN Nothing ELSE Inv(d, call, task),
   token |-> OwnToken, task |-> task, now |-> now]

-----------------------------------------------------------------------------
(* The boundary's reading: each conjunct of a presentation p and a call, for
   an arm that runs the conjuncts `running`.  Later conjuncts read what earlier
   ones verified. *)

Last(seq) == seq[Len(seq)]
Terminal(p) == BlockIds(Last(p.hops))

UnderKappa(token) == token[1] > 0

(* Allowed(P; Gamma, kappa, Omega): Gamma's expiry, audience and task checks,
   the rights of block 0, and the check of each attenuation block.  Under another
   root the library raises, which is no admission either. *)
Allowed(token, p) ==
  LET g == delegations[token[1]]
  IN  {e \in Omega : /\ UnderKappa(token)
                     /\ p.now <= g.exp /\ p.task = g.task
                     /\ e \in g.authority
                     /\ token[2] = 2 => e \in g.appended}

CryptoChainOk(p) ==
  /\ p.hops # <<>>
  /\ \A i \in DOMAIN p.hops : UnderKappa(p.hops[i])
  /\ \A i \in DOMAIN p.hops :
       /\ Len(BlockIds(p.hops[i])) = i
       /\ i > 1 => CommitPrefix(BlockIds(p.hops[i]), i - 1) = BlockIds(p.hops[i - 1])

AuthorizerPolicyOk(p, call) ==
  Required[call] # Malformed /\ Allowed(p.hops[1], p) # {}

(* Seeded fault (TwoReadingsAgree): the expiry along the chain not compared. *)
LinkedAnyExpiry(htc, i) ==
  IF i = 1
  THEN htc[i].kid = Kappa /\ htc[i].signer = Kappa
  ELSE /\ htc[i].signer = htc[i - 1].next
       /\ htc[i].kid \in Registered /\ htc[i].kid = htc[i].signer
       /\ htc[i].next \in Registered
       /\ htc[i].task = htc[i - 1].task

Linked(htc, i) ==
  IF i = 1
  THEN htc[i].kid = Kappa /\ htc[i].signer = Kappa
  ELSE /\ htc[i].signer = htc[i - 1].next
       /\ htc[i].kid \in Registered /\ htc[i].kid = htc[i].signer
       /\ htc[i].next \in Registered
       /\ htc[i].task = htc[i - 1].task
       /\ htc[i].exp <= htc[i - 1].exp

Covers(h, i, ids) ==
  h.prefix = CommitPrefix(ids, ParentIndex(i)) /\ h.child = ids[i]

HtcChainOk(p, running) ==
  /\ "crypto_chain_ok" \in running
  /\ p.htc # <<>> /\ Len(p.htc) = Len(Terminal(p))
  /\ \A i \in DOMAIN p.htc :
       LET h == p.htc[i]
       IN  /\ Linked(p.htc, i)
           /\ h.by = h.signer
           /\ h.depth = i - 1
           /\ h.nbf <= p.now /\ p.now <= h.exp
           /\ Covers(h, i, Terminal(p))

(* Seeded fault (AdmittedWasDelegated): the kid believed, the signature not. *)
HolderProofByKid(p, running) ==
  /\ p.inv # Nothing
  /\ "htc_chain_ok" \in running
  /\ Last(p.htc).next \in Registered
  /\ p.inv.kid = Last(p.htc).next

HolderProofOk(p, running) ==
  /\ p.inv # Nothing
  /\ "htc_chain_ok" \in running
  /\ Last(p.htc).next \in Registered
  /\ p.inv.kid = Last(p.htc).next
  /\ p.inv.by = Last(p.htc).next

(* Seeded fault (AblationIsMatched): the INV only parsed by holder_proof_ok. *)
InvocationBindingOfHolder(p, call, running) ==
  /\ p.inv # Nothing
  /\ "holder_proof_ok" \in running
  /\ p.inv.capability = Terminal(p)
  /\ p.inv.token = p.token
  /\ p.inv.call = call
  /\ p.inv.task = p.task
  /\ p.inv.nbf <= p.now /\ p.now <= p.inv.exp
  /\ IsFresh(p.now, p.inv.iat)

InvocationBindingOk(p, call, running) ==
  /\ p.inv # Nothing
  /\ "crypto_chain_ok" \in running => p.inv.capability = Terminal(p)
  /\ p.inv.token = p.token
  /\ p.inv.call = call
  /\ p.inv.task = p.task
  /\ p.inv.nbf <= p.now /\ p.now <= p.inv.exp
  /\ IsFresh(p.now, p.inv.iat)

ContainmentOk(p, call) == Required[call] \in Allowed(Last(p.hops), p)

OAuthOk(p, call) ==
  p.token \in {OwnToken, Respelled} /\ p.now < TokenExpiry /\ Required[call] \in TokenGrants

(* The holder is the verified one if htc_chain_ok ran, else the one named. *)
IdentityPlaneOk(p, running) ==
  /\ "oauth_resource_authorization_ok" \in running
  /\ p.htc # <<>>
  /\ Actor \in Registered
  /\ Actor = Last(p.htc).next

Passes(c, p, call, running) ==
  CASE c = "crypto_chain_ok"                 -> CryptoChainOk(p)
    [] c = "authorizer_policy_ok"            -> AuthorizerPolicyOk(p, call)
    [] c = "htc_chain_ok"                    -> HtcChainOk(p, running)
    [] c = "holder_proof_ok"                 -> HolderProofOk(p, running)
    [] c = "invocation_binding_ok"           -> InvocationBindingOk(p, call, running)
    [] c = "containment_ok"                  -> ContainmentOk(p, call)
    [] c = "context_policy_ok"               -> PolicyRefuses[call] # "context_policy_ok"
    [] c = "approval_artifact_ok"            -> PolicyRefuses[call] # "approval_artifact_ok"
    [] c = "oauth_resource_authorization_ok" -> OAuthOk(p, call)
    [] c = "identity_plane_consistency_ok"   -> IdentityPlaneOk(p, running)

(* Stopping at the first refusal decides the reason, not the verdict: a
   conjunct is only ever reached when those before it have passed. *)
Stops(i, p, call, running) ==
  CONJUNCT_ORDER[i] \in running /\ ~Passes(CONJUNCT_ORDER[i], p, call, running)

Admits(p, call, running) == \A i \in DOMAIN CONJUNCT_ORDER : ~Stops(i, p, call, running)

Reason(p, call, running) ==
  IF Admits(p, call, running)
  THEN Admitted
  ELSE CONJUNCT_ORDER[CHOOSE i \in DOMAIN CONJUNCT_ORDER :
         /\ Stops(i, p, call, running)
         /\ \A j \in 1 .. i - 1 : ~Stops(j, p, call, running)]

Running == arm.enabled \ arm.disabled

-----------------------------------------------------------------------------
(* The independent verifier's reading of the same evidence. *)

VerifiedHop(p, i) ==
  LET h == p.htc[i]
  IN  /\ IF i = 1
         THEN h.kid = Kappa /\ h.signer = Kappa /\ h.by = Kappa
         ELSE /\ h.kid \in Registered /\ h.kid = h.signer
              /\ h.next \in Registered
              /\ h.signer = p.htc[i - 1].next
              /\ h.by = h.signer
              /\ h.task = p.htc[i - 1].task
              /\ h.exp <= p.htc[i - 1].exp
      /\ h.depth = i - 1
      /\ h.nbf <= p.now /\ p.now <= h.exp
      /\ h.prefix = CommitPrefix(Terminal(p), ParentIndex(i))
      /\ h.child = Terminal(p)[i]

(* verify: the whole chain, link by link, then the invocation under it. *)
VerifiedInvocation(p, call) ==
  /\ p.inv # Nothing
  /\ LET last == Last(p.htc)
     IN  /\ last.next \in Registered /\ p.inv.kid = last.next
         /\ p.inv.by = last.next
         /\ p.inv.task = last.task /\ p.inv.task = p.task
  /\ p.inv.capability = Terminal(p)
  /\ p.inv.token = p.token
  /\ p.inv.call = call
  /\ p.inv.nbf <= p.now /\ p.now <= p.inv.exp

Verified(p, call) ==
  /\ UnderKappa(Last(p.hops))
  /\ p.htc # <<>> /\ Len(p.htc) = Len(Terminal(p))
  /\ \A i \in DOMAIN p.htc : VerifiedHop(p, i)
  /\ VerifiedInvocation(p, call)

(* The harness's own Allowed(P_n; Gamma, kappa, Omega), one authorizer run per
   candidate, and the chain of prefixes it is computed over. *)
HarnessChain(p) ==
  /\ p.hops # <<>>
  /\ \A n \in DOMAIN p.hops :
       LET ids == BlockIds(p.hops[n])
           previous == IF n = 1 THEN <<>> ELSE BlockIds(p.hops[n - 1])
       IN  UnderKappa(p.hops[n]) /\ Len(ids) = n /\ SubSeq(ids, 1, Len(previous)) = previous

(* One run: block 0's checks and rights, then the check every block appends. *)
AuthorizeCandidate(token, e, p) ==
  LET g == delegations[token[1]]
      checks == [j \in 1 .. token[2] |-> IF j = 1 THEN g.authority ELSE g.appended]
  IN  /\ UnderKappa(token)
      /\ p.now <= g.exp /\ p.task = g.task
      /\ \A j \in DOMAIN checks : e \in checks[j]

AllowedPerHop(p) ==
  [n \in DOMAIN p.hops |-> {e \in Omega : AuthorizeCandidate(p.hops[n], e, p)}]

-----------------------------------------------------------------------------
Init ==
  /\ arm \in Arms
  /\ now = 0
  /\ delegations = <<>>
  /\ staged = Nothing
  /\ honest = Nothing
  /\ fault = None
  /\ edits = 0
  /\ verdict = Nothing

(* Bound: the clock and the session stand still while a presentation is worked
   on.  Neither reads an edit, so either could as well have come before it. *)
Untouched == edits = 0 /\ fault = None

Tick ==
  /\ Untouched
  /\ now < MaxTime
  /\ now' = now + 1
  /\ verdict' = Nothing
  /\ UNCHANGED <<arm, delegations, staged, honest, fault, edits>>

Delegate(hop) ==
  /\ Untouched
  /\ Len(delegations) < MaxDelegations
  /\ delegations' = Append(delegations,
       [task |-> hop.task, authority |-> hop.authority, appended |-> hop.appended,
        iat |-> now, exp |-> now + hop.lifetime])
  /\ verdict' = Nothing
  /\ UNCHANGED <<arm, now, staged, honest, fault, edits>>

(* The session presents its latest credentials, for whatever task it is told. *)
Present(call, task) ==
  /\ delegations # <<>>
  /\ staged' = Presentation(Len(delegations), call, task)
  /\ honest' = Nothing
  /\ fault' = None
  /\ edits' = 0
  /\ verdict' = Nothing
  /\ UNCHANGED <<arm, now, delegations>>

(* What a fault puts in the token's place.  The last character of a signature is
   mostly padding: its replacement breaks the signature or only respells it. *)
Replacements(f) == IF f = "invalid_credential" THEN {f, Respelled} ELSE {f}

(* Seeded fault (FaultIsAttributed): the token swapped without rebinding. *)
FaultedUnbound(f, t, p) ==
  IF f \in TokenFaults THEN [p EXCEPT !.token = t] ELSE p

(* A swapped token is rebound in the INV under the arm's own key, so that the
   binding is not what fails; a swapped key re-signs the INV unchanged. *)
Faulted(f, t, p) ==
  IF f \in TokenFaults
  THEN [p EXCEPT !.token = t,
                 !.inv = IF p.inv = Nothing THEN Nothing
                         ELSE [p.inv EXCEPT !.token = t, !.by = Specialist]]
  ELSE [p EXCEPT !.inv = IF p.inv = Nothing THEN Nothing
                         ELSE [p.inv EXCEPT !.by =
                                 IF f = "wrong_registered_holder"
                                 THEN CHOOSE k \in Bystanders : TRUE
                                 ELSE CHOOSE k \in Strangers : TRUE]]

InjectFault(f) ==
  /\ staged # Nothing
  /\ Untouched
  /\ \E t \in Replacements(f) : staged' = Faulted(f, t, staged)
  /\ honest' = staged
  /\ fault' = f
  /\ verdict' = Nothing
  /\ UNCHANGED <<arm, now, delegations, edits>>

(* Re-staging one piece.  Bound: MaxEdits of them, of an ablation only one, and
   only the INV is signed anew over what has been re-staged before. *)
EditBound == IF arm.disabled = {} THEN MaxEdits ELSE 1

Restage(p) ==
  /\ edits < EditBound
  /\ staged' = p
  /\ edits' = edits + 1
  /\ verdict' = Nothing
  /\ UNCHANGED <<arm, now, delegations, honest, fault>>

(* Another capability, or one prefix of this one replaced; anyone can mint one of
   the same grant under a root of their own. *)
RestageHops(d, n) ==
  /\ staged # Nothing /\ Untouched
  /\ \E e \in {d, -d} :
       \E hops \in {Prefixes(e, n)} \cup {[staged.hops EXCEPT ![i] = <<e, n>>] : i \in 1 .. 2} :
         Restage([staged EXCEPT !.hops = hops])

RestageHtc(d, n) ==
  staged # Nothing /\ Untouched /\ Restage([staged EXCEPT !.htc = Chain(d, n)])

RestageChain(d, n) ==
  /\ staged # Nothing /\ Untouched
  /\ Restage([staged EXCEPT !.hops = Prefixes(d, n), !.htc = Chain(d, n)])

ResealHtc(i, k) ==
  /\ staged # Nothing /\ Untouched
  /\ i \in DOMAIN staged.htc
  /\ \E h \in {[staged.htc[i] EXCEPT !.by = k],
               [staged.htc[i] EXCEPT !.by = k, !.kid = k, !.signer = k],
               [staged.htc[i] EXCEPT !.by = k, !.next = k]} :
       Restage([staged EXCEPT !.htc[i] = h])

(* The Supervisor's own hop, with one field off. *)
MisissueHtc ==
  /\ staged # Nothing /\ Untouched
  /\ Len(staged.htc) = 2 /\ staged.htc[2].by = Supervisor
  /\ \E h \in {[staged.htc[2] EXCEPT !.depth = @ + 1],
               [staged.htc[2] EXCEPT !.prefix = <<>>],
               [staged.htc[2] EXCEPT !.exp = @ + HopMargin + 1]} :
       Restage([staged EXCEPT !.htc[2] = h])

(* Someone's own INV over what is staged; HolderFaults only swap the signature. *)
ResealInv(k) ==
  /\ staged # Nothing /\ fault = None
  /\ staged.inv # Nothing
  /\ Restage([staged EXCEPT !.inv.by = k, !.inv.kid = k, !.inv.capability = Terminal(staged)])

(* A captured presentation, sent again later. *)
Resubmit ==
  staged # Nothing /\ Untouched /\ staged.now # now /\ Restage([staged EXCEPT !.now = now])

(* Deciding leaves no trace, so what is staged is decided for every call the
   gate may make of it at once. *)
Decide ==
  /\ staged # Nothing
  /\ verdict' = [call \in Calls |-> Reason(staged, call, Running)]
  /\ UNCHANGED <<arm, now, delegations, staged, honest, fault, edits>>

Next ==
  \/ Tick
  \/ \E hop \in Hops : Delegate(hop)
  \/ \E call \in Presented, task \in Tasks : Present(call, task)
  \/ \E f \in TokenFaults \cup HolderFaults : InjectFault(f)
  \/ \E d \in DOMAIN delegations, n \in 1 .. 2 : 
       RestageHops(d, n) \/ RestageHtc(d, n) \/ RestageChain(d, n)
  \/ \E i \in 1 .. 2, k \in Foreign : ResealHtc(i, k)
  \/ MisissueHtc
  \/ \E k \in Foreign : ResealInv(k)
  \/ Resubmit
  \/ Decide

Spec == Init /\ [][Next]_vars

-----------------------------------------------------------------------------
Tokened == ((-MaxDelegations .. MaxDelegations) \ {0}) \X (1 .. 2)
Paths   == Seq(Tokened)

Htcs == [by : Keys, kid : Keys, signer : Keys, next : Keys, prefix : Paths, child : Tokened,
         task : Tasks, nbf : Int, depth : Int, exp : Int]

Invs == [by : Keys, kid : Keys, capability : Paths, token : Tokens, call : Calls, task : Tasks,
         iat : Int, nbf : Int, exp : Int]

ASSUME NothingAssumption == Nothing \notin Invs

Staged == [hops : Paths, htc : Seq(Htcs), inv : Invs \cup {Nothing},
           token : Tokens, task : Tasks, now : Instants]

Grants == [task : Tasks, authority : SUBSET Omega, appended : SUBSET Omega, iat : Int, exp : Int]

TypeOK ==
  /\ arm \in Arms /\ now \in Instants
  /\ delegations \in Seq(Grants) /\ Len(delegations) <= MaxDelegations
  /\ staged \in {Nothing} \cup Staged /\ honest \in {Nothing} \cup Staged
  /\ fault \in {None} \cup TokenFaults \cup HolderFaults
  /\ edits \in 0 .. MaxEdits
  /\ verdict \in [Calls -> Conjuncts \cup {Admitted}] \cup {Nothing}

(* Nothing is undone by what a holder presents: an admitted call lies in every
   block of one delegation under kappa, for this task, that has not run out; and
   by B3 only after it was issued, with an INV for this very call signed by the
   last holder that delegation names, who is the principal of the access token.
   The conjuncts compare ids, keys and digests; no one sees the delegation. *)
Within(d, n, p, call) ==
  LET g == delegations[d]
  IN  /\ p.task = g.task /\ p.now <= g.exp
      /\ Required[call] \in g.authority
      /\ n = 2 => Required[call] \in g.appended

InvokedBy(d, n, p, call) ==
  /\ delegations[d].iat <= p.now
  /\ p.inv.call = call
  /\ p.inv.by = HolderAt(n) /\ Actor = HolderAt(n)

B3Proper == arm.disabled = {} /\ ~Bearer

AdmittedWasDelegated ==
  (arm.disabled = {} /\ verdict # Nothing) =>
     \A call \in {c \in Calls : verdict[c] = Admitted} :
        \E d \in DOMAIN delegations, n \in 1 .. 2 :
           /\ staged.hops = Prefixes(d, n) /\ Within(d, n, staged, call)
           /\ B3Proper => InvokedBy(d, n, staged, call)

(* The boundary and the independent verifiers read one chain.  They compare
   different things (the boundary takes the task from the capability, the
   verifier from the HTCs; only the boundary asks for freshness and looks at
   every prefix) and must still agree on everything that gets staged; and where
   the harness can read a chain of prefixes at all, no prefix allows more than
   the one before it and the last allows exactly what containment admits
   ("Allowed(AT_i) = C_i for every hop", gate G-13). *)
BoundaryBinds(p, call) ==
  \A i \in 1 .. 5 : ~Stops(i, p, call, Running)

TwoReadingsAgree ==
  (B3Proper /\ staged # Nothing) =>
     LET allowed == AllowedPerHop(staged)
     IN  /\ \A call \in Calls :
              BoundaryBinds(staged, call) <=>
                /\ HarnessChain(staged) /\ allowed[1] # {}
                /\ Required[call] # Malformed
                /\ Verified(staged, call)
                /\ IsFresh(staged.now, staged.inv.iat)
         /\ HarnessChain(staged) =>
              /\ \A n \in 2 .. Len(allowed) : allowed[n] \subseteq allowed[n - 1]
              /\ \A call \in Calls :
                   ContainmentOk(staged, call) <=> Required[call] \in allowed[Len(allowed)]

(* A fault on a presentation the arm would have admitted is refused by the
   limb it is aimed at and no other ("the TOKEN stays the only attack
   surface"), or it did not apply and nothing has changed; and a corruption that
   left the signature what it was is admitted like the presentation it came from:
   no binding stands in for the check that did not fail. *)
Target(f) ==
  IF f \in TokenFaults THEN "oauth_resource_authorization_ok" ELSE "holder_proof_ok"

FaultIsAttributed ==
  (fault # None /\ staged # honest) =>
     \A call \in Calls :
        (Admits(honest, call, Running) /\ Target(fault) \in Running) =>
           Reason(staged, call, Running) =
             IF staged.token = Respelled THEN Admitted ELSE Target(fault)

(* A variant without one conjunct admits all that B3 admits, and only what B3
   admits or refuses for that conjunct: a matched leave-one-out.  It cannot be
   one for the conjuncts that leave what a later one reads: there it admits
   nothing, and never more than B3. *)
LeavesToLater ==
  {"crypto_chain_ok", "htc_chain_ok", "oauth_resource_authorization_ok"}

AblationIsMatched ==
  (staged # Nothing /\ arm.disabled # {}) =>
     \A call \in Calls :
        LET full == Reason(staged, call, arm.enabled)
            variant == Admits(staged, call, Running)
        IN  IF arm.disabled \cap LeavesToLater = {}
            THEN /\ full = Admitted => variant
                 /\ variant => full \in {Admitted} \cup arm.disabled
            ELSE ~variant
=============================================================================
