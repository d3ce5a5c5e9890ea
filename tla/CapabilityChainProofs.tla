----------------------- MODULE CapabilityChainProofs -----------------------
(***************************************************************************)
(* Proofs about CapabilityChain, for any registry, ontology, calls, arms   *)
(* and number of delegations.                                              *)
(*                                                                         *)
(* The ten conjuncts compare ids, keys and digests.  What ties them to a   *)
(* delegation is what the invariant says of everything that can be staged: *)
(* an untouched presentation is one the arm sealed (Presents, Injected),   *)
(* each prefix was issued by some delegation or minted under another root  *)
(* (Evident), kappa signed only first HTCs and the Supervisor hands over   *)
(* to the Specialist only (Signed), and                                    *)
(* what was decided still passes (Decided).                                *)
(***************************************************************************)
EXTENDS CapabilityChain, SequenceTheorems, TLAPS

Issued == (DOMAIN delegations) \X (1 .. 2)

(* The prefixes in circulation: those, and their like under other roots. *)
Origins == (DOMAIN delegations) \cup {-d : d \in DOMAIN delegations}
Pieces  == Origins \X (1 .. 2)

-----------------------------------------------------------------------------
(* Prefixes of one delegation. *)

(* A prefix has as many blocks as its number says, all of one delegation. *)
LEMMA BlockIdsFacts ==
  ASSUME NEW d \in Int, NEW m \in 1 .. 2
  PROVE  /\ BlockIds(<<d, m>>) \in Seq({d} \X (1 .. 2))
         /\ Len(BlockIds(<<d, m>>)) = m /\ DOMAIN BlockIds(<<d, m>>) = 1 .. m
         /\ \A j \in 1 .. m : BlockIds(<<d, m>>)[j] = <<d, j>>
<1>1. BlockIds(<<d, m>>) = [j \in 1 .. m |-> <<d, j>>]
  BY DEF BlockIds
<1>2. [j \in 1 .. m |-> <<d, j>>] \in [1 .. m -> {d} \X (1 .. 2)]
  OBVIOUS
<1> QED BY <1>1, <1>2, SeqDef

(* The first n blocks of a prefix are the n-th prefix, none if n is zero. *)
LEMMA PrefixOfPrefix ==
  ASSUME NEW d \in Int, NEW m \in 1 .. 2, NEW n \in 0 .. m
  PROVE  /\ CommitPrefix(BlockIds(<<d, m>>), n) \in Seq({d} \X (1 .. 2))
         /\ Len(CommitPrefix(BlockIds(<<d, m>>), n)) = n
         /\ \A j \in 1 .. n : CommitPrefix(BlockIds(<<d, m>>), n)[j] = <<d, j>>
         /\ n # 0 => CommitPrefix(BlockIds(<<d, m>>), n) = BlockIds(<<d, n>>)
<1> DEFINE ids == BlockIds(<<d, m>>)
           S == {d} \X (1 .. 2)
<1>1. ASSUME NEW j \in 1 .. n PROVE ids[j] \in S /\ ids[j] = <<d, j>>
  <2>1. j \in 1 .. m /\ j \in 1 .. 2
    OBVIOUS
  <2>2. ids[j] = <<d, j>>
    BY <2>1, BlockIdsFacts
  <2>3. <<d, j>> \in S
    BY <2>1
  <2> QED BY <2>2, <2>3
<1>2. /\ SubSeq(ids, 1, n) \in Seq(S)
      /\ Len(SubSeq(ids, 1, n)) = n
      /\ \A i \in 1 .. n : SubSeq(ids, 1, n)[i] = ids[i]
  <2> HIDE DEF ids, S
  <2> QED BY <1>1, SubSeqProperties
<1>3. ASSUME n # 0 PROVE SubSeq(ids, 1, n) = BlockIds(<<d, n>>)
  <2>1. n \in 1 .. 2
    BY <1>3
  <2>2. /\ BlockIds(<<d, n>>) \in Seq(S) /\ Len(BlockIds(<<d, n>>)) = n
        /\ \A j \in 1 .. n : BlockIds(<<d, n>>)[j] = <<d, j>>
    BY <2>1, BlockIdsFacts
  <2> HIDE DEF ids, S
  <2> QED BY <1>1, <1>2, <2>2, SeqEqual
<1> QED BY <1>1, <1>2, <1>3 DEF CommitPrefix

(* The prefixes a delegation hands out. *)
LEMMA PrefixesFacts ==
  ASSUME NEW d, NEW n \in 1 .. 2
  PROVE  /\ Prefixes(d, n) \in Seq({d} \X (1 .. 2)) /\ Len(Prefixes(d, n)) = n
         /\ \A i \in 1 .. n : Prefixes(d, n)[i] = <<d, i>>
<1>1. Prefixes(d, n) \in [1 .. n -> {d} \X (1 .. 2)]
  BY DEF Prefixes
<1> QED BY <1>1, SeqDef DEF Prefixes

-----------------------------------------------------------------------------
(* The order of the conjuncts. *)

(* There are ten, all different. *)
LEMMA OrderFacts ==
  /\ DOMAIN CONJUNCT_ORDER = 1 .. 10
  /\ \A i, j \in 1 .. 10 : CONJUNCT_ORDER[i] = CONJUNCT_ORDER[j] => i = j
  /\ \A i \in 1 .. 10 : CONJUNCT_ORDER[i] \in Conjuncts
  /\ \A c \in Conjuncts : \E i \in 1 .. 10 : c = CONJUNCT_ORDER[i]
  /\ Admitted \notin Conjuncts
<1>1. DOMAIN CONJUNCT_ORDER = 1 .. 10
  BY DEF CONJUNCT_ORDER
<1>2. \A i, j \in 1 .. 10 : CONJUNCT_ORDER[i] = CONJUNCT_ORDER[j] => i = j
  BY DEF CONJUNCT_ORDER
<1>3. \A i \in 1 .. 10 : CONJUNCT_ORDER[i] # Admitted
  BY DEF CONJUNCT_ORDER, Admitted
<1> QED BY <1>1, <1>2, <1>3 DEF Conjuncts

FirstStop(i, p, call, running) ==
  /\ i \in 1 .. 10 /\ Stops(i, p, call, running)
  /\ \A j \in 1 .. i - 1 : ~Stops(j, p, call, running)

(* If anything refuses, something refuses first. *)
LEMMA SomeFirst ==
  ASSUME NEW p, NEW call, NEW running, ~Admits(p, call, running)
  PROVE  \E i \in 1 .. 10 : FirstStop(i, p, call, running)
<1> DEFINE S(i) == Stops(i, p, call, running)
<1>1. PICK n \in 1 .. 10 : S(n)
  BY OrderFacts DEF Admits
<1>2. \E i \in 1 .. 10 : S(i) /\ \A j \in 1 .. i - 1 : ~S(j)
  <2> HIDE DEF S
  <2> SUFFICES ASSUME \A i \in 1 .. 10 : S(i) => \E j \in 1 .. i - 1 : S(j)
               PROVE  FALSE
    OBVIOUS
  <2>1. ~S(1)
    OBVIOUS
  <2>2. ~S(2) BY <2>1
  <2>3. ~S(3) BY <2>1, <2>2
  <2>4. ~S(4) BY <2>1, <2>2, <2>3
  <2>5. ~S(5) BY <2>1, <2>2, <2>3, <2>4
  <2>6. ~S(6) BY <2>1, <2>2, <2>3, <2>4, <2>5
  <2>7. ~S(7) BY <2>1, <2>2, <2>3, <2>4, <2>5, <2>6
  <2>8. ~S(8) BY <2>1, <2>2, <2>3, <2>4, <2>5, <2>6, <2>7
  <2>9. ~S(9) BY <2>1, <2>2, <2>3, <2>4, <2>5, <2>6, <2>7, <2>8
  <2>10. ~S(10) BY <2>1, <2>2, <2>3, <2>4, <2>5, <2>6, <2>7, <2>8, <2>9
  <2> QED BY <1>1, <2>1, <2>2, <2>3, <2>4, <2>5, <2>6, <2>7, <2>8, <2>9, <2>10
<1> QED BY <1>2 DEF FirstStop

(* The reason is the first conjunct that refuses. *)
LEMMA ReasonIsFirst ==
  ASSUME NEW p, NEW call, NEW running, NEW i, FirstStop(i, p, call, running)
  PROVE  Reason(p, call, running) = CONJUNCT_ORDER[i]
<1>1. ~Admits(p, call, running)
  BY OrderFacts DEF FirstStop, Admits
<1>2. ASSUME NEW j \in 1 .. 10, FirstStop(j, p, call, running) PROVE j = i
  <2>1. ~(j < i) BY <1>2 DEF FirstStop
  <2>2. ~(i < j) BY <1>2 DEF FirstStop
  <2> QED BY <2>1, <2>2 DEF FirstStop
<1>3. (CHOOSE j \in 1 .. 10 :
         /\ Stops(j, p, call, running)
         /\ \A k \in 1 .. j - 1 : ~Stops(k, p, call, running)) = i
  BY <1>2 DEF FirstStop
<1> QED BY <1>1, <1>3, OrderFacts DEF Reason

(* What a reason says: nothing refused, or a conjunct that runs did. *)
LEMMA ReasonFacts ==
  ASSUME NEW p, NEW call, NEW running
  PROVE  /\ Reason(p, call, running) \in Conjuncts \cup {Admitted}
         /\ Reason(p, call, running) = Admitted <=> Admits(p, call, running)
         /\ ~Admits(p, call, running) =>
              /\ Reason(p, call, running) \in running
              /\ ~Passes(Reason(p, call, running), p, call, running)
<1>1. CASE Admits(p, call, running)
  BY <1>1 DEF Reason
<1>2. CASE ~Admits(p, call, running)
  <2>1. PICK i \in 1 .. 10 : FirstStop(i, p, call, running)
    BY <1>2, SomeFirst
  <2>2. Reason(p, call, running) = CONJUNCT_ORDER[i]
    BY <2>1, ReasonIsFirst
  <2> QED BY <1>2, <2>1, <2>2, OrderFacts DEF FirstStop, Stops
<1> QED BY <1>1, <1>2

(* All that runs has passed. *)
LEMMA AdmitsFacts ==
  ASSUME NEW p, NEW call, NEW running
  PROVE  Admits(p, call, running) <=>
           \A c \in Conjuncts : c \in running => Passes(c, p, call, running)
BY OrderFacts DEF Admits, Stops

-----------------------------------------------------------------------------
(* Ablations: what a conjunct reads of those that run. *)

(* Without a conjunct that leaves nothing to later ones, the others decide as
   before. *)
LEMMA OthersUnmoved ==
  ASSUME NEW p, NEW call, NEW enabled, NEW disabled,
         disabled \cap LeavesToLater = {}, NEW c \in Conjuncts
  PROVE  Passes(c, p, call, enabled) <=> Passes(c, p, call, enabled \ disabled)
<1>1. \A x \in LeavesToLater : x \in enabled <=> x \in enabled \ disabled
  OBVIOUS
<1>2. /\ HtcChainOk(p, enabled) <=> HtcChainOk(p, enabled \ disabled)
      /\ HolderProofOk(p, enabled) <=> HolderProofOk(p, enabled \ disabled)
      /\ InvocationBindingOk(p, call, enabled) <=> InvocationBindingOk(p, call, enabled \ disabled)
      /\ IdentityPlaneOk(p, enabled) <=> IdentityPlaneOk(p, enabled \ disabled)
  BY <1>1 DEF LeavesToLater, HtcChainOk, HolderProofOk, InvocationBindingOk, IdentityPlaneOk
<1> QED BY <1>2 DEF Passes

(* A variant without one of these three refuses at a conjunct that reads it. *)
LEMMA NothingWithoutThem ==
  ASSUME NEW p, NEW call, NEW c \in LeavesToLater
  PROVE  ~Admits(p, call, Conjuncts \ {c})
<1>1. /\ "htc_chain_ok" \in Conjuncts /\ "holder_proof_ok" \in Conjuncts
      /\ "identity_plane_consistency_ok" \in Conjuncts
  <2>1. /\ CONJUNCT_ORDER[3] = "htc_chain_ok" /\ CONJUNCT_ORDER[4] = "holder_proof_ok"
        /\ CONJUNCT_ORDER[10] = "identity_plane_consistency_ok"
    BY DEF CONJUNCT_ORDER
  <2>2. /\ CONJUNCT_ORDER[3] \in Conjuncts /\ CONJUNCT_ORDER[4] \in Conjuncts
        /\ CONJUNCT_ORDER[10] \in Conjuncts
    BY OrderFacts
  <2> QED BY <2>1, <2>2
<1>2. CASE c = "crypto_chain_ok"
  <2>1. ~Passes("htc_chain_ok", p, call, Conjuncts \ {c})
    BY <1>2 DEF Passes, HtcChainOk
  <2> QED BY <1>1, <1>2, <2>1, AdmitsFacts
<1>3. CASE c = "htc_chain_ok"
  <2>1. ~Passes("holder_proof_ok", p, call, Conjuncts \ {c})
    BY <1>3 DEF Passes, HolderProofOk
  <2> QED BY <1>1, <1>3, <2>1, AdmitsFacts
<1>4. CASE c = "oauth_resource_authorization_ok"
  <2>1. ~Passes("identity_plane_consistency_ok", p, call, Conjuncts \ {c})
    BY <1>4 DEF Passes, IdentityPlaneOk
  <2> QED BY <1>1, <1>4, <2>1, AdmitsFacts
<1> QED BY <1>2, <1>3, <1>4 DEF LeavesToLater

(* The leave-one-out is matched in every state with an arm of the campaign. *)
LEMMA ArmsAreMatched == arm \in Arms => AblationIsMatched
<1> SUFFICES ASSUME arm \in Arms, arm.disabled # {}, NEW call \in Calls
             PROVE  IF arm.disabled \cap LeavesToLater = {}
                    THEN /\ Reason(staged, call, arm.enabled) = Admitted => Admits(staged, call, Running)
                         /\ Admits(staged, call, Running) =>
                              Reason(staged, call, arm.enabled) \in {Admitted} \cup arm.disabled
                    ELSE ~Admits(staged, call, Running)
  BY DEF AblationIsMatched
<1>1. PICK c \in Conjuncts : arm.disabled = {c} /\ arm.enabled = Conjuncts
  BY ArmsAssumption
<1>2. CASE c \in LeavesToLater
  BY <1>1, <1>2, NothingWithoutThem DEF Running
<1>3. CASE c \notin LeavesToLater
  <2>1. \A x \in Conjuncts : Passes(x, staged, call, Conjuncts) <=> Passes(x, staged, call, Conjuncts \ {c})
    <3>1. {c} \cap LeavesToLater = {}
      BY <1>3
    <3> QED BY <3>1, OthersUnmoved
  <2>2. Reason(staged, call, arm.enabled) = Admitted => Admits(staged, call, Running)
    BY <1>1, <2>1, ReasonFacts, AdmitsFacts DEF Running
  <2>3. ASSUME Admits(staged, call, Running), Reason(staged, call, arm.enabled) # Admitted
        PROVE  Reason(staged, call, arm.enabled) = c
    <3>1. /\ Reason(staged, call, Conjuncts) \in Conjuncts
          /\ ~Passes(Reason(staged, call, Conjuncts), staged, call, Conjuncts)
      BY <1>1, <2>3, ReasonFacts
    <3> QED BY <1>1, <2>1, <2>3, <3>1, AdmitsFacts DEF Running
  <2> QED BY <1>1, <1>3, <2>2, <2>3
<1> QED BY <1>2, <1>3

-----------------------------------------------------------------------------
(* The invariant. *)

(* What the arm presents of its d-th delegation, at some instant. *)
SealedInv(d, call, task, at) ==
  [by |-> Specialist, kid |-> Specialist, capability |-> BlockIds(<<d, 2>>), token |-> OwnToken,
   call |-> call, task |-> task, iat |-> at, nbf |-> at, exp |-> at + InvLifetime]

Sealed(d, call, task, at) ==
  [hops |-> Prefixes(d, 2), htc |-> IF Bearer THEN <<>> ELSE Chain(d, 2),
   inv |-> IF Bearer THEN Nothing ELSE SealedInv(d, call, task, at),
   token |-> OwnToken, task |-> task, now |-> at]

IsSealed(p) ==
  \E d \in DOMAIN delegations, call \in Calls, task \in Tasks, at \in Instants :
     p = Sealed(d, call, task, at)

(* One or two prefixes, of whatever root; and every one of them issued. *)
HopsPresented(hops) == hops \in Seq(Pieces) /\ Len(hops) \in 1 .. 2
HopsIssued(hops)    == hops \in Seq(Issued) /\ Len(hops) \in 1 .. 2

(* What bears kappa's or the Supervisor's signature. *)
Signed(htc) ==
  \A i \in DOMAIN htc :
    /\ htc[i].by = Kappa => \E d \in DOMAIN delegations : htc[i] = Htc(d, 1)
    /\ htc[i].by = Supervisor => htc[i].next = Specialist

Presents  == Untouched /\ staged # Nothing => IsSealed(staged)
Injected  == fault # None => /\ IsSealed(honest) /\ honest # Nothing
                             /\ edits = 0
                             /\ \E t \in Replacements(fault) : staged = Faulted(fault, t, honest)
Evident   == staged # Nothing => HopsPresented(staged.hops) /\ Signed(staged.htc)
Decided   == verdict # Nothing =>
               /\ staged # Nothing
               /\ \A call \in Calls : verdict[call] = Admitted => Admits(staged, call, Running)

ChainInv == TypeOK /\ Presents /\ Injected /\ Evident /\ Decided

-----------------------------------------------------------------------------
(* Types of what is issued, presented and faulted. *)

(* Who is not who: the root, the two holders, and whoever a fault signs as. *)
LEMMA KeyFacts ==
  /\ Kappa \in Keys /\ Supervisor \in Keys /\ Specialist \in Keys
  /\ Foreign \subseteq Keys \ {Kappa, Supervisor}
  /\ Kappa # Supervisor /\ Kappa # Specialist /\ Supervisor # Specialist
  /\ Supervisor \in Registered /\ Specialist \in Registered /\ Kappa \notin Registered
  /\ (CHOOSE k \in Bystanders : TRUE) \in Keys \ {Specialist}
  /\ (CHOOSE k \in Strangers : TRUE) \in Keys \ {Specialist}
BY RegistryAssumption DEF OnePrincipalPerKey, Keys, Registered, Foreign

(* What has been issued, and that it lies within the bounds of the types. *)
LEMMA IssuedFacts ==
  ASSUME TypeOK
  PROVE  /\ DOMAIN delegations = 1 .. Len(delegations) /\ Len(delegations) \in 0 .. MaxDelegations
         /\ DOMAIN delegations \subseteq 1 .. MaxDelegations
         /\ Pieces \subseteq Tokened /\ Seq(Pieces) \subseteq Paths
         /\ Issued \subseteq Pieces /\ Seq(Issued) \subseteq Seq(Pieces)
         /\ \A d \in DOMAIN delegations : d \in Nat /\ delegations[d] \in Grants
<1>1. /\ Len(delegations) \in Nat /\ DOMAIN delegations = 1 .. Len(delegations)
      /\ \A d \in DOMAIN delegations : delegations[d] \in Grants
  BY LenProperties, ElementOfSeq DEF TypeOK
<1>2. DOMAIN delegations \subseteq 1 .. MaxDelegations
  BY <1>1, SessionAssumption DEF TypeOK
<1>3. Pieces \subseteq Tokened
  <2>1. Origins \subseteq (-MaxDelegations .. MaxDelegations) \ {0}
    BY <1>2, SessionAssumption DEF Origins
  <2> QED BY <2>1 DEF Pieces, Tokened
<1>4. Seq(Pieces) \subseteq Paths
  BY <1>3, SeqMonotonic DEF Paths
<1>5. Issued \subseteq Pieces
  BY DEF Issued, Pieces, Origins
<1>6. Seq(Issued) \subseteq Seq(Pieces)
  BY <1>5, SeqMonotonic
<1> QED BY <1>1, <1>2, <1>3, <1>4, <1>5, <1>6, SessionAssumption DEF TypeOK

(* The ids of one capability's blocks. *)
LEMMA PathFacts ==
  ASSUME TypeOK, NEW d \in Origins, NEW m \in 1 .. 2
  PROVE  /\ BlockIds(<<d, m>>) \in Paths
         /\ \A n \in 0 .. m : CommitPrefix(BlockIds(<<d, m>>), n) \in Paths
         /\ <<d, m>> \in Tokened /\ <<d, m>> \in Pieces
         /\ HopsPresented(Prefixes(d, m))
<1>1. d \in Int
  BY IssuedFacts DEF Origins
<1>2. {d} \X (1 .. 2) \subseteq Pieces
  BY DEF Pieces
<1>3. Seq({d} \X (1 .. 2)) \subseteq Seq(Pieces)
  BY <1>2, SeqMonotonic
<1>4. Seq(Pieces) \subseteq Paths
  BY IssuedFacts
<1>5. BlockIds(<<d, m>>) \in Paths
  BY <1>1, <1>3, <1>4, BlockIdsFacts
<1>6. \A n \in 0 .. m : CommitPrefix(BlockIds(<<d, m>>), n) \in Paths
  BY <1>1, <1>3, <1>4, PrefixOfPrefix
<1>7. <<d, m>> \in Tokened /\ <<d, m>> \in Pieces
  BY IssuedFacts DEF Pieces
<1>8. HopsPresented(Prefixes(d, m))
  BY <1>3, PrefixesFacts DEF HopsPresented
<1> QED BY <1>5, <1>6, <1>7, <1>8

(* The HTCs of a delegation have the type of HTCs. *)
LEMMA HtcTyped ==
  ASSUME TypeOK, NEW d \in DOMAIN delegations, NEW i \in 1 .. 2
  PROVE  Htc(d, i) \in Htcs
<1>1. /\ delegations[d].task \in Tasks /\ delegations[d].iat \in Int
      /\ delegations[d].exp \in Int
  BY IssuedFacts DEF Grants
<1>2. HolderAt(i) \in Keys /\ (IF i = 1 THEN Kappa ELSE Supervisor) \in Keys
  BY KeyFacts DEF HolderAt
<1>3. ParentIndex(i) \in 0 .. i
  BY DEF ParentIndex
<1>4. CommitPrefix(BlockIds(<<d, i>>), ParentIndex(i)) \in Paths /\ <<d, i>> \in Tokened
  BY <1>3, PathFacts DEF Origins
<1>5. i - 1 \in Int /\ (IF i = 1 THEN delegations[d].exp ELSE delegations[d].exp - HopMargin) \in Int
  BY <1>1, SessionAssumption
<1> QED BY <1>1, <1>2, <1>4, <1>5 DEF Htc, Htcs

(* What the signer's chain says, whoever reads it later. *)
LEMMA ChainFacts ==
  ASSUME TypeOK, NEW d \in DOMAIN delegations, NEW n \in 1 .. 2
  PROVE  /\ Chain(d, n) \in Seq(Htcs) /\ DOMAIN Chain(d, n) = 1 .. n
         /\ Signed(Chain(d, n))
<1>1. Chain(d, n) \in [1 .. n -> Htcs]
  <2>1. \A i \in 1 .. n : Htc(d, i) \in Htcs
    BY HtcTyped
  <2> QED BY <2>1 DEF Chain
<1>2. Chain(d, n) \in Seq(Htcs)
  BY <1>1, SeqDef
<1>3. ASSUME NEW i \in 1 .. n
      PROVE  /\ Chain(d, n)[i] = Htc(d, i)
             /\ Htc(d, i).by = IF i = 1 THEN Kappa ELSE Supervisor
             /\ Htc(d, i).next = HolderAt(i)
  BY DEF Chain, Htc
<1>4. Signed(Chain(d, n))
  BY <1>1, <1>3, KeyFacts DEF Signed, HolderAt
<1> QED BY <1>1, <1>2, <1>4

(* No chain is a chain in which nothing is signed. *)
LEMMA EmptyChain == <<>> \in Seq(Htcs) /\ Signed(<<>>)
<1>1. DOMAIN <<>> = {}
  OBVIOUS
<1> QED BY <1>1, EmptySeq DEF Signed

(* What the arm presents has the type of what is staged. *)
LEMMA SealedTyped ==
  ASSUME TypeOK, NEW d \in DOMAIN delegations, NEW call \in Calls, NEW task \in Tasks,
         NEW at \in Instants
  PROVE  /\ Sealed(d, call, task, at) \in Staged
         /\ HopsPresented(Sealed(d, call, task, at).hops) /\ Signed(Sealed(d, call, task, at).htc)
         /\ Len(Sealed(d, call, task, at).hops) = 2
<1>1. at \in Int /\ at + InvLifetime \in Int
  BY SessionAssumption DEF Instants
<1>2. OwnToken \in Tokens
  BY DEF Tokens
<1>3. 2 \in 1 .. 2
  OBVIOUS
<1>4. /\ BlockIds(<<d, 2>>) \in Paths /\ HopsPresented(Prefixes(d, 2))
      /\ Len(Prefixes(d, 2)) = 2
  BY <1>3, PathFacts, PrefixesFacts DEF Origins
<1>5. SealedInv(d, call, task, at) \in Invs
  BY <1>1, <1>2, <1>4, KeyFacts DEF SealedInv, Invs
<1>6. Prefixes(d, 2) \in Paths
  BY <1>4, IssuedFacts DEF HopsPresented
<1>7. /\ (IF Bearer THEN <<>> ELSE Chain(d, 2)) \in Seq(Htcs)
      /\ Signed(IF Bearer THEN <<>> ELSE Chain(d, 2))
  BY ChainFacts, EmptyChain
<1>8. Sealed(d, call, task, at) \in Staged
  BY <1>2, <1>5, <1>6, <1>7 DEF Sealed, Staged
<1>9. /\ Sealed(d, call, task, at).hops = Prefixes(d, 2)
      /\ Sealed(d, call, task, at).htc = IF Bearer THEN <<>> ELSE Chain(d, 2)
  BY DEF Sealed
<1> QED BY <1>4, <1>7, <1>8, <1>9

(* A fault touches the access token and the invocation, nothing else. *)
LEMMA FaultedFacts ==
  ASSUME NEW p \in Staged, NEW f \in TokenFaults \cup HolderFaults, NEW t \in Replacements(f)
  PROVE  /\ Faulted(f, t, p) \in Staged
         /\ Faulted(f, t, p).hops = p.hops /\ Faulted(f, t, p).htc = p.htc
<1>1. CASE f \in TokenFaults
  <2>1. t \in Tokens
    BY <1>1 DEF Replacements, Tokens
  <2>2. (IF p.inv = Nothing THEN Nothing ELSE [p.inv EXCEPT !.token = t, !.by = Specialist])
          \in Invs \cup {Nothing}
    BY <2>1, KeyFacts DEF Staged, Invs
  <2> QED BY <1>1, <2>1, <2>2 DEF Faulted, Staged
<1>2. CASE f \notin TokenFaults
  <2> DEFINE k == IF f = "wrong_registered_holder"
                  THEN CHOOSE b \in Bystanders : TRUE ELSE CHOOSE s \in Strangers : TRUE
  <2>1. k \in Keys
    BY KeyFacts
  <2> HIDE DEF k
  <2>2. (IF p.inv = Nothing THEN Nothing ELSE [p.inv EXCEPT !.by = k]) \in Invs \cup {Nothing}
    BY <2>1 DEF Staged, Invs
  <2>3. Faulted(f, t, p) = [p EXCEPT !.inv = IF p.inv = Nothing THEN Nothing ELSE [p.inv EXCEPT !.by = k]]
    BY <1>2 DEF Faulted, k
  <2> QED BY <2>2, <2>3 DEF Staged
<1> QED BY <1>1, <1>2

-----------------------------------------------------------------------------
(* The invariant holds. *)

(* At first nothing is delegated and nothing staged. *)
LEMMA InitChain == Init => ChainInv
<1> SUFFICES ASSUME Init PROVE ChainInv
  OBVIOUS
<1>1. TypeOK
  <2>1. delegations \in Seq(Grants) /\ Len(delegations) = 0
    BY EmptySeq DEF Init
  <2> QED BY <2>1, SessionAssumption DEF Init, TypeOK, Instants
<1> QED BY <1>1 DEF Init, ChainInv, Presents, Injected, Evident, Decided, None

(* A delegation is never changed by a later one. *)
LEMMA GrantsStay ==
  ASSUME TypeOK, arm' = arm,
         \/ delegations' = delegations
         \/ \E g \in Grants : delegations' = Append(delegations, g)
  PROVE  /\ DOMAIN delegations \subseteq (DOMAIN delegations)' /\ Pieces \subseteq Pieces'
         /\ \A d \in DOMAIN delegations : delegations'[d] = delegations[d]
         /\ \A d \in DOMAIN delegations, i \in 1 .. 2 : Htc(d, i)' = Htc(d, i)
         /\ \A d \in DOMAIN delegations, call \in Calls, task \in Tasks, at \in Instants :
              Sealed(d, call, task, at)' = Sealed(d, call, task, at)
<1>1. /\ DOMAIN delegations \subseteq (DOMAIN delegations)'
      /\ \A d \in DOMAIN delegations : delegations'[d] = delegations[d]
  <2>1. CASE delegations' = delegations
    BY <2>1
  <2>2. CASE \E g \in Grants : delegations' = Append(delegations, g)
    <3>1. PICK g \in Grants : delegations' = Append(delegations, g)
      BY <2>2
    <3>2. /\ delegations' \in Seq(Grants) /\ Len(delegations') = Len(delegations) + 1
          /\ \A d \in 1 .. Len(delegations) : delegations'[d] = delegations[d]
      BY <3>1, AppendProperties DEF TypeOK
    <3> QED BY <3>2, LenProperties DEF TypeOK
  <2> QED BY <2>1, <2>2
<1>2. \A d \in DOMAIN delegations, i \in 1 .. 2 : Htc(d, i)' = Htc(d, i)
  BY <1>1 DEF Htc
<1>3. ASSUME NEW d \in DOMAIN delegations
      PROVE  Chain(d, 2)' = Chain(d, 2)
  BY <1>2 DEF Chain
<1>4. Bearer' = Bearer
  BY DEF Bearer
<1>5. \A d \in DOMAIN delegations, call \in Calls, task \in Tasks, at \in Instants :
        Sealed(d, call, task, at)' = Sealed(d, call, task, at)
  BY <1>3, <1>4 DEF Sealed, SealedInv
<1> QED BY <1>1, <1>2, <1>5 DEF Pieces, Origins

(* Nothing is lost of what is staged while it is left alone. *)
LEMMA StagedStays ==
  ASSUME ChainInv, UNCHANGED <<arm, staged>>, edits' = edits, fault' = fault, honest' = honest,
         \/ delegations' = delegations
         \/ \E g \in Grants : delegations' = Append(delegations, g)
  PROVE  Presents' /\ Injected' /\ Evident'
<1>1. TypeOK
  BY DEF ChainInv
<1>2. IsSealed(staged) => IsSealed(staged)'
  BY <1>1, GrantsStay DEF IsSealed
<1>3. IsSealed(honest) => IsSealed(honest)'
  BY <1>1, GrantsStay DEF IsSealed
<1>4. ASSUME staged # Nothing PROVE HopsPresented(staged.hops)' /\ Signed(staged.htc)'
  <2>1. HopsPresented(staged.hops) /\ Signed(staged.htc)
    BY <1>4 DEF ChainInv, Evident
  <2>2. Seq(Pieces) \subseteq Seq(Pieces')
    BY <1>1, GrantsStay, SeqMonotonic
  <2>3. HopsPresented(staged.hops)'
    BY <2>1, <2>2 DEF HopsPresented
  <2>4. Signed(staged.htc)'
    BY <1>1, <2>1, GrantsStay DEF Signed
  <2> QED BY <2>3, <2>4
<1>5. Presents'
  BY <1>2 DEF ChainInv, Presents, Untouched
<1>6. Injected'
  BY <1>3 DEF ChainInv, Injected, Faulted, Replacements
<1> QED BY <1>4, <1>5, <1>6 DEF Evident

(* Time passes: what is staged keeps its own instant. *)
LEMMA TickStep == ChainInv /\ Tick => ChainInv'
<1> SUFFICES ASSUME ChainInv, Tick PROVE ChainInv'
  OBVIOUS
<1>1. Presents' /\ Injected' /\ Evident'
  BY StagedStays DEF Tick
<1>2. TypeOK'
  BY SessionAssumption DEF ChainInv, Tick, TypeOK, Instants
<1>3. Decided'
  BY DEF Tick, Decided
<1> QED BY <1>1, <1>2, <1>3 DEF ChainInv

(* A new delegation leaves what older ones issued as it was. *)
LEMMA DelegateStep ==
  ASSUME ChainInv, NEW hop \in Hops, Delegate(hop)
  PROVE  ChainInv'
<1> DEFINE g == [task |-> hop.task, authority |-> hop.authority, appended |-> hop.appended,
                 iat |-> now, exp |-> now + hop.lifetime]
<1>1. g \in Grants
  BY SessionAssumption DEF ChainInv, TypeOK, Instants, Grants
<1>2. delegations' = Append(delegations, g)
  BY DEF Delegate
<1> HIDE DEF g
<1>3. Presents' /\ Injected' /\ Evident'
  BY <1>1, <1>2, StagedStays DEF Delegate
<1>4. delegations' \in Seq(Grants) /\ Len(delegations') <= MaxDelegations
  <2>1. Len(delegations') = Len(delegations) + 1 /\ delegations' \in Seq(Grants)
    BY <1>1, <1>2, AppendProperties DEF ChainInv, TypeOK
  <2>2. Len(delegations) \in Nat
    BY LenProperties DEF ChainInv, TypeOK
  <2> QED BY <2>1, <2>2, SessionAssumption DEF Delegate
<1>5. TypeOK'
  BY <1>4 DEF ChainInv, Delegate, TypeOK
<1>6. Decided'
  BY DEF Delegate, Decided
<1> QED BY <1>3, <1>5, <1>6 DEF ChainInv

(* The arm presents its latest delegation, sealed. *)
LEMMA PresentStep ==
  ASSUME ChainInv, NEW call \in Presented, NEW task \in Tasks, Present(call, task)
  PROVE  ChainInv'
<1> DEFINE d == Len(delegations)
<1>1. TypeOK /\ now \in Instants /\ call \in Calls
  BY SessionAssumption DEF ChainInv, TypeOK
<1>2. d \in DOMAIN delegations
  <2>1. d # 0
    BY <1>1, EmptySeq DEF Present, TypeOK
  <2> QED BY <1>1, <2>1, IssuedFacts
<1> HIDE DEF d
<1>3. staged' = Sealed(d, call, task, now)
  BY DEF Present, Presentation, Inv, Sealed, SealedInv, d
<1>4. /\ staged' \in Staged /\ HopsPresented(staged'.hops) /\ Signed(staged'.htc)
  BY <1>1, <1>2, <1>3, SealedTyped
<1>5. TypeOK'
  BY <1>1, <1>4, SessionAssumption DEF Present, TypeOK
<1>6. IsSealed(staged)'
  <2>1. PICK e \in DOMAIN delegations, at \in Instants : staged' = Sealed(e, call, task, at)
    BY <1>1, <1>2, <1>3
  <2>2. e \in (DOMAIN delegations)' /\ Sealed(e, call, task, at)' = Sealed(e, call, task, at)
    BY <1>1, GrantsStay DEF Present
  <2> QED BY <1>1, <2>1, <2>2 DEF IsSealed
<1>7. Evident'
  <2>1. HopsPresented(staged.hops)'
    BY <1>4 DEF HopsPresented, Pieces, Origins, Present
  <2>2. delegations' = delegations
    BY DEF Present
  <2>3. Signed(staged.htc)'
    BY <1>4, <2>2 DEF Signed, Htc
  <2> QED BY <2>1, <2>3 DEF Evident
<1> QED BY <1>5, <1>6, <1>7 DEF ChainInv, Present, Presents, Injected, Decided, None

(* A fault keeps the sealed presentation beside its image. *)
LEMMA InjectFaultStep ==
  ASSUME ChainInv, NEW f \in TokenFaults \cup HolderFaults, InjectFault(f)
  PROVE  ChainInv'
<1>1. TypeOK /\ IsSealed(staged) /\ HopsPresented(staged.hops) /\ Signed(staged.htc) /\ f # None
  BY DEF ChainInv, Presents, Evident, InjectFault, TokenFaults, HolderFaults, None
<1>2. PICK t \in Replacements(f) : staged' = Faulted(f, t, staged)
  BY DEF InjectFault
<1>3. staged' \in Staged /\ staged'.hops = staged.hops /\ staged'.htc = staged.htc
  <2>1. staged \in Staged
    BY <1>1 DEF TypeOK, InjectFault
  <2> QED BY <1>2, <2>1, FaultedFacts
<1>4. TypeOK'
  BY <1>1, <1>2, <1>3 DEF InjectFault, TypeOK
<1>5. IsSealed(honest)'
  BY <1>1, GrantsStay DEF IsSealed, InjectFault
<1>6. Injected'
  <2>1. \E u \in Replacements(fault') : staged' = Faulted(fault', u, honest')
    BY <1>2 DEF InjectFault
  <2>2. (\E u \in Replacements(fault) : staged = Faulted(fault, u, honest))'
    BY <2>1 DEF Replacements, Faulted
  <2> QED BY <1>5, <2>2 DEF Injected, InjectFault, Untouched
<1>7. Evident'
  <2>1. HopsPresented(staged.hops)'
    BY <1>1, <1>3 DEF HopsPresented, Pieces, Origins, InjectFault
  <2>2. Signed(staged.htc)'
    <3>1. /\ delegations' = delegations
          /\ \A d \in DOMAIN delegations, i \in 1 .. 2 : Htc(d, i)' = Htc(d, i)
      BY <1>1, GrantsStay DEF InjectFault
    <3>2. 1 \in 1 .. 2
      OBVIOUS
    <3> QED BY <1>1, <1>3, <3>1, <3>2 DEF Signed
  <2> QED BY <2>1, <2>2 DEF Evident
<1> QED BY <1>1, <1>4, <1>6, <1>7 DEF ChainInv, InjectFault, Presents, Untouched, Decided

(* Whatever piece is re-staged, its prefixes were issued and what bears kappa's
   or the Supervisor's signature is theirs. *)
LEMMA RestageStep ==
  ASSUME ChainInv, NEW p \in Staged, HopsPresented(p.hops), Signed(p.htc), fault = None, Restage(p)
  PROVE  ChainInv'
<1>1. edits' \in 1 .. MaxEdits
  BY SessionAssumption DEF ChainInv, TypeOK, Restage, EditBound
<1>2. TypeOK'
  BY <1>1 DEF ChainInv, Restage, TypeOK
<1>3. HopsPresented(staged.hops)'
  BY DEF HopsPresented, Pieces, Origins, Restage
<1>4. Signed(staged.htc)'
  BY DEF Signed, Htc, Restage
<1> QED BY <1>1, <1>2, <1>3, <1>4 DEF ChainInv, Restage, Presents, Untouched, Injected, Evident, Decided

(* What is staged while nothing has been touched is a whole presentation. *)
LEMMA UntouchedFacts ==
  ASSUME ChainInv, staged # Nothing
  PROVE  /\ TypeOK /\ staged \in Staged /\ HopsPresented(staged.hops) /\ Signed(staged.htc)
         /\ Untouched => Len(staged.hops) = 2
<1>1. TypeOK /\ staged \in Staged /\ HopsPresented(staged.hops) /\ Signed(staged.htc)
  BY DEF ChainInv, TypeOK, Evident
<1>2. Untouched => Len(staged.hops) = 2
  BY <1>1, SealedTyped DEF ChainInv, Presents, IsSealed
<1> QED BY <1>1, <1>2

(* Other prefixes, of one root or another. *)
LEMMA RestageHopsStep ==
  ASSUME ChainInv, NEW d \in DOMAIN delegations, NEW n \in 1 .. 2, RestageHops(d, n)
  PROVE  ChainInv'
<1>1. /\ staged # Nothing /\ Untouched /\ TypeOK /\ staged \in Staged
      /\ HopsPresented(staged.hops) /\ Signed(staged.htc) /\ Len(staged.hops) = 2
  BY UntouchedFacts DEF RestageHops
<1>2. PICK e \in {d, -d} :
        \E hops \in {Prefixes(e, n)} \cup {[staged.hops EXCEPT ![i] = <<e, n>>] : i \in 1 .. 2} :
          Restage([staged EXCEPT !.hops = hops])
  BY DEF RestageHops
<1>3. PICK hops \in {Prefixes(e, n)} \cup {[staged.hops EXCEPT ![i] = <<e, n>>] : i \in 1 .. 2} :
        Restage([staged EXCEPT !.hops = hops])
  BY <1>2
<1>4. e \in Origins
  BY DEF Origins
<1>5. HopsPresented(hops)
  <2>1. CASE hops = Prefixes(e, n)
    BY <1>1, <1>4, <2>1, PathFacts
  <2>2. CASE hops # Prefixes(e, n)
    <3>1. PICK i \in 1 .. 2 : hops = [staged.hops EXCEPT ![i] = <<e, n>>]
      BY <1>3, <2>2
    <3>2. staged.hops \in Seq(Pieces) /\ i \in 1 .. Len(staged.hops) /\ <<e, n>> \in Pieces
      BY <1>1, <1>4, PathFacts DEF HopsPresented
    <3>3. hops \in Seq(Pieces) /\ Len(hops) = 2
      BY <1>1, <3>1, <3>2, ExceptSeq
    <3> QED BY <3>3 DEF HopsPresented
  <2> QED BY <2>1, <2>2
<1>6. hops \in Paths
  BY <1>1, <1>5, IssuedFacts DEF HopsPresented
<1> DEFINE p == [staged EXCEPT !.hops = hops]
<1>7. p \in Staged /\ p.hops = hops /\ p.htc = staged.htc
  BY <1>1, <1>6 DEF Staged
<1> HIDE DEF p
<1> QED BY <1>1, <1>3, <1>5, <1>7, RestageStep DEF Untouched, p

(* The chain of another delegation is a chain the signer made. *)
LEMMA RestageHtcStep ==
  ASSUME ChainInv, NEW d \in DOMAIN delegations, NEW n \in 1 .. 2, RestageHtc(d, n)
  PROVE  ChainInv'
<1> DEFINE p == [staged EXCEPT !.htc = Chain(d, n)]
<1>1. /\ staged # Nothing /\ Untouched /\ TypeOK /\ staged \in Staged
      /\ HopsPresented(staged.hops) /\ Signed(Chain(d, n)) /\ Chain(d, n) \in Seq(Htcs)
  BY UntouchedFacts, ChainFacts DEF RestageHtc
<1>2. p \in Staged /\ p.hops = staged.hops /\ p.htc = Chain(d, n)
  BY <1>1 DEF Staged
<1>3. Restage(p)
  BY DEF RestageHtc
<1> HIDE DEF p
<1> QED BY <1>1, <1>2, <1>3, RestageStep DEF Untouched

(* Prefixes and chain of another delegation together. *)
LEMMA RestageChainStep ==
  ASSUME ChainInv, NEW d \in DOMAIN delegations, NEW n \in 1 .. 2, RestageChain(d, n)
  PROVE  ChainInv'
<1> DEFINE p == [staged EXCEPT !.hops = Prefixes(d, n), !.htc = Chain(d, n)]
<1>1. /\ staged # Nothing /\ Untouched /\ TypeOK /\ staged \in Staged
      /\ Signed(Chain(d, n)) /\ Chain(d, n) \in Seq(Htcs)
      /\ HopsPresented(Prefixes(d, n)) /\ Prefixes(d, n) \in Paths
  <2>1. TypeOK /\ staged # Nothing /\ Untouched /\ staged \in Staged
    BY UntouchedFacts DEF RestageChain
  <2>2. HopsPresented(Prefixes(d, n))
    BY <2>1, PathFacts DEF Origins
  <2> QED BY <2>1, <2>2, ChainFacts, IssuedFacts DEF HopsPresented
<1>2. p \in Staged /\ p.hops = Prefixes(d, n) /\ p.htc = Chain(d, n)
  BY <1>1 DEF Staged
<1>3. Restage(p)
  BY DEF RestageChain
<1> HIDE DEF p
<1> QED BY <1>1, <1>2, <1>3, RestageStep DEF Untouched

(* One HTC replaced by one that is signed by neither of the two, or that hands
   over to the Specialist. *)
LEMMA ReplacedHtc ==
  ASSUME ChainInv, staged # Nothing, Untouched, NEW i \in DOMAIN staged.htc, NEW h \in Htcs,
         h.by # Kappa, h.by = Supervisor => h.next = Specialist,
         Restage([staged EXCEPT !.htc[i] = h])
  PROVE  ChainInv'
<1> DEFINE p == [staged EXCEPT !.htc[i] = h]
           htc == [staged.htc EXCEPT ![i] = h]
<1>1. TypeOK /\ staged \in Staged /\ HopsPresented(staged.hops) /\ Signed(staged.htc)
  BY UntouchedFacts
<1>2. staged.htc \in Seq(Htcs)
  BY <1>1 DEF Staged
<1>3. htc \in Seq(Htcs) /\ DOMAIN htc = DOMAIN staged.htc
  BY <1>2, LenProperties, ExceptSeq
<1>4. \A j \in DOMAIN htc : htc[j] = IF j = i THEN h ELSE staged.htc[j]
  OBVIOUS
<1>5. Signed(htc)
  <2> HIDE DEF htc
  <2> QED BY <1>1, <1>3, <1>4 DEF Signed
<1>6. p = [staged EXCEPT !.htc = htc]
  BY <1>1 DEF Staged
<1> HIDE DEF htc
<1>7. p \in Staged /\ p.hops = staged.hops /\ p.htc = htc
  BY <1>1, <1>3, <1>6 DEF Staged
<1>8. Restage(p)
  OBVIOUS
<1> HIDE DEF p
<1> QED BY <1>1, <1>5, <1>7, <1>8, RestageStep DEF Untouched

(* A resealed HTC bears a foreign signature, never kappa's or the Supervisor's. *)
LEMMA ResealHtcStep ==
  ASSUME ChainInv, NEW i \in 1 .. 2, NEW k \in Foreign, ResealHtc(i, k)
  PROVE  ChainInv'
<1>1. staged # Nothing /\ Untouched /\ i \in DOMAIN staged.htc /\ staged \in Staged
  BY UntouchedFacts DEF ResealHtc
<1>2. staged.htc[i] \in Htcs
  BY <1>1, LenProperties, ElementOfSeq DEF Staged
<1>3. k \in Keys /\ k # Kappa /\ k # Supervisor
  BY KeyFacts
<1>4. PICK h \in {[staged.htc[i] EXCEPT !.by = k],
                  [staged.htc[i] EXCEPT !.by = k, !.kid = k, !.signer = k],
                  [staged.htc[i] EXCEPT !.by = k, !.next = k]} :
        Restage([staged EXCEPT !.htc[i] = h])
  BY DEF ResealHtc
<1>5. h \in Htcs /\ h.by = k
  BY <1>2, <1>3, <1>4 DEF Htcs
<1> QED BY <1>1, <1>3, <1>4, <1>5, ReplacedHtc

(* The Supervisor's own mistakes still hand over to the Specialist. *)
LEMMA MisissueHtcStep == ChainInv /\ MisissueHtc => ChainInv'
<1> SUFFICES ASSUME ChainInv, MisissueHtc PROVE ChainInv'
  OBVIOUS
<1>1. /\ staged # Nothing /\ Untouched /\ staged \in Staged /\ Signed(staged.htc)
      /\ Len(staged.htc) = 2 /\ staged.htc[2].by = Supervisor
  BY UntouchedFacts DEF MisissueHtc
<1>2. 2 \in DOMAIN staged.htc /\ staged.htc[2] \in Htcs
  BY <1>1, LenProperties, ElementOfSeq DEF Staged
<1>3. staged.htc[2].next = Specialist
  BY <1>1, <1>2 DEF Signed
<1>4. PICK h \in {[staged.htc[2] EXCEPT !.depth = @ + 1],
                  [staged.htc[2] EXCEPT !.prefix = <<>>],
                  [staged.htc[2] EXCEPT !.exp = @ + HopMargin + 1]} :
        Restage([staged EXCEPT !.htc[2] = h])
  BY DEF MisissueHtc
<1>5. h \in Htcs /\ h.by = Supervisor /\ h.next = Specialist
  <2>1. <<>> \in Paths
    BY EmptySeq DEF Paths
  <2>2. HopMargin \in Int
    BY SessionAssumption
  <2> QED BY <1>1, <1>2, <1>3, <1>4, <2>1, <2>2 DEF Htcs
<1> QED BY <1>1, <1>2, <1>4, <1>5, KeyFacts, ReplacedHtc

(* The blocks an INV is signed anew over are those of a capability. *)
LEMMA TerminalTyped ==
  ASSUME TypeOK, NEW p \in Staged, HopsPresented(p.hops)
  PROVE  Terminal(p) \in Paths
<1>1. Last(p.hops) \in Pieces
  BY LenProperties DEF Last, HopsPresented
<1>2. PICK d \in Origins, m \in 1 .. 2 : Last(p.hops) = <<d, m>>
  BY <1>1 DEF Pieces
<1> QED BY <1>2, PathFacts DEF Terminal

(* Another INV touches neither prefixes nor HTCs. *)
LEMMA ResealInvStep ==
  ASSUME ChainInv, NEW k \in Foreign, ResealInv(k)
  PROVE  ChainInv'
<1> DEFINE p == [staged EXCEPT !.inv.by = k, !.inv.kid = k, !.inv.capability = Terminal(staged)]
           inv == [staged.inv EXCEPT !.by = k, !.kid = k, !.capability = Terminal(staged)]
<1>1. /\ staged # Nothing /\ fault = None /\ staged.inv # Nothing /\ Restage(p)
      /\ TypeOK /\ staged \in Staged /\ HopsPresented(staged.hops) /\ Signed(staged.htc)
  BY UntouchedFacts DEF ResealInv
<1>2. staged.inv \in Invs /\ Terminal(staged) \in Paths /\ k \in Keys
  BY <1>1, TerminalTyped, KeyFacts DEF Staged
<1>3. inv \in Invs
  BY <1>2 DEF Invs
<1>4. p = [staged EXCEPT !.inv = inv]
  BY <1>1 DEF Staged
<1> HIDE DEF inv
<1>5. p \in Staged /\ p.hops = staged.hops /\ p.htc = staged.htc
  BY <1>1, <1>3, <1>4 DEF Staged
<1> HIDE DEF p
<1> QED BY <1>1, <1>5, RestageStep

(* Sending it again only changes the instant it is decided at. *)
LEMMA ResubmitStep == ChainInv /\ Resubmit => ChainInv'
<1> SUFFICES ASSUME ChainInv, Resubmit PROVE ChainInv'
  OBVIOUS
<1> DEFINE p == [staged EXCEPT !.now = now]
<1>1. /\ staged # Nothing /\ Untouched /\ Restage(p)
      /\ TypeOK /\ staged \in Staged /\ HopsPresented(staged.hops) /\ Signed(staged.htc)
  BY UntouchedFacts DEF Resubmit
<1>2. p \in Staged /\ p.hops = staged.hops /\ p.htc = staged.htc
  BY <1>1 DEF Staged, TypeOK
<1> HIDE DEF p
<1> QED BY <1>1, <1>2, RestageStep DEF Untouched

(* What a decision rests on: the arm, what is staged and what was delegated. *)
LEMMA AdmitsStay ==
  ASSUME UNCHANGED <<arm, delegations, staged>>
  PROVE  \A call \in Calls : Admits(staged, call, Running)' <=> Admits(staged, call, Running)
<1>1. \A t, p : Allowed(t, p)' = Allowed(t, p)
  BY DEF Allowed
<1>2. \A p, call : AuthorizerPolicyOk(p, call)' <=> AuthorizerPolicyOk(p, call)
  BY <1>1 DEF AuthorizerPolicyOk
<1>3. \A p, call : ContainmentOk(p, call)' <=> ContainmentOk(p, call)
  BY <1>1 DEF ContainmentOk
<1>4. \A c, p, call, running : Passes(c, p, call, running)' <=> Passes(c, p, call, running)
  BY <1>2, <1>3 DEF Passes
<1>5. \A i, p, call, running : Stops(i, p, call, running)' <=> Stops(i, p, call, running)
  BY <1>4 DEF Stops
<1>6. \A p, call, running : Admits(p, call, running)' <=> Admits(p, call, running)
  BY <1>5 DEF Admits
<1>7. Running' = Running
  BY DEF Running
<1> QED BY <1>6, <1>7

(* What is decided admits exactly what passes. *)
LEMMA DecideStep == ChainInv /\ Decide => ChainInv'
<1> SUFFICES ASSUME ChainInv, Decide PROVE ChainInv'
  OBVIOUS
<1>1. Presents' /\ Injected' /\ Evident'
  BY StagedStays DEF Decide
<1>2. verdict' \in [Calls -> Conjuncts \cup {Admitted}]
  BY ReasonFacts DEF Decide
<1>3. TypeOK'
  BY <1>2 DEF ChainInv, Decide, TypeOK
<1>4. \A call \in Calls : verdict'[call] = Admitted => Admits(staged, call, Running)
  BY ReasonFacts DEF Decide
<1>5. Decided'
  BY <1>4, AdmitsStay DEF Decide, Decided
<1> QED BY <1>1, <1>3, <1>5 DEF ChainInv

(* A stuttering step changes nothing the invariant reads. *)
LEMMA UnchangedStep == ChainInv /\ UNCHANGED vars => ChainInv'
<1> SUFFICES ASSUME ChainInv, UNCHANGED vars PROVE ChainInv'
  OBVIOUS
<1>1. Presents' /\ Injected' /\ Evident'
  BY StagedStays DEF vars
<1>2. TypeOK'
  BY DEF ChainInv, vars, TypeOK
<1>3. Decided'
  BY AdmitsStay DEF ChainInv, vars, Decided
<1> QED BY <1>1, <1>2, <1>3 DEF ChainInv

(* Everything ever staged was issued where it bears an issuer's signature: the
   invariant the properties below rest on. *)
THEOREM ChainInvariant == Spec => []ChainInv
<1>1. ChainInv /\ [Next]_vars => ChainInv'
  <2> SUFFICES ASSUME ChainInv, [Next]_vars PROVE ChainInv'
    OBVIOUS
  <2>1. CASE Tick BY <2>1, TickStep
  <2>2. CASE \E hop \in Hops : Delegate(hop) BY <2>2, DelegateStep
  <2>3. CASE \E call \in Presented, task \in Tasks : Present(call, task) BY <2>3, PresentStep
  <2>4. CASE \E f \in TokenFaults \cup HolderFaults : InjectFault(f) BY <2>4, InjectFaultStep
  <2>5. CASE \E d \in DOMAIN delegations, n \in 1 .. 2 :
               RestageHops(d, n) \/ RestageHtc(d, n) \/ RestageChain(d, n)
    BY <2>5, RestageHopsStep, RestageHtcStep, RestageChainStep
  <2>6. CASE \E i \in 1 .. 2, k \in Foreign : ResealHtc(i, k) BY <2>6, ResealHtcStep
  <2>7. CASE MisissueHtc BY <2>7, MisissueHtcStep
  <2>8. CASE \E k \in Foreign : ResealInv(k) BY <2>8, ResealInvStep
  <2>9. CASE Resubmit BY <2>9, ResubmitStep
  <2>10. CASE Decide BY <2>10, DecideStep
  <2>11. CASE UNCHANGED vars BY <2>11, UnchangedStep
  <2> QED BY <2>1, <2>2, <2>3, <2>4, <2>5, <2>6, <2>7, <2>8, <2>9, <2>10, <2>11 DEF Next
<1> QED BY <1>1, InitChain, PTL DEF Spec

(* Type correctness of the chain. *)
THEOREM ChainTypeOK == Spec => []TypeOK
<1>1. ChainInv => TypeOK
  BY DEF ChainInv
<1> QED BY <1>1, ChainInvariant, PTL

(* Every ablation of the campaign is a matched leave-one-out. *)
THEOREM ChainAblationIsMatched == Spec => []AblationIsMatched
<1>1. ChainInv => AblationIsMatched
  BY ArmsAreMatched DEF ChainInv, TypeOK
<1> QED BY <1>1, ChainInvariant, PTL

-----------------------------------------------------------------------------
(* What the conjuncts together say of a presentation. *)

(* What was minted under kappa was issued. *)
LEMMA UnderKappaIssued ==
  ASSUME TypeOK, NEW p, HopsPresented(p.hops), \A i \in DOMAIN p.hops : UnderKappa(p.hops[i])
  PROVE  HopsIssued(p.hops)
<1>1. DOMAIN p.hops = 1 .. Len(p.hops) /\ Len(p.hops) \in 1 .. 2
  BY LenProperties DEF HopsPresented
<1>2. ASSUME NEW i \in 1 .. Len(p.hops) PROVE p.hops[i] \in Issued
  <2>1. p.hops[i] \in Pieces /\ p.hops[i][1] > 0
    BY <1>1, ElementOfSeq DEF HopsPresented, UnderKappa
  <2>2. PICK d \in Origins, m \in 1 .. 2 : p.hops[i] = <<d, m>>
    BY <2>1 DEF Pieces
  <2>3. d \in DOMAIN delegations
    BY <2>1, <2>2, IssuedFacts DEF Origins
  <2> QED BY <2>2, <2>3 DEF Issued
<1>3. p.hops \in [1 .. Len(p.hops) -> Issued]
  BY <1>1, <1>2, LenProperties DEF HopsPresented
<1>4. p.hops \in Seq(Issued)
  BY <1>1, <1>3, SeqDef
<1> QED BY <1>1, <1>4 DEF HopsIssued

(* A chain of prefixes is the prefixes of one delegation. *)
LEMMA OneDelegation ==
  ASSUME TypeOK, NEW p, HopsIssued(p.hops), CryptoChainOk(p)
  PROVE  \E d \in DOMAIN delegations, n \in 1 .. 2 :
           p.hops = Prefixes(d, n) /\ Terminal(p) = BlockIds(<<d, n>>)
<1> DEFINE n == Len(p.hops)
           d(i) == p.hops[i][1]
<1>1. n \in 1 .. 2 /\ DOMAIN p.hops = 1 .. n /\ p.hops \in Seq(Issued)
  BY LenProperties DEF HopsIssued
<1>2. \A i \in 1 .. n : p.hops[i] \in Issued
  BY <1>1, ElementOfSeq
<1>3. ASSUME NEW i \in 1 .. n
      PROVE  d(i) \in DOMAIN delegations /\ d(i) \in Int /\ p.hops[i] = <<d(i), i>>
  <2>1. PICK e \in DOMAIN delegations, m \in 1 .. 2 : p.hops[i] = <<e, m>>
    BY <1>2 DEF Issued
  <2>2. e \in Int
    BY IssuedFacts
  <2>3. Len(BlockIds(<<e, m>>)) = m
    BY <2>2, BlockIdsFacts
  <2>4. m = i
    BY <1>1, <2>1, <2>3 DEF CryptoChainOk
  <2> QED BY <2>1, <2>2, <2>4
<1>4. ASSUME n = 2 PROVE d(2) = d(1)
  <2>1. 1 \in 1 .. n /\ 2 \in 1 .. n
    BY <1>4
  <2>2. CommitPrefix(BlockIds(p.hops[2]), 1) = BlockIds(p.hops[1])
    BY <1>1, <2>1 DEF CryptoChainOk
  <2>3. d(1) \in Int /\ d(2) \in Int /\ p.hops[1] = <<d(1), 1>> /\ p.hops[2] = <<d(2), 2>>
    BY <1>3, <2>1
  <2>4. 1 \in 1 .. 1 /\ 1 \in 1 .. 2 /\ 2 \in 1 .. 2 /\ 1 \in 0 .. 2
    OBVIOUS
  <2> HIDE DEF d, n
  <2>5. CommitPrefix(BlockIds(<<d(2), 2>>), 1)[1] = <<d(2), 1>>
    BY <2>3, <2>4, PrefixOfPrefix
  <2>6. BlockIds(<<d(1), 1>>)[1] = <<d(1), 1>>
    BY <2>3, <2>4, BlockIdsFacts
  <2> QED BY <2>2, <2>3, <2>5, <2>6
<1>5. \A i \in 1 .. n : p.hops[i] = <<d(1), i>>
  BY <1>1, <1>3, <1>4
<1>6. d(1) \in DOMAIN delegations
  BY <1>1, <1>3
<1>7. p.hops = Prefixes(d(1), n)
  <2>1. p.hops \in [1 .. n -> Issued]
    BY <1>1, LenProperties
  <2> HIDE DEF d, n
  <2> QED BY <1>5, <2>1 DEF Prefixes
<1>8. Terminal(p) = BlockIds(<<d(1), n>>)
  BY <1>1, <1>5 DEF Terminal, Last
<1> QED BY <1>1, <1>6, <1>7, <1>8

(* A chain of HTCs over it starts with kappa's for that delegation, and each
   holder is the one the delegation is handed to. *)
LEMMA HoldersOfTheDelegation ==
  ASSUME TypeOK, NEW p \in Staged, HopsIssued(p.hops), Signed(p.htc),
         NEW running, CryptoChainOk(p), HtcChainOk(p, running)
  PROVE  \E d \in DOMAIN delegations, n \in 1 .. 2 :
           /\ p.hops = Prefixes(d, n) /\ Terminal(p) = BlockIds(<<d, n>>)
           /\ Len(p.htc) = n /\ DOMAIN p.htc = 1 .. n
           /\ Last(p.htc) = p.htc[n] /\ Last(p.htc).next = HolderAt(n)
           /\ Last(p.htc).task = delegations[d].task
           /\ delegations[d].iat <= p.now
<1>1. PICK d \in DOMAIN delegations, n \in 1 .. 2 :
        p.hops = Prefixes(d, n) /\ Terminal(p) = BlockIds(<<d, n>>)
  BY OneDelegation
<1>2. d \in Int
  BY IssuedFacts
<1>3. Len(p.htc) = n /\ DOMAIN p.htc = 1 .. n /\ Last(p.htc) = p.htc[n]
  <2>1. Len(BlockIds(<<d, n>>)) = n
    BY <1>2, BlockIdsFacts
  <2>2. Len(p.htc) = n
    BY <1>1, <2>1 DEF HtcChainOk
  <2> QED BY <2>2, LenProperties DEF Staged, Last
<1>4. ASSUME NEW i \in 1 .. n
      PROVE  /\ Linked(p.htc, i) /\ p.htc[i].by = p.htc[i].signer
             /\ p.htc[i].nbf <= p.now /\ Covers(p.htc[i], i, Terminal(p))
  BY <1>3 DEF HtcChainOk
<1>5. p.htc[1] = Htc(d, 1)
  <2>1. 1 \in 1 .. n /\ 1 \in 1 .. 2
    OBVIOUS
  <2>2. p.htc[1].by = Kappa
    BY <1>4, <2>1 DEF Linked
  <2>3. PICK e \in DOMAIN delegations : p.htc[1] = Htc(e, 1)
    BY <1>3, <2>1, <2>2 DEF Signed
  <2>4. p.htc[1].child = <<d, 1>>
    <3>1. p.htc[1].child = Terminal(p)[1]
      BY <1>4, <2>1 DEF Covers
    <3>2. BlockIds(<<d, n>>)[1] = <<d, 1>>
      BY <1>2, <2>1, BlockIdsFacts
    <3> QED BY <1>1, <3>1, <3>2
  <2>5. Htc(e, 1).child = <<e, 1>>
    BY DEF Htc
  <2>6. e = d
    BY <2>3, <2>4, <2>5
  <2> QED BY <2>3, <2>6
<1>6. /\ Htc(d, 1).next = Supervisor /\ Htc(d, 1).task = delegations[d].task
      /\ Htc(d, 1).nbf = delegations[d].iat
  BY DEF Htc, HolderAt
<1>7. delegations[d].iat <= p.now
  <2>1. 1 \in 1 .. n
    OBVIOUS
  <2> QED BY <1>4, <1>5, <1>6, <2>1
<1>8. p.htc[n].next = HolderAt(n) /\ p.htc[n].task = delegations[d].task
  <2>1. CASE n = 1
    BY <1>5, <1>6, <2>1 DEF HolderAt
  <2>2. CASE n = 2
    <3>1. 2 \in 1 .. n
      BY <2>2
    <3>2. p.htc[2].by = Supervisor /\ p.htc[2].task = p.htc[1].task
      BY <1>4, <1>5, <1>6, <3>1 DEF Linked
    <3>3. p.htc[2].next = Specialist
      BY <1>3, <3>1, <3>2 DEF Signed
    <3> QED BY <1>5, <1>6, <2>2, <3>2, <3>3 DEF HolderAt
  <2> QED BY <2>1, <2>2
<1> QED BY <1>1, <1>3, <1>7, <1>8

(* Each conjunct by its name. *)
LEMMA NamedConjuncts ==
  Conjuncts = {"crypto_chain_ok", "authorizer_policy_ok", "htc_chain_ok", "holder_proof_ok",
               "invocation_binding_ok", "containment_ok", "context_policy_ok",
               "approval_artifact_ok", "oauth_resource_authorization_ok",
               "identity_plane_consistency_ok"}
<1>1. \A c : (\E i \in 1 .. 10 : c = CONJUNCT_ORDER[i]) <=>
              c \in {"crypto_chain_ok", "authorizer_policy_ok", "htc_chain_ok", "holder_proof_ok",
                    "invocation_binding_ok", "containment_ok", "context_policy_ok",
                    "approval_artifact_ok", "oauth_resource_authorization_ok",
                    "identity_plane_consistency_ok"}
  BY DEF CONJUNCT_ORDER
<1>2. \A c : c \in Conjuncts <=> \E i \in 1 .. 10 : c = CONJUNCT_ORDER[i]
  BY OrderFacts
<1> QED BY <1>1, <1>2

(* B3 proper runs them all: only its bitmask and the ablations' has an HTC chain. *)
LEMMA B3RunsThemAll == arm \in Arms /\ B3Proper => Running = Conjuncts
<1>1. "htc_chain_ok" \notin BearerConjuncts
  BY DEF BearerConjuncts
<1> QED BY <1>1, ArmsAssumption DEF B3Proper, Bearer, Running

(* B-cap runs the other mask whole. *)
LEMMA BearerRuns ==
  arm \in Arms /\ arm.disabled = {} /\ Bearer => Running = BearerConjuncts
<1>1. "htc_chain_ok" \in Conjuncts
  BY NamedConjuncts
<1> QED BY <1>1, ArmsAssumption DEF Bearer, Running

(* The capability of an admitted call, whichever of the two arms admits it. *)
LEMMA CapabilityConjuncts ==
  ASSUME ChainInv, arm.disabled = {}, staged # Nothing, NEW call \in Calls,
         Admits(staged, call, Running)
  PROVE  /\ CryptoChainOk(staged) /\ AuthorizerPolicyOk(staged, call)
         /\ ContainmentOk(staged, call) /\ HopsIssued(staged.hops)
<1>1. TypeOK /\ arm \in Arms /\ HopsPresented(staged.hops)
  BY UntouchedFacts DEF TypeOK
<1>2. BearerConjuncts \subseteq Running /\ BearerConjuncts \subseteq Conjuncts
  BY <1>1, B3RunsThemAll, BearerRuns, NamedConjuncts DEF B3Proper, BearerConjuncts
<1>3. /\ Passes("crypto_chain_ok", staged, call, Running)
      /\ Passes("authorizer_policy_ok", staged, call, Running)
      /\ Passes("containment_ok", staged, call, Running)
  BY <1>2, AdmitsFacts DEF BearerConjuncts
<1>4. CryptoChainOk(staged) /\ AuthorizerPolicyOk(staged, call) /\ ContainmentOk(staged, call)
  BY <1>3 DEF Passes
<1>5. HopsIssued(staged.hops)
  BY <1>1, <1>4, UnderKappaIssued DEF CryptoChainOk
<1> QED BY <1>4, <1>5

(* It lies within the delegation whose prefixes are presented. *)
LEMMA AdmittedWithin ==
  ASSUME ChainInv, arm.disabled = {}, staged # Nothing, NEW call \in Calls,
         Admits(staged, call, Running),
         NEW d \in DOMAIN delegations, NEW n \in 1 .. 2, staged.hops = Prefixes(d, n)
  PROVE  Within(d, n, staged, call)
<1>1. AuthorizerPolicyOk(staged, call) /\ ContainmentOk(staged, call)
  BY CapabilityConjuncts
<1>2. staged.hops[1] = <<d, 1>> /\ Last(staged.hops) = <<d, n>>
  <2>1. 1 \in 1 .. n /\ n \in 1 .. n
    OBVIOUS
  <2>2. Len(staged.hops) = n /\ \A i \in 1 .. n : staged.hops[i] = <<d, i>>
    BY PrefixesFacts
  <2> QED BY <2>1, <2>2 DEF Last
<1>3. staged.task = delegations[d].task /\ staged.now <= delegations[d].exp
  <2>1. Allowed(<<d, 1>>, staged) # {}
    BY <1>1, <1>2 DEF AuthorizerPolicyOk
  <2> QED BY <2>1 DEF Allowed
<1>4. /\ Required[call] \in delegations[d].authority
      /\ n = 2 => Required[call] \in delegations[d].appended
  <2>1. Required[call] \in Allowed(<<d, n>>, staged)
    BY <1>1, <1>2 DEF ContainmentOk
  <2> QED BY <2>1 DEF Allowed
<1> QED BY <1>3, <1>4 DEF Within

(* What is admitted was delegated. *)
LEMMA AdmittedFacts ==
  ASSUME ChainInv, arm.disabled = {}, staged # Nothing, NEW call \in Calls,
         Admits(staged, call, Running)
  PROVE  \E d \in DOMAIN delegations, n \in 1 .. 2 :
           /\ staged.hops = Prefixes(d, n) /\ Within(d, n, staged, call)
           /\ B3Proper => InvokedBy(d, n, staged, call)
<1>1. /\ TypeOK /\ staged \in Staged /\ Signed(staged.htc)
      /\ CryptoChainOk(staged) /\ HopsIssued(staged.hops)
  BY UntouchedFacts, CapabilityConjuncts
<1>2. CASE ~B3Proper
  <2>1. PICK d \in DOMAIN delegations, n \in 1 .. 2 : staged.hops = Prefixes(d, n)
    BY <1>1, OneDelegation
  <2> QED BY <1>2, <2>1, AdmittedWithin
<1>3. CASE B3Proper
  <2>1. Running = Conjuncts
    BY <1>1, <1>3, B3RunsThemAll DEF TypeOK
  <2>2. \A c \in Conjuncts : Passes(c, staged, call, Conjuncts)
    BY <2>1, AdmitsFacts
  <2>3. /\ HtcChainOk(staged, Conjuncts) /\ HolderProofOk(staged, Conjuncts)
        /\ InvocationBindingOk(staged, call, Conjuncts) /\ IdentityPlaneOk(staged, Conjuncts)
    BY <2>2, NamedConjuncts DEF Passes
  <2>4. PICK d \in DOMAIN delegations, n \in 1 .. 2 :
          /\ staged.hops = Prefixes(d, n)
          /\ Last(staged.htc).next = HolderAt(n) /\ delegations[d].iat <= staged.now
    BY <1>1, <2>3, HoldersOfTheDelegation
  <2>5. InvokedBy(d, n, staged, call)
    BY <2>3, <2>4 DEF InvokedBy, InvocationBindingOk, HolderProofOk, IdentityPlaneOk
  <2> QED BY <2>4, <2>5, AdmittedWithin
<1> QED BY <1>2, <1>3

(* Nothing is undone by what a holder presents: what B3 and B-cap admit lies in *)
(* every block of one running delegation for its task, and by B3 is invoked by *)
(* the holder that delegation names last. *)
THEOREM ChainAdmittedWasDelegated == Spec => []AdmittedWasDelegated
<1>1. ChainInv => AdmittedWasDelegated
  BY AdmittedFacts DEF AdmittedWasDelegated, ChainInv, Decided
<1> QED BY <1>1, ChainInvariant, PTL

-----------------------------------------------------------------------------
(* Faults. *)

BeforeHolder == {"crypto_chain_ok", "authorizer_policy_ok", "htc_chain_ok"}
BeforeOAuth  == BeforeHolder \cup {"holder_proof_ok", "invocation_binding_ok", "containment_ok",
                                  "context_policy_ok", "approval_artifact_ok"}

(* Which conjuncts come before the two that faults are aimed at. *)
LEMMA Places ==
  /\ CONJUNCT_ORDER[4] = "holder_proof_ok"
  /\ CONJUNCT_ORDER[9] = "oauth_resource_authorization_ok"
  /\ \A i \in 1 .. 3 : CONJUNCT_ORDER[i] \in BeforeHolder
  /\ \A i \in 1 .. 8 : CONJUNCT_ORDER[i] \in BeforeOAuth
BY DEF CONJUNCT_ORDER, BeforeHolder, BeforeOAuth

(* Of a presentation with another invocation and token, what does not read them
   is decided as before. *)
LEMMA UnreadByChain ==
  ASSUME NEW p, NEW q, NEW call, NEW running,
         q.hops = p.hops, q.htc = p.htc, q.task = p.task, q.now = p.now
  PROVE  /\ \A c \in BeforeHolder : Passes(c, p, call, running) <=> Passes(c, q, call, running)
         /\ ContainmentOk(p, call) <=> ContainmentOk(q, call)
<1>1. \A t : Allowed(t, p) = Allowed(t, q)
  BY DEF Allowed
<1>2. Terminal(p) = Terminal(q)
  BY DEF Terminal
<1>3. /\ CryptoChainOk(p) <=> CryptoChainOk(q)
      /\ AuthorizerPolicyOk(p, call) <=> AuthorizerPolicyOk(q, call)
      /\ ContainmentOk(p, call) <=> ContainmentOk(q, call)
  BY <1>1 DEF CryptoChainOk, AuthorizerPolicyOk, ContainmentOk
<1>4. HtcChainOk(p, running) <=> HtcChainOk(q, running)
  BY <1>2 DEF HtcChainOk
<1> QED BY <1>3, <1>4 DEF Passes, BeforeHolder

(* A swapped token that is rebound passes all that comes before the token. *)
LEMMA TokenFaultPasses ==
  ASSUME TypeOK, NEW d \in DOMAIN delegations, NEW made \in Calls, NEW task \in Tasks,
         NEW at \in Instants, NEW f \in TokenFaults, NEW t \in Replacements(f),
         NEW call \in Calls, NEW running, Admits(Sealed(d, made, task, at), call, running)
  PROVE  /\ \A i \in 1 .. 8 : ~Stops(i, Faulted(f, t, Sealed(d, made, task, at)), call, running)
         /\ Faulted(f, t, Sealed(d, made, task, at)).token = t
         /\ Faulted(f, t, Sealed(d, made, task, at)).htc = Sealed(d, made, task, at).htc
         /\ Faulted(f, t, Sealed(d, made, task, at)).now = Sealed(d, made, task, at).now
<1> DEFINE p == Sealed(d, made, task, at)
           q == Faulted(f, t, p)
<1>1. p \in Staged
  BY SealedTyped
<1>2. /\ q.hops = p.hops /\ q.htc = p.htc /\ q.task = p.task /\ q.now = p.now /\ q.token = t
      /\ q.inv = IF p.inv = Nothing THEN Nothing ELSE [p.inv EXCEPT !.token = t, !.by = Specialist]
  <2> HIDE DEF p
  <2> QED BY <1>1 DEF Faulted, Staged
<1>3. p.inv # Nothing =>
        /\ p.inv \in Invs /\ p.inv.by = Specialist /\ p.inv.token = p.token
  BY <1>1 DEF Sealed, SealedInv, Staged
<1>4. t \in Tokens
  BY DEF Replacements, Tokens
<1> HIDE DEF p, q
<1>5. p.inv # Nothing =>
        /\ q.inv # Nothing /\ q.inv.by = p.inv.by /\ q.inv.kid = p.inv.kid
        /\ q.inv.capability = p.inv.capability /\ q.inv.call = p.inv.call
        /\ q.inv.task = p.inv.task /\ q.inv.nbf = p.inv.nbf /\ q.inv.exp = p.inv.exp
        /\ q.inv.iat = p.inv.iat /\ q.inv.token = q.token
  <2> SUFFICES ASSUME p.inv # Nothing
               PROVE  /\ q.inv # Nothing /\ q.inv.by = p.inv.by /\ q.inv.kid = p.inv.kid
                      /\ q.inv.capability = p.inv.capability /\ q.inv.call = p.inv.call
                      /\ q.inv.task = p.inv.task /\ q.inv.nbf = p.inv.nbf /\ q.inv.exp = p.inv.exp
                      /\ q.inv.iat = p.inv.iat /\ q.inv.token = q.token
    OBVIOUS
  <2>1. q.inv = [p.inv EXCEPT !.token = t, !.by = Specialist] /\ p.inv \in Invs
    BY <1>2, <1>3
  <2>2. q.inv \in Invs
    BY <1>4, <2>1, KeyFacts DEF Invs
  <2> QED BY <1>2, <1>3, <2>1, <2>2, NothingAssumption DEF Invs
<1>6. Terminal(p) = Terminal(q)
  BY <1>2 DEF Terminal
<1>7. /\ HolderProofOk(p, running) => HolderProofOk(q, running)
      /\ InvocationBindingOk(p, call, running) => InvocationBindingOk(q, call, running)
  BY <1>2, <1>3, <1>5, <1>6 DEF HolderProofOk, InvocationBindingOk
<1>8. \A c \in BeforeOAuth : Passes(c, p, call, running) => Passes(c, q, call, running)
  <2>1. /\ \A c \in BeforeHolder : Passes(c, p, call, running) <=> Passes(c, q, call, running)
        /\ ContainmentOk(p, call) <=> ContainmentOk(q, call)
    BY <1>2, UnreadByChain
  <2>2. /\ Passes("holder_proof_ok", p, call, running) => Passes("holder_proof_ok", q, call, running)
        /\ Passes("invocation_binding_ok", p, call, running)
             => Passes("invocation_binding_ok", q, call, running)
    BY <1>7 DEF Passes
  <2>3. \A c \in {"containment_ok", "context_policy_ok", "approval_artifact_ok"} :
          Passes(c, p, call, running) <=> Passes(c, q, call, running)
    BY <2>1 DEF Passes
  <2> QED BY <2>1, <2>2, <2>3 DEF BeforeOAuth
<1>9. \A i \in 1 .. 10 : ~Stops(i, p, call, running)
  BY OrderFacts DEF Admits, p
<1>10. \A i \in 1 .. 8 : ~Stops(i, q, call, running)
  BY <1>8, <1>9, Places DEF Stops
<1> QED BY <1>2, <1>10 DEF p, q

(* If its signature broke, or it is no token of the arm's, it is refused for it. *)
LEMMA TokenFaultRefused ==
  ASSUME TypeOK, NEW d \in DOMAIN delegations, NEW made \in Calls, NEW task \in Tasks,
         NEW at \in Instants, NEW f \in TokenFaults, NEW t \in Replacements(f), t # Respelled,
         NEW call \in Calls, NEW running,
         Admits(Sealed(d, made, task, at), call, running),
         "oauth_resource_authorization_ok" \in running
  PROVE  Reason(Faulted(f, t, Sealed(d, made, task, at)), call, running)
           = "oauth_resource_authorization_ok"
<1> DEFINE q == Faulted(f, t, Sealed(d, made, task, at))
<1>1. q.token = t /\ \A i \in 1 .. 8 : ~Stops(i, q, call, running)
  BY TokenFaultPasses
<1>2. t \notin {OwnToken, Respelled}
  BY DEF Replacements, TokenFaults, OwnToken, Respelled
<1> HIDE DEF q
<1>3. ~OAuthOk(q, call)
  BY <1>1, <1>2 DEF OAuthOk
<1>4. Stops(9, q, call, running)
  BY <1>3, Places DEF Stops, Passes
<1>5. FirstStop(9, q, call, running)
  BY <1>1, <1>4 DEF FirstStop
<1> QED BY <1>5, ReasonIsFirst, Places DEF q

(* If it is the same signature respelled, nothing is left to refuse it. *)
LEMMA RespelledAdmitted ==
  ASSUME TypeOK, NEW d \in DOMAIN delegations, NEW made \in Calls, NEW task \in Tasks,
         NEW at \in Instants, NEW f \in TokenFaults, Respelled \in Replacements(f),
         NEW call \in Calls, NEW running,
         Admits(Sealed(d, made, task, at), call, running)
  PROVE  Reason(Faulted(f, Respelled, Sealed(d, made, task, at)), call, running) = Admitted
<1> DEFINE p == Sealed(d, made, task, at)
           q == Faulted(f, Respelled, p)
<1>1. /\ q.token = Respelled /\ q.htc = p.htc /\ q.now = p.now
      /\ \A i \in 1 .. 8 : ~Stops(i, q, call, running)
  BY TokenFaultPasses
<1>2. \A i \in 1 .. 10 : ~Stops(i, p, call, running)
  BY OrderFacts DEF Admits
<1>3. p.token = OwnToken
  BY DEF Sealed
<1> HIDE DEF p, q
<1>4. OAuthOk(p, call) => OAuthOk(q, call)
  BY <1>1, <1>3 DEF OAuthOk
<1>5. ~Stops(9, q, call, running)
  <2>1. 9 \in 1 .. 10
    OBVIOUS
  <2> QED BY <1>2, <1>4, <2>1, Places DEF Stops, Passes
<1>6. IdentityPlaneOk(p, running) => IdentityPlaneOk(q, running)
  BY <1>1 DEF IdentityPlaneOk
<1>7. ~Stops(10, q, call, running)
  <2>1. 10 \in 1 .. 10 /\ CONJUNCT_ORDER[10] = "identity_plane_consistency_ok"
    BY DEF CONJUNCT_ORDER
  <2> QED BY <1>2, <1>6, <2>1 DEF Stops, Passes
<1>8. \A i \in 1 .. 10 : ~Stops(i, q, call, running)
  <2>1. \A i \in 1 .. 10 : i \in 1 .. 8 \/ i = 9 \/ i = 10
    OBVIOUS
  <2> QED BY <1>1, <1>5, <1>7, <2>1
<1>9. Admits(q, call, running)
  BY <1>8, OrderFacts DEF Admits
<1> QED BY <1>9 DEF Reason, p, q

(* A swapped key is refused for the holder. *)
LEMMA HolderFaultRefused ==
  ASSUME TypeOK, NEW d \in DOMAIN delegations, NEW made \in Calls, NEW task \in Tasks,
         NEW at \in Instants, NEW f \in HolderFaults, NEW t, NEW call \in Calls, NEW running,
         Admits(Sealed(d, made, task, at), call, running), "holder_proof_ok" \in running
  PROVE  Reason(Faulted(f, t, Sealed(d, made, task, at)), call, running) = "holder_proof_ok"
<1> DEFINE p == Sealed(d, made, task, at)
           q == Faulted(f, t, p)
           k == IF f = "wrong_registered_holder"
                THEN CHOOSE b \in Bystanders : TRUE ELSE CHOOSE s \in Strangers : TRUE
<1>1. p \in Staged
  BY SealedTyped
<1>2. k # Specialist
  BY KeyFacts
<1>3. f \notin TokenFaults
  BY DEF TokenFaults, HolderFaults
<1>4. \A i \in 1 .. 10 : ~Stops(i, p, call, running)
  BY OrderFacts DEF Admits
<1>5. p.inv # Nothing => p.inv \in Invs /\ p.inv.by = Specialist
  BY <1>1 DEF Sealed, SealedInv, Staged
<1> HIDE DEF p, k
<1>6. q = [p EXCEPT !.inv = IF p.inv = Nothing THEN Nothing ELSE [p.inv EXCEPT !.by = k]]
  BY <1>3 DEF Faulted, k
<1> HIDE DEF q
<1>7. /\ q.hops = p.hops /\ q.htc = p.htc /\ q.task = p.task /\ q.now = p.now
      /\ q.inv = IF p.inv = Nothing THEN Nothing ELSE [p.inv EXCEPT !.by = k]
  BY <1>1, <1>6 DEF Staged
<1>8. HolderProofOk(p, running)
  <2>1. 4 \in 1 .. 10
    OBVIOUS
  <2>2. Passes("holder_proof_ok", p, call, running)
    BY <1>4, <2>1, Places DEF Stops
  <2> QED BY <2>2 DEF Passes
<1>9. ~HolderProofOk(q, running)
  <2>1. p.inv # Nothing /\ Last(p.htc).next = Specialist
    BY <1>5, <1>8 DEF HolderProofOk
  <2>2. q.inv.by = k
    BY <1>5, <1>7, <2>1 DEF Invs
  <2> QED BY <1>2, <1>7, <2>1, <2>2 DEF HolderProofOk
<1>10. \A i \in 1 .. 3 : ~Stops(i, q, call, running)
  BY <1>4, <1>7, UnreadByChain, Places DEF Stops
<1>11. Stops(4, q, call, running)
  BY <1>8, <1>9, Places DEF Stops, Passes
<1>12. FirstStop(4, q, call, running)
  BY <1>10, <1>11 DEF FirstStop
<1> QED BY <1>12, ReasonIsFirst, Places DEF p, q

(* A fault is refused by the conjunct it is aimed at, and by no other; a token *)
(* that kept its signature is admitted like the one it replaced. *)
THEOREM ChainFaultIsAttributed == Spec => []FaultIsAttributed
<1>1. ASSUME ChainInv PROVE FaultIsAttributed
  <2> SUFFICES ASSUME fault # None, NEW call \in Calls,
                      Admits(honest, call, Running), Target(fault) \in Running
               PROVE  Reason(staged, call, Running) =
                        IF staged.token = Respelled THEN Admitted ELSE Target(fault)
    BY DEF FaultIsAttributed
  <2>1. TypeOK /\ fault \in TokenFaults \cup HolderFaults /\ IsSealed(honest)
    BY <1>1 DEF ChainInv, Injected, TypeOK
  <2>2. PICK t \in Replacements(fault) : staged = Faulted(fault, t, honest)
    BY <1>1 DEF ChainInv, Injected
  <2>3. PICK d \in DOMAIN delegations, made \in Calls, task \in Tasks, at \in Instants :
          honest = Sealed(d, made, task, at)
    BY <2>1 DEF IsSealed
  <2>4. CASE fault \in TokenFaults
    <3>1. staged.token = t
      BY <2>1, <2>2, <2>3, <2>4, TokenFaultPasses
    <3>2. CASE t # Respelled
      BY <2>1, <2>2, <2>3, <2>4, <3>1, <3>2, TokenFaultRefused DEF Target
    <3>3. CASE t = Respelled
      BY <2>1, <2>2, <2>3, <2>4, <3>1, <3>3, RespelledAdmitted
    <3> QED BY <3>2, <3>3
  <2>5. CASE fault \notin TokenFaults
    <3>1. fault \in HolderFaults /\ Target(fault) = "holder_proof_ok"
      BY <2>1, <2>5 DEF Target
    <3>2. Reason(staged, call, Running) = "holder_proof_ok"
      BY <2>1, <2>2, <2>3, <3>1, HolderFaultRefused
    <3>3. staged.token # Respelled
      <4>1. honest \in Staged /\ honest.token = OwnToken
        BY <2>1, <2>3, SealedTyped DEF Sealed
      <4>2. staged.token = honest.token
        BY <2>2, <2>5, <4>1 DEF Faulted, Staged
      <4> QED BY <4>1, <4>2 DEF OwnToken, Respelled
    <3> QED BY <3>1, <3>2, <3>3
  <2> QED BY <2>4, <2>5
<1> QED BY <1>1, ChainInvariant, PTL

-----------------------------------------------------------------------------
(* The two readings. *)

(* A set of candidates run one by one is the set read at once. *)
LEMMA AllowedSame ==
  ASSUME NEW p, NEW t \in Pieces
  PROVE  {e \in Omega : AuthorizeCandidate(t, e, p)} = Allowed(t, p)
<1> DEFINE g == delegations[t[1]]
           checks == [j \in 1 .. t[2] |-> IF j = 1 THEN g.authority ELSE g.appended]
<1>1. t[2] \in 1 .. 2
  BY DEF Pieces
<1>2. ASSUME NEW e
      PROVE  (\A j \in DOMAIN checks : e \in checks[j])
               <=> e \in g.authority /\ (t[2] = 2 => e \in g.appended)
  <2>1. CASE t[2] = 1
    BY <2>1
  <2>2. CASE t[2] = 2
    <3>1. /\ DOMAIN checks = 1 .. 2 /\ 1 \in 1 .. 2 /\ 2 \in 1 .. 2
          /\ \A j \in 1 .. 2 : j = 1 \/ j = 2
      BY <2>2
    <3>2. checks[1] = g.authority /\ checks[2] = g.appended
      BY <2>2, <3>1
    <3> HIDE DEF checks, g
    <3> QED BY <2>2, <3>1, <3>2
  <2> QED BY <1>1, <2>1, <2>2
<1>3. \A e \in Omega : AuthorizeCandidate(t, e, p) <=> e \in Allowed(t, p)
  BY <1>2 DEF AuthorizeCandidate, Allowed
<1> QED BY <1>3 DEF Allowed

(* Both recompute the same chain of prefixes. *)
LEMMA ChainSame ==
  ASSUME TypeOK, NEW p, HopsPresented(p.hops)
  PROVE  HarnessChain(p) <=> CryptoChainOk(p)
<1>1. DOMAIN p.hops = 1 .. Len(p.hops) /\ Len(p.hops) \in 1 .. 2
  BY LenProperties DEF HopsPresented
<1>2. ASSUME NEW n \in DOMAIN p.hops, n # 1,
             Len(BlockIds(p.hops[n - 1])) = n - 1
      PROVE  SubSeq(BlockIds(p.hops[n]), 1, Len(BlockIds(p.hops[n - 1])))
               = CommitPrefix(BlockIds(p.hops[n]), n - 1)
  BY <1>2 DEF CommitPrefix
<1>3. \A s : SubSeq(s, 1, Len(<<>>)) = <<>>
  BY EmptySeq, SubSeqEmpty
<1>4. ASSUME \A n \in DOMAIN p.hops : Len(BlockIds(p.hops[n])) = n
      PROVE  HarnessChain(p) <=> CryptoChainOk(p)
  <2>1. \A n \in DOMAIN p.hops : n # 1 => n - 1 \in DOMAIN p.hops
    BY <1>1
  <2>2. \A n \in DOMAIN p.hops : n > 1 <=> n # 1
    BY <1>1
  <2> QED BY <1>2, <1>3, <1>4, <2>1, <2>2 DEF HarnessChain, CryptoChainOk
<1>5. HarnessChain(p) \/ CryptoChainOk(p) => \A n \in DOMAIN p.hops : Len(BlockIds(p.hops[n])) = n
  BY DEF HarnessChain, CryptoChainOk
<1> QED BY <1>4, <1>5

(* Both take the HTCs link by link. *)
LEMMA LinksSame ==
  ASSUME NEW p, NEW running, "crypto_chain_ok" \in running
  PROVE  HtcChainOk(p, running) <=>
           /\ p.htc # <<>> /\ Len(p.htc) = Len(Terminal(p))
           /\ \A i \in DOMAIN p.htc : VerifiedHop(p, i)
<1>1. ASSUME NEW i \in DOMAIN p.htc
      PROVE  VerifiedHop(p, i) <=>
               /\ Linked(p.htc, i) /\ p.htc[i].by = p.htc[i].signer /\ p.htc[i].depth = i - 1
               /\ p.htc[i].nbf <= p.now /\ p.now <= p.htc[i].exp
               /\ Covers(p.htc[i], i, Terminal(p))
  BY DEF VerifiedHop, Linked, Covers
<1> QED BY <1>1 DEF HtcChainOk

(* The hops of a presentation and what each allows. *)
LEMMA HopsFacts ==
  ASSUME TypeOK, NEW p, HopsPresented(p.hops)
  PROVE  /\ DOMAIN p.hops = 1 .. Len(p.hops) /\ Len(p.hops) \in 1 .. 2
         /\ 1 \in DOMAIN p.hops /\ Len(p.hops) \in DOMAIN p.hops
         /\ Len(AllowedPerHop(p)) = Len(p.hops)
         /\ \A n \in DOMAIN p.hops : p.hops[n] \in Pieces
         /\ \A n \in DOMAIN p.hops : AllowedPerHop(p)[n] = Allowed(p.hops[n], p)
<1>1. DOMAIN p.hops = 1 .. Len(p.hops) /\ Len(p.hops) \in 1 .. 2
  BY LenProperties DEF HopsPresented
<1>2. \A n \in DOMAIN p.hops : p.hops[n] \in Pieces
  BY <1>1, ElementOfSeq DEF HopsPresented
<1>3. \A n \in DOMAIN p.hops : AllowedPerHop(p)[n] = Allowed(p.hops[n], p)
  BY <1>2, AllowedSame DEF AllowedPerHop
<1>4. Len(AllowedPerHop(p)) = Len(p.hops)
  <2>1. AllowedPerHop(p) \in [1 .. Len(p.hops) -> SUBSET Omega]
    BY <1>1 DEF AllowedPerHop
  <2>2. \A S, f : \A n \in Nat : f \in [1 .. n -> S] => f \in Seq(S) /\ DOMAIN f = 1 .. n
    BY SeqDef
  <2>3. AllowedPerHop(p) \in Seq(SUBSET Omega) /\ DOMAIN AllowedPerHop(p) = 1 .. Len(p.hops)
    BY <1>1, <2>1, <2>2
  <2> QED BY <1>1, <2>3, LenProperties
<1>5. 1 \in DOMAIN p.hops /\ Len(p.hops) \in DOMAIN p.hops
  BY <1>1
<1> QED BY <1>1, <1>2, <1>3, <1>4, <1>5

(* Along one chain no hop allows more than the one before it. *)
LEMMA HopsAttenuate ==
  ASSUME TypeOK, NEW p, HopsIssued(p.hops), CryptoChainOk(p)
  PROVE  \A n \in 2 .. Len(p.hops) : Allowed(p.hops[n], p) \subseteq Allowed(p.hops[n - 1], p)
<1>1. PICK d \in DOMAIN delegations, m \in 1 .. 2 : p.hops = Prefixes(d, m)
  BY OneDelegation
<1>2. Len(p.hops) = m /\ \A i \in 1 .. m : p.hops[i] = <<d, i>>
  BY <1>1, PrefixesFacts
<1>3. ASSUME NEW n \in 2 .. Len(p.hops)
      PROVE  p.hops[n] = <<d, 2>> /\ p.hops[n - 1] = <<d, 1>>
  <2>1. m = 2 /\ n = 2 /\ n - 1 = 1 /\ 1 \in 1 .. m /\ 2 \in 1 .. m
    BY <1>2
  <2> QED BY <1>2, <2>1
<1>4. Allowed(<<d, 2>>, p) \subseteq Allowed(<<d, 1>>, p)
  BY DEF Allowed, UnderKappa
<1> QED BY <1>3, <1>4

(* The first five limbs, by their names. *)
LEMMA FirstFive ==
  ASSUME NEW p, NEW call \in Calls, Running = Conjuncts
  PROVE  BoundaryBinds(p, call) <=>
           /\ CryptoChainOk(p) /\ AuthorizerPolicyOk(p, call) /\ HtcChainOk(p, Conjuncts)
           /\ HolderProofOk(p, Conjuncts) /\ InvocationBindingOk(p, call, Conjuncts)
<1>1. /\ CONJUNCT_ORDER[1] = "crypto_chain_ok" /\ CONJUNCT_ORDER[2] = "authorizer_policy_ok"
      /\ CONJUNCT_ORDER[3] = "htc_chain_ok" /\ CONJUNCT_ORDER[4] = "holder_proof_ok"
      /\ CONJUNCT_ORDER[5] = "invocation_binding_ok"
  BY DEF CONJUNCT_ORDER
<1>2. 1 \in 1 .. 5 /\ 2 \in 1 .. 5 /\ 3 \in 1 .. 5 /\ 4 \in 1 .. 5 /\ 5 \in 1 .. 5
  OBVIOUS
<1>3. \A i \in 1 .. 5 : i = 1 \/ i = 2 \/ i = 3 \/ i = 4 \/ i = 5
  OBVIOUS
<1>4. BoundaryBinds(p, call) <=> \A i \in 1 .. 5 : Passes(CONJUNCT_ORDER[i], p, call, Conjuncts)
  BY <1>1, <1>3, NamedConjuncts DEF BoundaryBinds, Stops
<1>5. BoundaryBinds(p, call) <=>
        /\ Passes("crypto_chain_ok", p, call, Conjuncts)
        /\ Passes("authorizer_policy_ok", p, call, Conjuncts)
        /\ Passes("htc_chain_ok", p, call, Conjuncts)
        /\ Passes("holder_proof_ok", p, call, Conjuncts)
        /\ Passes("invocation_binding_ok", p, call, Conjuncts)
  BY <1>1, <1>2, <1>3, <1>4
<1> QED BY <1>5 DEF Passes

(* Under a verified chain the boundary takes the task from the capability and
   the verifier from the last HTC, and they are one. *)
LEMMA InvocationsSame ==
  ASSUME TypeOK, NEW p \in Staged, HopsIssued(p.hops), Signed(p.htc), NEW call \in Calls,
         CryptoChainOk(p), AuthorizerPolicyOk(p, call), HtcChainOk(p, Conjuncts)
  PROVE  HolderProofOk(p, Conjuncts) /\ InvocationBindingOk(p, call, Conjuncts)
           <=> VerifiedInvocation(p, call) /\ IsFresh(p.now, p.inv.iat)
<1>1. PICK d \in DOMAIN delegations, n \in 1 .. 2 :
        p.hops = Prefixes(d, n) /\ Last(p.htc).task = delegations[d].task
  BY HoldersOfTheDelegation
<1>2. p.hops[1] = <<d, 1>>
  <2>1. 1 \in 1 .. n
    OBVIOUS
  <2> QED BY <1>1, <2>1, PrefixesFacts
<1>3. p.task = delegations[d].task
  <2>1. Allowed(<<d, 1>>, p) # {}
    BY <1>2 DEF AuthorizerPolicyOk
  <2> QED BY <2>1 DEF Allowed
<1>4. "crypto_chain_ok" \in Conjuncts /\ "htc_chain_ok" \in Conjuncts
  BY NamedConjuncts
<1> QED BY <1>1, <1>3, <1>4 DEF HolderProofOk, InvocationBindingOk, VerifiedInvocation

(* The boundary's first five limbs and the independent verifiers accept the
   same of everything that is ever staged, and agree on what each hop allows. *)
THEOREM ChainTwoReadingsAgree == Spec => []TwoReadingsAgree
<1>1. ASSUME ChainInv PROVE TwoReadingsAgree
  <2> SUFFICES ASSUME B3Proper, staged # Nothing
               PROVE  /\ \A call \in Calls :
                           BoundaryBinds(staged, call) <=>
                             /\ HarnessChain(staged) /\ AllowedPerHop(staged)[1] # {}
                             /\ Required[call] # Malformed
                             /\ Verified(staged, call)
                             /\ IsFresh(staged.now, staged.inv.iat)
                      /\ HarnessChain(staged) =>
                           /\ \A n \in 2 .. Len(AllowedPerHop(staged)) :
                                AllowedPerHop(staged)[n] \subseteq AllowedPerHop(staged)[n - 1]
                           /\ \A call \in Calls :
                                ContainmentOk(staged, call) <=>
                                  Required[call] \in AllowedPerHop(staged)[Len(AllowedPerHop(staged))]
    BY DEF TwoReadingsAgree
  <2>1. /\ TypeOK /\ staged \in Staged /\ HopsPresented(staged.hops) /\ Signed(staged.htc)
        /\ Running = Conjuncts
    BY <1>1, UntouchedFacts, B3RunsThemAll DEF TypeOK
  <2>0. CryptoChainOk(staged) => HopsIssued(staged.hops)
    BY <2>1, UnderKappaIssued DEF CryptoChainOk
  <2>2. "crypto_chain_ok" \in Conjuncts
    BY NamedConjuncts
  <2>3. HarnessChain(staged) <=> CryptoChainOk(staged)
    BY <2>1, ChainSame
  <2>4. /\ DOMAIN staged.hops = 1 .. Len(staged.hops) /\ Len(staged.hops) \in 1 .. 2
        /\ Len(AllowedPerHop(staged)) = Len(staged.hops)
        /\ \A n \in 1 .. Len(staged.hops) : AllowedPerHop(staged)[n] = Allowed(staged.hops[n], staged)
    BY <2>1, HopsFacts
  <2>5. AllowedPerHop(staged)[1] = Allowed(staged.hops[1], staged)
    BY <2>4
  <2>6. ASSUME NEW call \in Calls
        PROVE  BoundaryBinds(staged, call) <=>
                 /\ HarnessChain(staged) /\ AllowedPerHop(staged)[1] # {}
                 /\ Required[call] # Malformed
                 /\ Verified(staged, call)
                 /\ IsFresh(staged.now, staged.inv.iat)
    <3>1. BoundaryBinds(staged, call) <=>
            /\ CryptoChainOk(staged) /\ AuthorizerPolicyOk(staged, call)
            /\ HtcChainOk(staged, Conjuncts)
            /\ HolderProofOk(staged, Conjuncts) /\ InvocationBindingOk(staged, call, Conjuncts)
      BY <2>1, FirstFive
    <3>2. AuthorizerPolicyOk(staged, call) <=>
            Required[call] # Malformed /\ AllowedPerHop(staged)[1] # {}
      BY <2>5 DEF AuthorizerPolicyOk
    <3>3. CryptoChainOk(staged) =>
            (Verified(staged, call)
               <=> HtcChainOk(staged, Conjuncts) /\ VerifiedInvocation(staged, call))
      <4>1. CryptoChainOk(staged) => UnderKappa(Last(staged.hops))
        BY <2>4 DEF CryptoChainOk, Last
      <4> QED BY <2>2, <4>1, LinksSame DEF Verified
    <3>4. CryptoChainOk(staged) /\ AuthorizerPolicyOk(staged, call) /\ HtcChainOk(staged, Conjuncts)
            => (HolderProofOk(staged, Conjuncts) /\ InvocationBindingOk(staged, call, Conjuncts)
                  <=> VerifiedInvocation(staged, call) /\ IsFresh(staged.now, staged.inv.iat))
      BY <2>0, <2>1, InvocationsSame
    <3> QED BY <2>3, <3>1, <3>2, <3>3, <3>4
  <2>7. ASSUME CryptoChainOk(staged), NEW n \in 2 .. Len(AllowedPerHop(staged))
        PROVE  AllowedPerHop(staged)[n] \subseteq AllowedPerHop(staged)[n - 1]
    <3>1. n \in 2 .. Len(staged.hops) /\ n \in 1 .. Len(staged.hops) /\ n - 1 \in 1 .. Len(staged.hops)
      BY <2>4, <2>7
    <3>2. Allowed(staged.hops[n], staged) \subseteq Allowed(staged.hops[n - 1], staged)
      BY <2>0, <2>1, <2>7, <3>1, HopsAttenuate
    <3> QED BY <2>4, <3>1, <3>2
  <2>8. AllowedPerHop(staged)[Len(AllowedPerHop(staged))] = Allowed(Last(staged.hops), staged)
    <3>1. Len(staged.hops) \in 1 .. Len(staged.hops)
      BY <2>4
    <3>2. AllowedPerHop(staged)[Len(staged.hops)] = Allowed(staged.hops[Len(staged.hops)], staged)
      BY <2>4, <3>1
    <3> QED BY <2>4, <3>2 DEF Last
  <2> QED BY <2>3, <2>6, <2>7, <2>8 DEF ContainmentOk
<1> QED BY <1>1, ChainInvariant, PTL
=============================================================================
