------------------------- MODULE PolicyPlaneProofs -------------------------
(***************************************************************************)
(* An approval is consent to one effect.  Whatever is presented, with      *)
(* whichever call, a monitored arm's high-risk effects go back to an       *)
(* approval minted for that call, and no two share one within Delta.       *)
(*                                                                         *)
(* ConsentIsSpent is not inductive: it does not say why an approval that   *)
(* was used cannot be admitted again.  The cache does (Remembered), and    *)
(* only while it forgets nothing that is still within Delta, which is what *)
(* ConsumedFacts says of it, for the declassification spent first too.     *)
(***************************************************************************)
EXTENDS PolicyPlane, ReplayCacheProofs

(* The approvals an effect used, and the ones the cache still remembers. *)
EffectsAreConsented ==
  \A i \in DOMAIN effects :
    /\ effects[i].at <= now
    /\ \E m \in minted :
         /\ m.scenario.approval /\ m.scenario.goal = effects[i].call
         /\ m.at <= effects[i].at /\ effects[i].at <= m.at + Delta

EffectsAreSpaced ==
  \A i, j \in DOMAIN effects :
    (i < j /\ effects[i].call = effects[j].call) => effects[j].at - effects[i].at >= Delta

Remembered ==
  \A i \in DOMAIN effects :
    effects[i].at + Delta > now =>
      /\ <<"approval", effects[i].call>> \in DOMAIN spent
      /\ spent[<<"approval", effects[i].call>>] >= effects[i].at + Delta

ConsentInv ==
  /\ TypeOK /\ IsFiniteSet(minted)
  /\ EffectsAreConsented
  /\ EffectsAreSpaced
  /\ Remembered

-----------------------------------------------------------------------------
(* What may be presented. *)

(* An artifact of a scenario, misissued or not, keeps its goal, its instant  *)
(* and its id. *)
LEMMA ApprovalIsMinted ==
  ASSUME NEW a \in Approvals, a # Nothing
  PROVE  \E m \in minted :
           /\ m.scenario.approval
           /\ a.goal = m.scenario.goal /\ a.iat = m.at /\ a.jti = m.scenario.goal
<1>1. PICK m \in minted : m.scenario.approval
                          /\ a \in {MintedApproval(m)} \cup MisissuedApproval(MintedApproval(m))
  BY DEF Approvals
<1> DEFINE b == MintedApproval(m)
<1>2. b.goal = m.scenario.goal /\ b.iat = m.at /\ b.jti = m.scenario.goal
  BY DEF MintedApproval
<1>3. a = b \/ a = [b EXCEPT !.by = LabelIssuer] \/ a = [b EXCEPT !.rule = "multi-use"]
  BY <1>1 DEF MisissuedApproval
<1>4. a.goal = b.goal /\ a.iat = b.iat /\ a.jti = b.jti
  BY <1>3 DEF MintedApproval
<1> QED
  BY <1>1, <1>2, <1>4

(* A declassification that can be presented was minted for some scenario. *)
LEMMA DeclassIsMinted ==
  ASSUME NEW d \in Declasses, d # Nothing
  PROVE  \E m \in minted : d.jti = m.scenario.goal
<1>1. PICK m \in minted : d \in {MintedDeclass(m)} \cup MisissuedDeclass(MintedDeclass(m))
  BY DEF Declasses
<1> DEFINE b == MintedDeclass(m)
<1>2. b.jti = m.scenario.goal
  BY DEF MintedDeclass
<1>3. \/ d = b \/ d = [b EXCEPT !.by = LabelIssuer] \/ d = [b EXCEPT !.version = "superseded"]
      \/ d = [b EXCEPT !.recipient = "internal-sink"] \/ d = [b EXCEPT !.target = "internal"]
  BY <1>1 DEF MisissuedDeclass
<1>4. d.jti = b.jti
  BY <1>3 DEF MintedDeclass
<1> QED
  BY <1>1, <1>2, <1>4

-----------------------------------------------------------------------------
(* What a decision does to the cache. *)

(* The ids of the two mechanisms are ids the cache may hold. *)
LEMMA KeysOfAPresentation ==
  ASSUME NEW p \in Presentations, TypeOK
  PROVE  /\ p.declass # Nothing => DeclassKey(p) \in Keys
         /\ p.approval # Nothing => ApprovalKey(p) \in Keys
<1>1. \A m \in minted : m.scenario.goal \in Calls
  BY PolicyPlaneAssumption DEF TypeOK
<1>2. p.declass \in Declasses /\ p.approval \in Approvals
  BY DEF Presentations
<1>3. ASSUME p.declass # Nothing PROVE DeclassKey(p) \in Keys
  <2>1. p.declass.jti \in Calls
    BY <1>1, <1>2, <1>3, DeclassIsMinted
  <2> QED
    BY <2>1, PolicyPlaneAssumption DEF DeclassKey
<1>4. ASSUME p.approval # Nothing PROVE ApprovalKey(p) \in Keys
  <2>1. p.approval.jti \in Calls
    BY <1>1, <1>2, <1>4, ApprovalIsMinted
  <2> QED
    BY <2>1, PolicyPlaneAssumption DEF ApprovalKey
<1> QED
  BY <1>3, <1>4

(* A cache that is passed through context_decision, or through both, is a    *)
(* cache, and has forgotten nothing that is still live. *)
KeepsLive(before, after) ==
  \A k \in DOMAIN before : before[k] > now => k \in DOMAIN after /\ after[k] = before[k]

BoundedCache(entries) == IsCache(entries) /\ Cardinality(DOMAIN entries) <= Capacity

(* A consumption forgets no live entry. *)
LEMMA ConsumedKeepsLive ==
  ASSUME NEW entries, NEW k \in Keys, now \in Nat, BoundedCache(entries)
  PROVE  BoundedCache(Consumed(entries, k, now)) /\ KeepsLive(entries, Consumed(entries, k, now))
BY ConsumedIsCache, ConsumedFacts DEF BoundedCache, KeepsLive

(* Nor does the conjunct that spends the declassification. *)
LEMMA ContextKeepsLive ==
  ASSUME NEW p \in Presentations, TypeOK
  PROVE  BoundedCache(AfterContext(p)) /\ KeepsLive(spent, AfterContext(p))
<1>1. now \in Nat /\ BoundedCache(spent)
  BY PolicyPlaneAssumption DEF TypeOK, BoundedCache
<1>2. CASE SpendsDeclass(p)
  <2>1. DeclassKey(p) \in Keys
    BY <1>2, KeysOfAPresentation DEF SpendsDeclass, DeclassBinds
  <2> QED
    BY <1>1, <1>2, <2>1, ConsumedKeepsLive DEF AfterContext
<1>3. CASE ~SpendsDeclass(p)
  BY <1>1, <1>3 DEF AfterContext, KeepsLive
<1> QED
  BY <1>2, <1>3

(* Nor do the two conjuncts together. *)
LEMMA MonitorKeepsLive ==
  ASSUME NEW p \in Presentations, TypeOK
  PROVE  BoundedCache(AfterMonitor(p)) /\ KeepsLive(spent, AfterMonitor(p))
<1>1. BoundedCache(AfterContext(p)) /\ KeepsLive(spent, AfterContext(p))
  BY ContextKeepsLive
<1>2. now \in Nat
  BY PolicyPlaneAssumption DEF TypeOK
<1>3. CASE ContextPolicyOk(p) /\ ApprovalAsked(p) /\ ApprovalBinds(p)
  <2>1. ApprovalKey(p) \in Keys
    BY <1>3, KeysOfAPresentation DEF ApprovalBinds
  <2> DEFINE after == Consumed(AfterContext(p), ApprovalKey(p), now)
  <2>2. BoundedCache(after) /\ KeepsLive(AfterContext(p), after)
    BY <1>1, <1>2, <2>1, ConsumedKeepsLive
  <2>3. AfterMonitor(p) = after
    BY <1>3 DEF AfterMonitor
  <2> HIDE DEF after
  <2> QED
    BY <1>1, <2>2, <2>3 DEF KeepsLive
<1>4. CASE ~(ContextPolicyOk(p) /\ ApprovalAsked(p) /\ ApprovalBinds(p))
  BY <1>1, <1>4 DEF AfterMonitor
<1> QED
  BY <1>3, <1>4

(* An effect the monitor admits: its approval was minted for this call at    *)
(* most Delta ago, was not live in the cache, and is from now on. *)
LEMMA AdmittedEffect ==
  ASSUME NEW p \in Presentations, TypeOK, MonitorAdmits(p), HighRisk(p.call.tool)
  PROVE  LET k == <<"approval", p.call>>
         IN  /\ \E m \in minted :
                  /\ m.scenario.approval /\ m.scenario.goal = p.call
                  /\ m.at <= now /\ now <= m.at + Delta
             /\ ~(k \in DOMAIN spent /\ spent[k] > now)
             /\ k \in DOMAIN AfterMonitor(p) /\ AfterMonitor(p)[k] = now + Delta
<1> DEFINE k == <<"approval", p.call>>
<1>1. ContextPolicyOk(p) /\ ApprovalAsked(p) /\ ApprovalBinds(p)
      /\ Outcome(AfterContext(p), ApprovalKey(p), now) = "admitted"
  BY DEF MonitorAdmits, ApprovalArtifactOk, ApprovalAsked
<1>2. /\ p.approval # Nothing /\ p.approval \in Approvals /\ p.approval.goal = p.call
      /\ p.approval.iat <= now /\ now - p.approval.iat <= Delta
  BY <1>1 DEF Presentations, ApprovalBinds, InClosedWindow, IsFresh
<1>3. PICK m \in minted :
        /\ m.scenario.approval /\ p.approval.goal = m.scenario.goal
        /\ p.approval.iat = m.at /\ p.approval.jti = m.scenario.goal
  BY <1>2, ApprovalIsMinted
<1>4. now \in Nat /\ Delta \in Nat /\ m.at \in Nat
  BY <1>3, PolicyPlaneAssumption, ReplayCacheAssumption DEF TypeOK
<1>5. m.scenario.goal = p.call /\ m.at <= now /\ now <= m.at + Delta
  BY <1>2, <1>3, <1>4
<1>6. ApprovalKey(p) = k /\ k \in Keys
  BY <1>2, <1>3, <1>5, KeysOfAPresentation DEF ApprovalKey
<1>7. BoundedCache(AfterContext(p)) /\ KeepsLive(spent, AfterContext(p))
  BY ContextKeepsLive
<1>8. AfterMonitor(p) = Consumed(AfterContext(p), k, now)
  BY <1>1, <1>6 DEF AfterMonitor
<1>9. /\ k \in DOMAIN AfterMonitor(p) /\ AfterMonitor(p)[k] = now + Delta
      /\ ~(k \in DOMAIN AfterContext(p) /\ AfterContext(p)[k] > now)
  BY <1>1, <1>4, <1>6, <1>7, <1>8, ConsumedFacts DEF BoundedCache
<1>10. ~(k \in DOMAIN spent /\ spent[k] > now)
  BY <1>7, <1>9 DEF KeepsLive
<1> HIDE DEF k
<1> QED
  BY <1>3, <1>5, <1>9, <1>10 DEF k

-----------------------------------------------------------------------------
(* The steps. *)

(* A set of mints grows by at most one. *)
LEMMA OneMore ==
  ASSUME NEW S, NEW x, IsFiniteSet(S)
  PROVE  /\ IsFiniteSet(S \cup {x})
         /\ Cardinality(S \cup {x}) \in Nat /\ Cardinality(S) \in Nat
         /\ Cardinality(S \cup {x}) <= Cardinality(S) + 1
<1>1. Cardinality(S) \in Nat
  BY FS_CardinalityType
<1>2. /\ IsFiniteSet(S \cup {x})
      /\ Cardinality(S \cup {x}) = IF x \in S THEN Cardinality(S) ELSE Cardinality(S) + 1
  BY FS_AddElement, Zenon
<1> QED
  BY <1>1, <1>2

(* The instants of the effects are natural numbers. *)
LEMMA EffectInstants ==
  ASSUME TypeOK
  PROVE  \A i \in DOMAIN effects : effects[i].at \in Nat
<1> SUFFICES ASSUME NEW i \in DOMAIN effects PROVE effects[i].at \in Nat
  OBVIOUS
<1>1. effects[i] \in Effects
  BY DEF TypeOK
<1>2. effects[i].at \in Instants
  BY <1>1 DEF Effects
<1> QED
  BY <1>2, ReplayCacheAssumption

(* Before the first scenario nothing has taken effect. *)
LEMMA InitConsent == Init => ConsentInv
<1> SUFFICES ASSUME Init PROVE ConsentInv
  OBVIOUS
<1>1. now \in Instants /\ effects = <<>> /\ effects \in Seq(Effects) /\ Len(effects) = 0
  BY PolicyPlaneAssumption DEF Init
<1>2. minted = {} /\ IsFiniteSet(minted) /\ Cardinality(minted) = 0
  BY FS_EmptySet DEF Init
<1>3. IsCache(spent) /\ DOMAIN spent = {} /\ Cardinality(DOMAIN spent) = 0
  BY FS_EmptySet DEF Init, EmptyCache, IsCache
<1>4. TypeOK
  BY <1>1, <1>2, <1>3, PolicyPlaneAssumption, ReplayCacheAssumption DEF TypeOK, Init
<1>5. DOMAIN effects = {}
  BY <1>1
<1> QED
  BY <1>2, <1>4, <1>5 DEF ConsentInv, EffectsAreConsented, EffectsAreSpaced, Remembered

(* Time passing preserves the invariant. *)
LEMMA TickConsent == ConsentInv /\ Tick => ConsentInv'
<1> SUFFICES ASSUME ConsentInv, Tick PROVE ConsentInv'
  OBVIOUS
<1> USE DEF ConsentInv
<1>1. /\ now \in Nat /\ now' \in Nat /\ now' = now + 1 /\ now' \in Instants
  BY PolicyPlaneAssumption DEF TypeOK, Tick
<1>2. UNCHANGED <<arm, minted, spent, effects>>
  BY DEF Tick
<1>3. TypeOK'
  BY <1>1, <1>2 DEF TypeOK
<1>4. \A i \in DOMAIN effects : effects[i].at \in Nat
  BY EffectInstants
<1>5. EffectsAreConsented'
  BY <1>1, <1>2, <1>4 DEF EffectsAreConsented
<1>6. EffectsAreSpaced'
  BY <1>2 DEF EffectsAreSpaced
<1>7. Remembered'
  BY <1>1, <1>2, <1>4, ReplayCacheAssumption DEF Remembered
<1> QED
  BY <1>2, <1>3, <1>5, <1>6, <1>7

(* Minting artifacts preserves it. *)
LEMMA MintConsent == ASSUME ConsentInv, NEW s \in Scenarios, Mint(s) PROVE ConsentInv'
<1> USE DEF ConsentInv
<1> DEFINE m == [scenario |-> s, at |-> now]
<1>1. minted' = minted \cup {m} /\ Cardinality(minted) < MaxMints
      /\ UNCHANGED <<arm, now, spent, effects>>
  BY DEF Mint
<1>2. IsFiniteSet(minted') /\ Cardinality(minted') <= MaxMints
  <2>1. /\ IsFiniteSet(minted \cup {m})
        /\ Cardinality(minted \cup {m}) \in Nat /\ Cardinality(minted) \in Nat
        /\ Cardinality(minted \cup {m}) <= Cardinality(minted) + 1
    BY OneMore
  <2> QED
    BY <1>1, <2>1, PolicyPlaneAssumption
<1>3. TypeOK'
  BY <1>1, <1>2 DEF TypeOK
<1>4. EffectsAreConsented'
  BY <1>1 DEF EffectsAreConsented
<1>5. EffectsAreSpaced' /\ Remembered'
  BY <1>1 DEF EffectsAreSpaced, Remembered
<1> QED
  BY <1>2, <1>3, <1>4, <1>5

(* A decision that leaves no high-risk effect. *)
LEMMA DecideNoEffect ==
  ASSUME ConsentInv, NEW p \in Presentations, NEW after \in BOOLEAN, Decide(p, after),
         effects' = effects
  PROVE  ConsentInv'
<1> USE DEF ConsentInv
<1>1. UNCHANGED <<arm, now, minted, effects>> /\ now \in Nat
  BY PolicyPlaneAssumption DEF Decide, TypeOK
<1>2. BoundedCache(spent') /\ KeepsLive(spent, spent')
  <2>1. CASE arm.monitored
    BY <2>1, MonitorKeepsLive DEF Decide
  <2>2. CASE ~arm.monitored
    BY <2>2 DEF Decide, BoundedCache, KeepsLive, TypeOK
  <2> QED
    BY <2>1, <2>2
<1>3. TypeOK'
  BY <1>1, <1>2 DEF TypeOK, BoundedCache
<1>4. \A i \in DOMAIN effects : effects[i].at \in Nat
  BY EffectInstants
<1>5. \A k \in DOMAIN spent : spent[k] \in Nat
  BY DEF TypeOK, IsCache
<1>6. Remembered'
  BY <1>1, <1>2, <1>4, <1>5, ReplayCacheAssumption DEF Remembered, KeepsLive
<1> QED
  BY <1>1, <1>3, <1>6 DEF EffectsAreConsented, EffectsAreSpaced

(* A decision that leaves one: the approval it used was not live, so every   *)
(* earlier effect of that call is Delta old, and it is live from now on. *)
LEMMA DecideEffect ==
  ASSUME ConsentInv, NEW p \in Presentations, NEW after \in BOOLEAN, Decide(p, after),
         effects' # effects
  PROVE  ConsentInv'
<1> USE DEF ConsentInv
<1> DEFINE e == [call |-> p.call, at |-> now]
           k == <<"approval", p.call>>
           n == Len(effects)
<1>1. /\ arm.monitored /\ MonitorAdmits(p) /\ HighRisk(p.call.tool)
      /\ effects' = Append(effects, e) /\ spent' = AfterMonitor(p)
      /\ UNCHANGED <<arm, now, minted>> /\ n < MaxEffects
  BY DEF Decide, PlaneAdmits
<1>2. now \in Nat /\ Delta \in Nat /\ n \in Nat /\ effects \in Seq(Effects)
  BY PolicyPlaneAssumption, ReplayCacheAssumption DEF TypeOK
<1>3. e \in Effects
  BY DEF Effects, TypeOK, Presentations
<1>4. BoundedCache(spent') /\ KeepsLive(spent, spent')
  BY <1>1, MonitorKeepsLive
<1>5. /\ \E m \in minted :
           /\ m.scenario.approval /\ m.scenario.goal = p.call
           /\ m.at <= now /\ now <= m.at + Delta
      /\ ~(k \in DOMAIN spent /\ spent[k] > now)
      /\ k \in DOMAIN spent' /\ spent'[k] = now + Delta
  BY <1>1, AdmittedEffect
<1>6. /\ DOMAIN effects' = 1 .. n + 1 /\ DOMAIN effects = 1 .. n
      /\ Len(effects') = n + 1 /\ effects'[n + 1] = e
      /\ \A i \in DOMAIN effects : effects'[i] = effects[i]
      /\ effects' \in Seq(Effects)
  BY <1>1, <1>2, <1>3
<1>7. TypeOK'
  <2>1. Len(effects') <= MaxEffects
    <3>1. n < MaxEffects /\ n \in Nat /\ Len(effects') = n + 1 /\ MaxEffects \in Nat
      BY <1>1, <1>2, <1>6, PolicyPlaneAssumption
    <3> HIDE DEF n
    <3> QED
      BY <3>1
  <2>2. (arm' \in [capability : BOOLEAN, monitored : BOOLEAN] /\ now' \in Instants
         /\ minted' \subseteq [scenario : Scenarios, at : Instants]
         /\ Cardinality(minted') <= MaxMints)
    BY <1>1 DEF TypeOK
  <2> QED
    BY <1>4, <1>6, <2>1, <2>2 DEF TypeOK, BoundedCache
<1>8. \A i \in DOMAIN effects : effects[i].at \in Nat
  BY EffectInstants
<1>9. \A i \in DOMAIN effects : effects[i].call = p.call => now - effects[i].at >= Delta
  BY <1>2, <1>5, <1>8 DEF Remembered, TypeOK, IsCache
<1>10. e.call = p.call /\ e.at = now
  OBVIOUS
<1>11. \A i \in DOMAIN effects' : i = n + 1 \/ i \in DOMAIN effects
  BY <1>2, <1>6
<1>12. \A i \in DOMAIN effects : i \in Nat /\ i < n + 1
  BY <1>2, <1>6
<1> HIDE DEF e, k, n
<1>13. EffectsAreConsented'
  BY <1>1, <1>2, <1>5, <1>6, <1>10, <1>11 DEF EffectsAreConsented
<1>14. EffectsAreSpaced'
  BY <1>2, <1>6, <1>9, <1>10, <1>11, <1>12 DEF EffectsAreSpaced
<1>15. \A x \in DOMAIN spent : spent[x] \in Nat
  BY DEF TypeOK, IsCache
<1>16. Remembered'
  <2> SUFFICES ASSUME NEW i \in DOMAIN effects', effects'[i].at + Delta > now
               PROVE  /\ <<"approval", effects'[i].call>> \in DOMAIN spent'
                      /\ spent'[<<"approval", effects'[i].call>>] >= effects'[i].at + Delta
    BY <1>1 DEF Remembered
  <2>1. CASE i = n + 1
    BY <1>2, <1>5, <1>6, <1>10, <2>1 DEF k
  <2>2. CASE i \in DOMAIN effects
    BY <1>2, <1>4, <1>6, <1>8, <1>15, <2>2 DEF Remembered, KeepsLive
  <2> QED
    BY <1>11, <2>1, <2>2
<1> QED
  BY <1>1, <1>7, <1>13, <1>14, <1>16

(* The strengthening holds of every behaviour. *)
THEOREM ConsentInductive == Spec => []ConsentInv
<1>1. ConsentInv /\ [Next]_vars => ConsentInv'
  <2> SUFFICES ASSUME ConsentInv, [Next]_vars PROVE ConsentInv'
    OBVIOUS
  <2>1. CASE Tick
    BY <2>1, TickConsent
  <2>2. CASE \E s \in Scenarios : Mint(s)
    BY <2>2, MintConsent
  <2>3. CASE \E p \in Presentations, after \in BOOLEAN : Decide(p, after)
    BY <2>3, DecideNoEffect, DecideEffect
  <2>4. CASE UNCHANGED vars
    BY <2>4 DEF vars, ConsentInv, TypeOK, EffectsAreConsented, EffectsAreSpaced, Remembered
  <2> QED
    BY <2>1, <2>2, <2>3, <2>4 DEF Next
<1> QED
  BY <1>1, InitConsent, PTL DEF Spec

(* The replay cache of the monitor is a bounded map over the ids of the two   *)
(* mechanisms, and what was minted and what took effect stay within bounds.   *)
THEOREM PolicyPlaneTypeOK == Spec => []TypeOK
BY ConsentInductive, PTL DEF ConsentInv

(* ContextApprovalMonitor: a high-risk effect under a monitor goes back to an *)
(* approval minted for that very call at most Delta before, and two effects   *)
(* of one call are at least Delta apart.                                      *)
THEOREM PolicyPlaneConsentIsSpent == Spec => []ConsentIsSpent
<1>1. ConsentInv => ConsentIsSpent
  BY DEF ConsentInv, ConsentIsSpent, EffectsAreConsented, EffectsAreSpaced
<1> QED
  BY <1>1, ConsentInductive, PTL

-----------------------------------------------------------------------------
(* Monitor and oracle.  Neither property needs a history: each is about one  *)
(* presentation in one state, and follows from what the artifacts were       *)
(* minted as. *)

(* A declassification is its scenario's, about the body of its goal and with *)
(* its label; it lives for Lifetime. *)
LEMMA DeclassOfItsGoal ==
  ASSUME TypeOK, NEW d \in Declasses, d # Nothing
  PROVE  /\ d.goal \in Calls /\ d.value = d.goal.body /\ d.from = Ingested[d.goal.body]
         /\ d.iat \in Instants /\ d.exp = d.iat + Lifetime
         /\ d.target \in {"public", "internal"}
<1>1. PICK m \in minted : d \in {MintedDeclass(m)} \cup MisissuedDeclass(MintedDeclass(m))
  BY DEF Declasses
<1> DEFINE b == MintedDeclass(m)
<1>2. /\ b.goal = m.scenario.goal /\ b.value = b.goal.body /\ b.from = Ingested[b.goal.body]
      /\ b.iat = m.at /\ b.exp = b.iat + Lifetime /\ b.target = "public"
  BY DEF MintedDeclass
<1>3. \/ d = b \/ d = [b EXCEPT !.by = LabelIssuer] \/ d = [b EXCEPT !.version = "superseded"]
      \/ d = [b EXCEPT !.recipient = "internal-sink"] \/ d = [b EXCEPT !.target = "internal"]
  BY <1>1 DEF MisissuedDeclass
<1>4. /\ d.goal = b.goal /\ d.value = b.value /\ d.from = b.from /\ d.iat = b.iat /\ d.exp = b.exp
      /\ d.target \in {b.target, "internal"}
  BY <1>3 DEF MintedDeclass
<1>5. m.scenario.goal \in Calls /\ m.at \in Instants
  BY PolicyPlaneAssumption DEF TypeOK
<1> QED
  BY <1>2, <1>4, <1>5

(* An approval lives for Lifetime too. *)
LEMMA ApprovalLifetime ==
  ASSUME TypeOK, NEW a \in Approvals, a # Nothing
  PROVE  a.iat \in Instants /\ a.exp = a.iat + Lifetime
<1>1. PICK m \in minted : a \in {MintedApproval(m)} \cup MisissuedApproval(MintedApproval(m))
  BY DEF Approvals
<1> DEFINE b == MintedApproval(m)
<1>2. b.iat = m.at /\ b.exp = b.iat + Lifetime
  BY DEF MintedApproval
<1>3. a = b \/ a = [b EXCEPT !.by = LabelIssuer] \/ a = [b EXCEPT !.rule = "multi-use"]
  BY <1>1 DEF MisissuedApproval
<1>4. a.iat = b.iat /\ a.exp = b.exp
  BY <1>3 DEF MintedApproval
<1>5. m.at \in Instants
  BY DEF TypeOK
<1> QED
  BY <1>2, <1>4, <1>5

(* What is fresh is within the half-open window as well: Delta is less than  *)
(* the lifetime of an artifact. *)
LEMMA FreshIsOpen ==
  ASSUME TypeOK, NEW x, x.iat \in Instants, x.exp = x.iat + Lifetime,
         InClosedWindow(x), IsFresh(now, x.iat)
  PROVE  InHalfOpenWindow(x)
<1>1. now \in Int /\ x.iat \in Int /\ Lifetime \in Int /\ Delta \in Int /\ Lifetime > Delta
  BY PolicyPlaneAssumption, ReplayCacheAssumption DEF TypeOK
<1> QED
  BY <1>1 DEF InClosedWindow, InHalfOpenWindow, IsFresh

(* Nothing ranks above sensitive, and it goes nowhere. *)
LEMMA SensitiveFacts ==
  /\ Rank("public") = 1 /\ Rank("internal") = 2 /\ Rank("sensitive") = 3
  /\ Vocabulary = {"public", "internal", "sensitive"}
  /\ \A sink : EgressDecision("sensitive", sink) # "permit"
  /\ \A sink : EgressDecision(Unlabelled, sink) # "permit"
<1>1. DOMAIN Order = 1 .. 3 /\ Order[1] = "public" /\ Order[2] = "internal" /\ Order[3] = "sensitive"
  BY DEF Order
<1>2. Vocabulary = {"public", "internal", "sensitive"}
  BY <1>1 DEF Vocabulary
<1>3. Rank("public") = 1 /\ Rank("internal") = 2 /\ Rank("sensitive") = 3
  BY <1>1 DEF Rank
<1>4. \A sink : EgressDecision("sensitive", sink) # "permit" /\ EgressDecision(Unlabelled, sink) # "permit"
  BY DEF EgressDecision, AllowedPairs, Severity, Unlabelled
<1> QED
  BY <1>2, <1>3, <1>4

(* The least upper bound of labels that include sensitive is sensitive. *)
LEMMA JoinSensitive ==
  ASSUME NEW L \in SUBSET Vocabulary, "sensitive" \in L
  PROVE  Join(L) = "sensitive"
<1>1. \A l \in L : (\A k \in L : Rank(k) <= Rank(l)) <=> l = "sensitive"
  BY SensitiveFacts
<1> QED
  BY <1>1 DEF Join

(* The governing payload of a call with a sensitive body and no sensitive    *)
(* subject is its body. *)
LEMMA BodyGoverns ==
  ASSUME NEW call \in Calls, ~SubjectIsSensitive(call),
         NEW label \in LabelsTouched(call), IsSensitive(label)
  PROVE  /\ call.body \in DOMAIN Ingested /\ Ingested[call.body] = label
         /\ GoverningPayload(call) = call.body
<1>1. Directory \subseteq DOMAIN Ingested
  BY PolicyPlaneAssumption
<1>2. \A v \in Recognised(call) : v \in DOMAIN Ingested /\ v \in {call.body, call.subject}
  BY <1>1 DEF Recognised, ArgumentValues
<1>3. \A v \in Recognised(call) : Ingested[v] = "sensitive" <=> v = call.body
  <2>1. PICK v \in Recognised(call) : Ingested[v] = "sensitive"
    BY DEF LabelsTouched, IsSensitive
  <2>2. \A w \in Recognised(call) : Ingested[w] = "sensitive" => w = call.body
    BY <1>2 DEF SubjectIsSensitive, IsSensitive
  <2> QED
    BY <2>1, <2>2
<1>4. Join(LabelsTouched(call)) = "sensitive"
  <2>1. LabelsTouched(call) \in SUBSET Vocabulary
    BY <1>2, LabelsAssumption DEF LabelsTouched
  <2> QED
    BY <2>1, JoinSensitive DEF IsSensitive
<1>5. PICK v \in Recognised(call) : Ingested[v] = label
  BY DEF LabelsTouched
<1> QED
  BY <1>2, <1>3, <1>4, <1>5 DEF GoverningPayload, IsSensitive

(* Judged without the effect, the reference does not exonerate what the      *)
(* effect condemns. *)
LEMMA ReferenceForbidsHarm ==
  ASSUME TypeOK, NEW p \in Presentations, NamesTheRecipient(p), ~SubjectIsSensitive(p.call),
         ReferenceAllow(p.call, p)
  PROVE  ~RealizedHarm(p.call, p)
<1>1. ~RealizedHarmF5(p.call, p)
  BY DEF ReferenceAllow, RealizedHarmF5
<1>2. ASSUME NEW label \in LabelsTouched(p.call), IsSensitive(label)
      PROVE  ValidDeclassification(p.call, p, label, p.call.to, GoverningPayload(p.call))
  <2>1. p.call \in Calls /\ p.declass \in Declasses
    BY DEF Presentations
  <2>2. /\ p.call.body \in DOMAIN Ingested /\ Ingested[p.call.body] = label
        /\ GoverningPayload(p.call) = p.call.body
    BY <1>2, <2>1, BodyGoverns
  <2>3. label \in IntendedLabels(p.call)
    BY <2>2 DEF IntendedLabels
  <2>4. /\ p.declass # Nothing
        /\ ValidDeclassification(p.call, p, label, p.declass.recipient, p.declass.value)
    BY <1>2, <2>3 DEF ReferenceAllow
  <2>5. p.declass.value = p.call.body
    BY <2>1, <2>4, DeclassOfItsGoal DEF ValidDeclassification
  <2> QED
    BY <2>2, <2>4, <2>5 DEF ValidDeclassification, NamesTheRecipient
<1> QED
  BY <1>1, <1>2 DEF RealizedHarm, RealizedHarmF4

(* reference_allow and the realized-harm predicates: to admit a call whose   *)
(* effect is harmful is a breach, whatever was minted and presented. *)
THEOREM PolicyPlaneHarmIsABreach == Spec => []HarmIsABreach
<1>1. TypeOK => HarmIsABreach
  BY ReferenceForbidsHarm DEF HarmIsABreach, OfTheGoal
<1> QED
  BY <1>1, PolicyPlaneTypeOK, PTL

(* What a monitor that admits has verified of the call's sensitive body. *)
LEMMA AdmittedBody ==
  ASSUME TypeOK, NEW p \in Presentations, MonitorAdmits(p), p.call.to # Absent,
         p.call.body \in DOMAIN Ingested, IsSensitive(Ingested[p.call.body])
  PROVE  DeclassBinds(p) /\ VerifiedLabel(p) = "sensitive"
<1>1. /\ LabelsVerify(p)
      /\ EgressNeedsDeclass(p) => DeclassBinds(p)
      /\ p.labels \in Labellings
  BY DEF MonitorAdmits, ContextPolicyOk, Presentations
<1>2. \A a \in p.labels : a.label = "sensitive"
  BY <1>1, LabelsAssumption DEF LabelsVerify, LabelVerifies, Carried, IsSensitive
<1>3. CASE p.labels = {}
  <2>1. VerifiedLabel(p) = Unlabelled
    BY <1>3 DEF VerifiedLabel, Join
  <2>2. EgressNeedsDeclass(p)
    BY <2>1, SensitiveFacts DEF EgressNeedsDeclass
  <2>3. FALSE
    BY <1>1, <1>3, <2>2 DEF DeclassBinds
  <2> QED
    BY <2>3
<1>4. CASE p.labels # {}
  <2>1. {a.label : a \in p.labels} = {"sensitive"}
    BY <1>2, <1>4
  <2>2. VerifiedLabel(p) = "sensitive"
    BY <2>1, JoinSensitive, SensitiveFacts DEF VerifiedLabel
  <2>3. EgressNeedsDeclass(p)
    BY <2>2, SensitiveFacts DEF EgressNeedsDeclass
  <2> QED
    BY <1>1, <2>2, <2>3
<1> QED
  BY <1>3, <1>4

(* What the monitor requires of the artifacts is what the oracle's two       *)
(* validators ask. *)
LEMMA MonitorSuffices ==
  ASSUME TypeOK, NEW p \in Presentations, MonitorAdmits(p),
         p.call.to # Absent \/ ~\E l \in IntendedLabels(p.call) : IsSensitive(l)
  PROVE  ReferenceAllow(p.call, p)
<1>1. p.declass \in Declasses /\ p.approval \in Approvals
  BY DEF Presentations
<1>2. HighRisk(p.call.tool) => ValidApprovalBinds(p.call, p)
  <2> SUFFICES ASSUME HighRisk(p.call.tool) PROVE ValidApprovalBinds(p.call, p)
    OBVIOUS
  <2>1. ApprovalBinds(p)
    BY DEF MonitorAdmits, ApprovalArtifactOk, ApprovalAsked
  <2>2. InHalfOpenWindow(p.approval)
    BY <1>1, <2>1, ApprovalLifetime, FreshIsOpen DEF ApprovalBinds
  <2> QED
    BY <2>1, <2>2 DEF ApprovalBinds, ValidApprovalBinds
<1>3. ASSUME NEW label \in IntendedLabels(p.call), IsSensitive(label)
      PROVE  /\ p.declass # Nothing
             /\ ValidDeclassification(p.call, p, label, p.declass.recipient, p.declass.value)
  <2>1. p.call.body \in DOMAIN Ingested /\ Ingested[p.call.body] = label /\ p.call.to # Absent
    BY <1>3 DEF IntendedLabels
  <2>2. DeclassBinds(p) /\ VerifiedLabel(p) = label
    BY <1>3, <2>1, AdmittedBody DEF IsSensitive
  <2>3. InHalfOpenWindow(p.declass)
    BY <1>1, <2>2, DeclassOfItsGoal, FreshIsOpen DEF DeclassBinds
  <2>4. ~IsSensitive(p.declass.target)
    BY <1>1, <2>2, DeclassOfItsGoal DEF DeclassBinds, IsSensitive
  <2> QED
    BY <2>2, <2>3, <2>4 DEF DeclassBinds, ValidDeclassification
<1> QED
  BY <1>2, <1>3 DEF ReferenceAllow

(* ContextApprovalMonitor against reference_allow: what a policed arm admits *)
(* of the intended calls, the oracle allows and finds harmless. *)
THEOREM PolicyPlaneAdmissionIsSound == Spec => []AdmissionIsSound
<1>1. TypeOK => AdmissionIsSound
  <2> SUFFICES ASSUME TypeOK, Policed, NEW p \in OfTheGoal, PlaneAdmits(p),
                      p.call.to # Absent \/ ~\E l \in IntendedLabels(p.call) : IsSensitive(l)
               PROVE  /\ ReferenceAllow(p.call, p)
                      /\ ~SubjectIsSensitive(p.call) => ~RealizedHarm(p.call, p)
    BY DEF AdmissionIsSound
  <2>1. p \in Presentations /\ p.call \in Calls
    BY DEF OfTheGoal, Presentations
  <2>2. CASE arm.monitored
    <3>1. MonitorAdmits(p)
      BY <2>2 DEF PlaneAdmits
    <3>2. ReferenceAllow(p.call, p)
      BY <2>1, <3>1, MonitorSuffices
    <3>3. ~RealizedHarmF5(p.call, p)
      BY <3>2 DEF ReferenceAllow, RealizedHarmF5
    <3>4. ASSUME ~SubjectIsSensitive(p.call), RealizedHarmF4(p.call, p) PROVE FALSE
      <4>1. PICK label \in LabelsTouched(p.call) : IsSensitive(label)
        BY <3>4 DEF RealizedHarmF4
      <4>2. p.call.body \in DOMAIN Ingested /\ IsSensitive(Ingested[p.call.body])
        BY <2>1, <3>4, <4>1, BodyGoverns
      <4>3. DeclassBinds(p)
        BY <2>1, <3>1, <3>4, <4>2, AdmittedBody DEF RealizedHarmF4
      <4>4. NamesTheRecipient(p)
        BY <4>3 DEF DeclassBinds, NamesTheRecipient
      <4> QED
        BY <2>1, <3>2, <3>4, <4>4, ReferenceForbidsHarm DEF RealizedHarm
    <3> QED
      BY <3>2, <3>3, <3>4 DEF RealizedHarm
  <2>3. CASE ~arm.monitored
    <3>1. p.call.to = Absent /\ ~HighRisk(p.call.tool)
      BY <2>3 DEF Policed, PlaneAdmits, FailsClosed
    <3> QED
      BY <3>1 DEF ReferenceAllow, RealizedHarm, RealizedHarmF4, RealizedHarmF5
  <2> QED
    BY <2>2, <2>3
<1> QED
  BY <1>1, PolicyPlaneTypeOK, PTL

(* A label that is permitted nowhere it may go is sensitive, or internal on  *)
(* its way out. *)
LEMMA RefusedLabels ==
  ASSUME NEW label \in Vocabulary, NEW sink \in Sinks, EgressDecision(label, sink) # "permit"
  PROVE  label = "sensitive" \/ (label = "internal" /\ sink = "external-sink")
BY SensitiveFacts DEF EgressDecision, AllowedPairs, Sinks, Unlabelled

(* One labelled payload: the verified label is the one it was ingested with. *)
LEMMA VerifiedIsIngested ==
  ASSUME NEW p \in Presentations, ProperlyLabelled(p), p.call.to # Absent
  PROVE  /\ p.call.body \in DOMAIN Ingested /\ VerifiedLabel(p) = Ingested[p.call.body]
         /\ VerifiedLabel(p) \in Vocabulary
         /\ \E a \in p.labels : a.value = p.call.body /\ a.label = VerifiedLabel(p)
<1> DEFINE body == p.call.body
<1>1. p.call \in Calls /\ p.labels \in Labellings
  BY DEF Presentations
<1>2. Carried(p.call) = {body}
  BY <1>1, CallsAssumption DEF Carried
<1>3. \A a \in p.labels : a.value = body /\ body \in DOMAIN Ingested /\ a.label = Ingested[body]
  BY <1>1, <1>2, LabelsAssumption DEF ProperlyLabelled, LabelsVerify, LabelVerifies
<1>4. PICK a \in p.labels : a.value = body
  BY <1>2 DEF ProperlyLabelled
<1>5. {x.label : x \in p.labels} = {Ingested[body]} /\ Ingested[body] \in Vocabulary
  BY <1>3, <1>4, LabelsAssumption
<1>6. Join({Ingested[body]}) = Ingested[body]
  BY <1>5, SensitiveFacts DEF Join
<1> QED
  BY <1>3, <1>4, <1>5, <1>6 DEF VerifiedLabel

(* The half-open window is the narrower one. *)
LEMMA OpenIsClosed ==
  ASSUME TypeOK, NEW x, x.iat \in Instants, x.exp = x.iat + Lifetime, InHalfOpenWindow(x)
  PROVE  InClosedWindow(x)
<1>1. now \in Int /\ x.iat \in Int /\ x.exp \in Int
  BY PolicyPlaneAssumption, ReplayCacheAssumption DEF TypeOK
<1> QED
  BY <1>1 DEF InHalfOpenWindow, InClosedWindow

(* With room for one more entry, an id that is not live is admitted, and the *)
(* cache it leaves has grown by that id at most. *)
LEMMA RoomAdmits ==
  ASSUME TypeOK, NEW k \in Keys, k \notin DOMAIN Evicted(spent, now),
         Cardinality(DOMAIN Evicted(spent, now)) < Capacity
  PROVE  /\ Outcome(spent, k, now) = "admitted"
         /\ IsCache(Consumed(spent, k, now))
         /\ DOMAIN Evicted(Consumed(spent, k, now), now) \subseteq DOMAIN Evicted(spent, now) \cup {k}
         /\ Cardinality(DOMAIN Evicted(Consumed(spent, k, now), now))
              <= Cardinality(DOMAIN Evicted(spent, now)) + 1
<1> DEFINE live == Evicted(spent, now)
           after == Consumed(spent, k, now)
<1>1. /\ IsCache(spent) /\ now \in Nat /\ Cardinality(DOMAIN spent) <= Capacity /\ Capacity \in Nat
  BY ReplayCacheAssumption DEF TypeOK
<1>2. IsCache(live)
  BY <1>1, EvictedFacts
<1>3. IsFiniteSet(DOMAIN live) /\ Cardinality(DOMAIN live) \in Nat
  BY <1>2, FS_CardinalityType DEF IsCache
<1>4. Outcome(spent, k, now) = "admitted"
  BY <1>1, <1>3 DEF Outcome
<1>5. IsCache(after)
  BY <1>1, ConsumedIsCache
<1>6. DOMAIN after = DOMAIN live \cup {k}
  BY <1>4 DEF Consumed
<1>7. DOMAIN Evicted(after, now) \subseteq DOMAIN live \cup {k}
  BY <1>1, <1>5, <1>6, EvictedFacts
<1>8. Cardinality(DOMAIN Evicted(after, now)) <= Cardinality(DOMAIN after)
  BY <1>1, <1>5, EvictedFacts
<1>9. Cardinality(DOMAIN after) = Cardinality(DOMAIN live) + 1
  BY <1>3, <1>6, FS_AddElement
<1>10. IsFiniteSet(DOMAIN Evicted(after, now))
  BY <1>1, <1>5, EvictedFacts DEF IsCache
<1>11. Cardinality(DOMAIN Evicted(after, now)) \in Nat
  BY <1>10, FS_CardinalityType
<1> QED
  BY <1>3, <1>4, <1>5, <1>7, <1>8, <1>9, <1>11

(* What a presentation may have to spend is one id or two, of two tags. *)
LEMMA IdsFacts ==
  ASSUME TypeOK, NEW p \in Presentations, ~SpentOrFull(p)
  PROVE  LET live == DOMAIN Evicted(spent, now)
         IN  /\ p.declass # Nothing => DeclassKey(p) \notin live /\ Cardinality(live) < Capacity
             /\ p.approval # Nothing => ApprovalKey(p) \notin live /\ Cardinality(live) < Capacity
             /\ p.declass # Nothing /\ p.approval # Nothing =>
                  Cardinality(live) + 1 < Capacity /\ DeclassKey(p) # ApprovalKey(p)
<1> DEFINE live == DOMAIN Evicted(spent, now)
<1>1. Ids(p) \cap live = {} /\ ~(Cardinality(live) + Cardinality(Ids(p)) > Capacity)
  BY DEF SpentOrFull
<1>2. IsFiniteSet(live) /\ Cardinality(live) \in Nat /\ Capacity \in Nat
  <2>1. IsCache(spent) /\ now \in Nat
    BY ReplayCacheAssumption DEF TypeOK
  <2>2. IsFiniteSet(live)
    BY <2>1, EvictedFacts DEF IsCache
  <2> QED
    BY <2>2, FS_CardinalityType, ReplayCacheAssumption
<1>3. DeclassKey(p) # ApprovalKey(p)
  BY DEF DeclassKey, ApprovalKey
<1>4. CASE p.declass # Nothing /\ p.approval # Nothing
  <2>1. Ids(p) = {DeclassKey(p), ApprovalKey(p)}
    BY <1>4 DEF Ids
  <2>2. Cardinality({DeclassKey(p), ApprovalKey(p)}) = 2
    <3>1. IsFiniteSet({DeclassKey(p)}) /\ Cardinality({DeclassKey(p)}) = 1
      BY FS_Singleton
    <3>2. ApprovalKey(p) \notin {DeclassKey(p)}
      BY <1>3
    <3>3. Cardinality({DeclassKey(p)} \cup {ApprovalKey(p)}) = Cardinality({DeclassKey(p)}) + 1
      BY <3>1, <3>2, FS_AddElement
    <3>4. {DeclassKey(p), ApprovalKey(p)} = {DeclassKey(p)} \cup {ApprovalKey(p)}
      OBVIOUS
    <3> QED
      BY <3>1, <3>3, <3>4
  <2> QED
    BY <1>1, <1>2, <1>3, <1>4, <2>1, <2>2
<1>5. CASE p.declass # Nothing /\ p.approval = Nothing
  <2>1. Ids(p) = {DeclassKey(p)} /\ Cardinality({DeclassKey(p)}) = 1
    BY <1>5, FS_Singleton DEF Ids
  <2> QED
    BY <1>1, <1>2, <1>5, <2>1
<1>6. CASE p.declass = Nothing /\ p.approval # Nothing
  <2>1. Ids(p) = {ApprovalKey(p)} /\ Cardinality({ApprovalKey(p)}) = 1
    BY <1>6, FS_Singleton DEF Ids
  <2> QED
    BY <1>1, <1>2, <1>6, <2>1
<1>7. CASE p.declass = Nothing /\ p.approval = Nothing
  BY <1>7
<1> QED
  BY <1>4, <1>5, <1>6, <1>7

(* What the oracle requires of the artifacts suffices for the monitor, but   *)
(* for the reasons that FalseBlockIsExplained lists. *)
LEMMA ReferenceSuffices ==
  ASSUME TypeOK, NEW p \in Presentations, ReferenceAllow(p.call, p),
         ProperlyLabelled(p), NamesTheRecipient(p), ~Stale(p), ~SpentOrFull(p),
         ~(VerifiedLabel(p) = "internal" /\ p.call.to = "external-sink"),
         p.declass # Nothing => <<p.declass.target, p.call.to>> \in AllowedPairs,
         p.approval # Nothing => p.approval.rule = SingleUseRule,
         p.approval # Nothing => HighRisk(p.call.tool)
  PROVE  MonitorAdmits(p)
<1>1. /\ p.call \in Calls /\ p.declass \in Declasses /\ p.approval \in Approvals
      /\ LabelsVerify(p)
  BY DEF Presentations, ProperlyLabelled
<1>2. EgressNeedsDeclass(p) => DeclassBinds(p)
  <2> SUFFICES ASSUME EgressNeedsDeclass(p) PROVE DeclassBinds(p)
    OBVIOUS
  <2> DEFINE d == p.declass
  <2>1. p.call.to # Absent /\ p.call.to \in Sinks
    BY <1>1, CallsAssumption DEF EgressNeedsDeclass
  <2>2. /\ p.call.body \in DOMAIN Ingested /\ VerifiedLabel(p) = Ingested[p.call.body]
        /\ VerifiedLabel(p) \in Vocabulary
        /\ \E a \in p.labels : a.value = p.call.body /\ a.label = VerifiedLabel(p)
    BY <2>1, VerifiedIsIngested
  <2>3. VerifiedLabel(p) = "sensitive"
    BY <2>1, <2>2, RefusedLabels DEF EgressNeedsDeclass
  <2>4. VerifiedLabel(p) \in IntendedLabels(p.call) /\ IsSensitive(VerifiedLabel(p))
    BY <2>2, <2>3 DEF IntendedLabels, IsSensitive
  <2>5. /\ d # Nothing
        /\ ValidDeclassification(p.call, p, VerifiedLabel(p), d.recipient, d.value)
    BY <2>4 DEF ReferenceAllow
  <2>6. /\ d.by = Approver /\ d.version = CurrentPolicy /\ d.goal = p.call
        /\ d.from = VerifiedLabel(p) /\ InHalfOpenWindow(d)
    BY <2>5 DEF ValidDeclassification
  <2>7. InClosedWindow(d) /\ d.value = p.call.body
    BY <1>1, <2>5, <2>6, DeclassOfItsGoal, OpenIsClosed
  <2>8. IsFresh(now, d.iat) /\ d.recipient = p.call.to
    BY <2>5 DEF Stale, NamesTheRecipient
  <2> QED
    BY <2>2, <2>5, <2>6, <2>7, <2>8 DEF DeclassBinds
<1>3. ApprovalAsked(p) => ApprovalBinds(p)
  <2> SUFFICES ASSUME ApprovalAsked(p) PROVE ApprovalBinds(p)
    OBVIOUS
  <2>1. /\ p.approval # Nothing /\ p.approval.by = Approver
        /\ InHalfOpenWindow(p.approval) /\ p.approval.goal = p.call
    BY DEF ApprovalAsked, ReferenceAllow, ValidApprovalBinds
  <2>2. InClosedWindow(p.approval)
    BY <1>1, <2>1, ApprovalLifetime, OpenIsClosed
  <2>3. IsFresh(now, p.approval.iat)
    BY <2>1 DEF Stale
  <2> QED
    BY <2>1, <2>2, <2>3 DEF ApprovalBinds
<1>4. EgressNeedsDeclass(p) => /\ p.declass # Nothing /\ DeclassKey(p) \in Keys
                               /\ Outcome(spent, DeclassKey(p), now) = "admitted"
  <2> SUFFICES ASSUME EgressNeedsDeclass(p)
               PROVE  /\ p.declass # Nothing /\ DeclassKey(p) \in Keys
                      /\ Outcome(spent, DeclassKey(p), now) = "admitted"
    OBVIOUS
  <2>1. p.declass # Nothing
    BY <1>2 DEF DeclassBinds
  <2> QED
    BY <2>1, IdsFacts, KeysOfAPresentation, RoomAdmits
<1>5. ApprovalAsked(p) => Outcome(AfterContext(p), ApprovalKey(p), now) = "admitted"
  <2> SUFFICES ASSUME ApprovalAsked(p)
               PROVE  Outcome(AfterContext(p), ApprovalKey(p), now) = "admitted"
    OBVIOUS
  <2>1. p.approval # Nothing /\ ApprovalKey(p) \in Keys
    BY <1>3, KeysOfAPresentation DEF ApprovalBinds
  <2>2. CASE SpendsDeclass(p)
    <3> DEFINE after == Consumed(spent, DeclassKey(p), now)
               live == DOMAIN Evicted(spent, now)
    <3>1. /\ p.declass # Nothing /\ DeclassKey(p) \in Keys
          /\ DeclassKey(p) \notin live /\ Cardinality(live) < Capacity
          /\ ApprovalKey(p) \notin live /\ ApprovalKey(p) # DeclassKey(p)
          /\ Cardinality(live) + 1 < Capacity
      BY <1>4, <2>1, <2>2, IdsFacts DEF SpendsDeclass
    <3>2. /\ IsCache(after)
          /\ DOMAIN Evicted(after, now) \subseteq live \cup {DeclassKey(p)}
          /\ Cardinality(DOMAIN Evicted(after, now)) <= Cardinality(live) + 1
      BY <3>1, RoomAdmits
    <3>3. /\ Cardinality(live) \in Nat /\ Cardinality(DOMAIN Evicted(after, now)) \in Nat
          /\ Capacity \in Nat
      <4>1. IsCache(spent) /\ now \in Nat
        BY ReplayCacheAssumption DEF TypeOK
      <4>2. IsFiniteSet(live) /\ IsFiniteSet(DOMAIN Evicted(after, now))
        BY <3>2, <4>1, EvictedFacts DEF IsCache
      <4> QED
        BY <4>2, FS_CardinalityType, ReplayCacheAssumption
    <3>4. AfterContext(p) = after
      BY <2>2 DEF AfterContext
    <3>5. ApprovalKey(p) \notin DOMAIN Evicted(after, now)
      BY <3>1, <3>2
    <3>6. ~(Cardinality(DOMAIN Evicted(after, now)) >= Capacity)
      BY <3>1, <3>2, <3>3
    <3> QED
      BY <3>4, <3>5, <3>6 DEF Outcome
  <2>3. CASE ~SpendsDeclass(p)
    <3>1. AfterContext(p) = spent
      BY <2>3 DEF AfterContext
    <3> QED
      BY <2>1, <3>1, IdsFacts, RoomAdmits
  <2> QED
    BY <2>2, <2>3
<1> QED
  BY <1>1, <1>2, <1>3, <1>4, <1>5 DEF MonitorAdmits, ContextPolicyOk, ApprovalArtifactOk

(* ContextApprovalMonitor against reference_allow, the other way: a refusal  *)
(* of what the oracle allows has one of the reasons that are listed. *)
THEOREM PolicyPlaneFalseBlockIsExplained == Spec => []FalseBlockIsExplained
<1>1. TypeOK => FalseBlockIsExplained
  BY ReferenceSuffices DEF FalseBlockIsExplained, OfTheGoal, PlaneAdmits
<1> QED
  BY <1>1, PolicyPlaneTypeOK, PTL

=============================================================================
