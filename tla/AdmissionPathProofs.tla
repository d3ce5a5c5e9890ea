------------------------ MODULE AdmissionPathProofs ------------------------
(***************************************************************************)
(* What the boundary decision spends and records, for any number of arms,  *)
(* stores, presentations and calls.                                        *)
(*                                                                         *)
(* The order of the conjuncts is what the safety of the ids rests on: the  *)
(* capability path consumes last (LastConjunct), so a consumed invocation  *)
(* id is an admitted one.  That an admission pays needs the memory of the  *)
(* caches to outlast the window (Remembered).                              *)
(***************************************************************************)
EXTENDS AdmissionPath, ReplayCacheProofs

BoundedCaches == \A s \in Stores : Cardinality(DOMAIN entries[s]) <= Capacity

(* The OAuth arms' audit log drops nothing. *)
ListsDropNothing == \A a \in Arms \ Capability : dropped[a] = 0

(* No cache has forgotten an id spent by an admission its window still covers. *)
Remembered ==
  \A s \in Stores : \A k \in Keys :
    (used[s][k] # Never /\ used[s][k] + Delta > horizon[s]) =>
      k \in DOMAIN entries[s] /\ entries[s][k] >= used[s][k] + Delta

PathInv ==
  /\ TypeOK /\ BoundedCaches
  /\ NoBurnedInvocation
  /\ AuditAccountsForEveryDecision /\ ListsDropNothing
  /\ Remembered

-----------------------------------------------------------------------------
(* The order of the conjuncts. *)

LEMMA OrderFacts ==
  ASSUME NEW a \in Arms
  PROVE  \E n \in {6, 11} :
           /\ DOMAIN Order(a) = 1 .. n
           /\ \A i, j \in 1 .. n : Order(a)[i] = Order(a)[j] => i = j
           /\ \A i \in 1 .. n : Order(a)[i] \in Stages
<1>1. CASE a \in Capability
  <2>1. DOMAIN CapabilityOrder = 1 .. 11
    BY DEF CapabilityOrder
  <2>2. \A i, j \in 1 .. 11 : CapabilityOrder[i] = CapabilityOrder[j] => i = j
    BY DEF CapabilityOrder
  <2> QED BY <1>1, <2>1, <2>2 DEF Order, Stages, Elements
<1>2. CASE a \notin Capability
  <2>1. DOMAIN DPoPOrder = 1 .. 6
    BY DEF DPoPOrder
  <2>2. \A i, j \in 1 .. 6 : DPoPOrder[i] = DPoPOrder[j] => i = j
    BY DEF DPoPOrder
  <2> QED BY <1>2, <2>1, <2>2 DEF Order, Stages, Elements
<1> QED BY <1>1, <1>2

(* What an arm evaluated before its i-th conjunct are the conjuncts before i. *)
LEMMA BeforeFacts ==
  ASSUME NEW a \in Arms, NEW i \in DOMAIN Order(a)
  PROVE  Before(a, Order(a)[i]) = {Order(a)[j] : j \in 1 .. i - 1}
<1>1. \A j \in DOMAIN Order(a) : Order(a)[j] = Order(a)[i] => j = i
  BY OrderFacts
<1>2. (CHOOSE j \in DOMAIN Order(a) : Order(a)[j] = Order(a)[i]) = i
  BY <1>1
<1> QED BY <1>2 DEF Before

(* The capability path consumes after every other conjunct has passed. *)
LEMMA LastConjunct ==
  ASSUME NEW a \in Capability, NEW c, a \in Arms,
         Reached(a, c, "consume_id"), ~Refuses(a, c, "consume_id")
  PROVE  Admits(a, c)
<1>1. DOMAIN CapabilityOrder = 1 .. 11 /\ CapabilityOrder[11] = "consume_id" /\ Order(a) = CapabilityOrder
  BY DEF CapabilityOrder, Order
<1>2. Before(a, "consume_id") = {CapabilityOrder[j] : j \in 1 .. 11 - 1}
  <2>1. 11 \in DOMAIN Order(a)
    BY <1>1
  <2> QED BY <1>1, <2>1, BeforeFacts
<1>3. \A j \in 1 .. 11 : j \in 1 .. 11 - 1 \/ j = 11
  OBVIOUS
<1> QED BY <1>1, <1>2, <1>3 DEF Admits, Reached, Elements

(* A set of places has a first one. *)
LEMMA FirstPlace ==
  ASSUME NEW T, T \subseteq 1 .. 11, T # {}
  PROVE  \E i \in T : \A j \in T : i <= j
<1> SUFFICES ASSUME \A i \in T : \E j \in T : j < i
             PROVE  FALSE
  OBVIOUS
<1>1. 1 \notin T /\ 2 \notin T /\ 3 \notin T /\ 4 \notin T
  OBVIOUS
<1>2. 5 \notin T /\ 6 \notin T /\ 7 \notin T /\ 8 \notin T
  BY <1>1
<1>3. 9 \notin T /\ 10 \notin T /\ 11 \notin T
  BY <1>1, <1>2
<1>4. PICK i : i \in T
  OBVIOUS
<1>5. i \in Int /\ 1 <= i /\ i <= 11
  BY <1>4
<1> QED BY <1>1, <1>2, <1>3, <1>4, <1>5

(* A call that is not admitted is refused by the first conjunct that refuses it. *)
LEMMA ReasonFacts ==
  ASSUME NEW a \in Arms, NEW c
  PROVE  /\ Reason(a, c) \in Reasons
         /\ Reason(a, c) = "admitted" => Admits(a, c)
<1>1. CASE Admits(a, c)
  BY <1>1 DEF Reason, Reasons
<1>2. CASE ~Admits(a, c)
  <2> DEFINE T == {i \in DOMAIN Order(a) : Refuses(a, c, Order(a)[i])}
  <2>1. PICK n \in {6, 11} : DOMAIN Order(a) = 1 .. n /\ \A i \in 1 .. n : Order(a)[i] \in Stages
    BY OrderFacts
  <2>2. T \subseteq 1 .. 11 /\ T # {}
    BY <1>2, <2>1 DEF Admits, Elements
  <2>3. PICK i \in T : \A j \in T : i <= j
    <3> HIDE DEF T
    <3> QED BY <2>2, FirstPlace
  <2>4. \A j \in 1 .. i - 1 : ~Refuses(a, c, Order(a)[j])
    BY <2>1, <2>3
  <2>5. Refuses(a, c, Order(a)[i]) /\ Reached(a, c, Order(a)[i]) /\ Order(a)[i] \in Elements(Order(a))
    BY <2>3, <2>4, BeforeFacts DEF Reached, Elements
  <2>6. Elements(Order(a)) \subseteq Stages
    BY <2>1 DEF Elements
  <2>7. Reason(a, c) \in Elements(Order(a))
    BY <1>2, <2>5 DEF Reason
  <2>8. "admitted" \notin Stages
    BY DEF Stages, Elements, CapabilityOrder, DPoPOrder
  <2> QED BY <2>6, <2>7, <2>8 DEF Reasons
<1> QED BY <1>1, <1>2

(* The monitor's conjuncts come one after the other. *)
LEMMA ApprovalAfterContext ==
  ASSUME NEW a \in Arms, NEW c, Reached(a, c, "approval_artifact_ok")
  PROVE  Reached(a, c, "context_policy_ok")
<1>1. \E i \in DOMAIN Order(a) :
        /\ i + 1 \in DOMAIN Order(a) /\ i \in Nat
        /\ Order(a)[i] = "context_policy_ok" /\ Order(a)[i + 1] = "approval_artifact_ok"
  <2>1. CASE a \in Capability
    <3>1. 7 \in DOMAIN CapabilityOrder /\ 7 + 1 \in DOMAIN CapabilityOrder
          /\ CapabilityOrder[7] = "context_policy_ok" /\ CapabilityOrder[7 + 1] = "approval_artifact_ok"
      BY DEF CapabilityOrder
    <3> QED BY <2>1, <3>1 DEF Order
  <2>2. CASE a \notin Capability
    <3>1. 5 \in DOMAIN DPoPOrder /\ 5 + 1 \in DOMAIN DPoPOrder
          /\ DPoPOrder[5] = "context_policy_ok" /\ DPoPOrder[5 + 1] = "approval_artifact_ok"
      BY DEF DPoPOrder
    <3> QED BY <2>2, <3>1 DEF Order
  <2> QED BY <2>1, <2>2
<1>2. PICK i \in DOMAIN Order(a) :
        /\ i + 1 \in DOMAIN Order(a) /\ i \in Nat
        /\ Order(a)[i] = "context_policy_ok" /\ Order(a)[i + 1] = "approval_artifact_ok"
  BY <1>1
<1>3. Before(a, "context_policy_ok") = {Order(a)[j] : j \in 1 .. i - 1}
      /\ Before(a, "approval_artifact_ok") = {Order(a)[j] : j \in 1 .. i + 1 - 1}
  BY <1>2, BeforeFacts
<1>4. 1 .. i - 1 \subseteq 1 .. i + 1 - 1
  BY <1>2
<1> QED BY <1>3, <1>4 DEF Reached

(* An admitted call reached every conjunct of its arm, and none refused it. *)
LEMMA AdmitsFacts ==
  ASSUME NEW a \in Arms, NEW c, Admits(a, c)
  PROVE  \A t \in {"context_policy_ok", "approval_artifact_ok", "consume_id"} :
           Reached(a, c, t) /\ ~Refuses(a, c, t)
<1>1. {"context_policy_ok", "approval_artifact_ok", "consume_id"} \subseteq Elements(Order(a))
  <2>1. \A i \in {7, 8, 11} : i \in DOMAIN CapabilityOrder
    BY DEF CapabilityOrder
  <2>2. \A i \in {5, 6, 3} : i \in DOMAIN DPoPOrder
    BY DEF DPoPOrder
  <2>3. CapabilityOrder[7] = "context_policy_ok" /\ CapabilityOrder[8] = "approval_artifact_ok"
        /\ CapabilityOrder[11] = "consume_id" /\ DPoPOrder[5] = "context_policy_ok"
        /\ DPoPOrder[6] = "approval_artifact_ok" /\ DPoPOrder[3] = "consume_id"
    BY DEF CapabilityOrder, DPoPOrder
  <2> QED BY <2>1, <2>2, <2>3 DEF Elements, Order
<1>2. \A t \in Elements(Order(a)) : Before(a, t) \subseteq Elements(Order(a))
  <2> SUFFICES ASSUME NEW i \in DOMAIN Order(a)
               PROVE  Before(a, Order(a)[i]) \subseteq Elements(Order(a))
    BY DEF Elements
  <2>1. \A j \in 1 .. i - 1 : j \in DOMAIN Order(a)
    BY OrderFacts
  <2> QED BY <2>1, BeforeFacts DEF Elements
<1> QED BY <1>1, <1>2 DEF Admits, Reached

-----------------------------------------------------------------------------
(* The ids a decision asks for. *)

KeepsLive(before, after, now) ==
  \A j \in DOMAIN before : before[j] > now => j \in DOMAIN after /\ after[j] = before[j]

(* A consumption forgets no live entry, and admits only an id that was not one. *)
LEMMA ConsumedKeepsLive ==
  ASSUME NEW cache, NEW k \in Keys, NEW now \in Nat, IsCache(cache)
  PROVE  /\ KeepsLive(cache, Consumed(cache, k, now), now)
         /\ Outcome(cache, k, now) = "admitted" =>
              /\ k \in DOMAIN Consumed(cache, k, now) /\ Consumed(cache, k, now)[k] = now + Delta
              /\ ~(k \in DOMAIN cache /\ cache[k] > now)
<1>1. KeepsLive(cache, Consumed(cache, k, now), now)
  BY ConsumedFacts DEF KeepsLive
<1> QED BY <1>1, ConsumedFacts

(* The instant and the ids of what is staged are of their types. *)
LEMMA PresentedFacts ==
  ASSUME TypeOK, NEW a \in Arms, staged[a] # NotStaged
  PROVE  /\ staged[a] \in Presentations /\ staged[a].now \in Instants /\ staged[a].now \in Nat
         /\ RequestKey(a, staged[a]) \in Keys
         /\ staged[a].declass # NoArtifact => DeclassKey(staged[a]) \in Keys
         /\ staged[a].approval # NoArtifact => ApprovalKey(staged[a]) \in Keys
<1>1. staged[a] \in Presentations
  BY DEF TypeOK
<1>2. staged[a].now \in Instants
  BY <1>1, AdmissionAssumption
<1>3. staged[a].now \in Nat
  BY <1>2, ReplayCacheAssumption
<1> QED BY <1>1, <1>2, <1>3, AdmissionAssumption

(* No arm takes request ids and artifacts from one store, or skips consume_id. *)
LEMMA StoreFacts ==
  ASSUME NEW a \in Arms, NEW s \in Stores
  PROVE  /\ s # None
         /\ s = RequestStore[a] => s # MonitorStore[a]
         /\ "consume_id" \notin Skipped[a]
  BY AdmissionAssumption

(* What the two conjuncts before the last leave in the monitor's cache. *)
LEMMA ContextCache ==
  ASSUME TypeOK, BoundedCaches, NEW a \in Arms, NEW c, staged[a] # NotStaged,
         NEW s \in Stores, s = MonitorStore[a]
  PROVE  LET mid == AfterContext(a, c)  now == staged[a].now  k == DeclassKey(staged[a])
         IN  /\ IsCache(mid) /\ Cardinality(DOMAIN mid) <= Capacity
             /\ KeepsLive(entries[s], mid, now)
             /\ ~SpendsDeclass(a, c) => mid = entries[s]
             /\ SpendsDeclass(a, c) =>
                  /\ k \in Keys
                  /\ \A j \in DOMAIN mid :
                       \/ j \in DOMAIN entries[s] /\ mid[j] = entries[s][j]
                       \/ j = k /\ mid[j] = now + Delta
                  /\ Outcome(entries[s], k, now) = "admitted" =>
                       /\ k \in DOMAIN mid /\ mid[k] = now + Delta
                       /\ ~(k \in DOMAIN entries[s] /\ entries[s][k] > now)
<1> DEFINE mid == AfterContext(a, c)
           now == staged[a].now
           k == DeclassKey(staged[a])
<1>1. IsCache(entries[s]) /\ Cardinality(DOMAIN entries[s]) <= Capacity /\ now \in Nat
  BY PresentedFacts DEF TypeOK, BoundedCaches
<1>2. CASE ~SpendsDeclass(a, c)
  <2>1. mid = entries[s]
    BY <1>2 DEF AfterContext
  <2> QED BY <1>1, <1>2, <2>1 DEF KeepsLive
<1>3. CASE SpendsDeclass(a, c)
  <2>1. k \in Keys
    BY <1>3, PresentedFacts DEF SpendsDeclass
  <2>2. mid = Consumed(entries[s], k, now)
    BY <1>3 DEF AfterContext
  <2> HIDE DEF mid, now, k
  <2>3. IsCache(mid) /\ Cardinality(DOMAIN mid) <= Capacity
    BY <1>1, <2>1, <2>2, ConsumedIsCache
  <2>4. KeepsLive(entries[s], mid, now)
        /\ (Outcome(entries[s], k, now) = "admitted" =>
              /\ k \in DOMAIN mid /\ mid[k] = now + Delta
              /\ ~(k \in DOMAIN entries[s] /\ entries[s][k] > now))
    BY <1>1, <2>1, <2>2, ConsumedKeepsLive
  <2>5. \A j \in DOMAIN mid :
          \/ j \in DOMAIN entries[s] /\ mid[j] = entries[s][j]
          \/ j = k /\ mid[j] = now + Delta
    BY <1>1, <2>1, <2>2, ConsumedAdds
  <2> QED BY <1>3, <2>1, <2>3, <2>4, <2>5 DEF mid, now, k
<1> QED BY <1>2, <1>3

(* What a decision leaves in a store: nothing live is lost, only ids it spent *)
(* enter, and those of an admission were free and are held for the window.  An *)
(* invocation id enters with an admission or not at all. *)
Accounts(a, c, s, after) ==
  LET now == staged[a].now
      spent == Spends(a, c, s)
  IN  /\ IsCache(after) /\ Cardinality(DOMAIN after) <= Capacity
      /\ spent \subseteq Keys
      /\ KeepsLive(entries[s], after, now)
      /\ spent = {} => after = entries[s]
      /\ Admits(a, c) => \A k \in spent :
           /\ k \in DOMAIN after /\ after[k] = now + Delta
           /\ ~(k \in DOMAIN entries[s] /\ entries[s][k] > now)
      /\ \A k \in DOMAIN after :
           k[1] = "inv" => IF Admits(a, c) /\ k \in spent THEN after[k] = now + Delta
                           ELSE k \in DOMAIN entries[s] /\ after[k] = entries[s][k]

(* The cache of request ids after a decision that reached its consumption. *)
LEMMA RequestAccounts ==
  ASSUME TypeOK, BoundedCaches, NEW a \in Arms, NEW c \in Calls, staged[a] # NotStaged,
         NEW s \in Stores, SpentRequest(a, c, s)
  PROVE  Accounts(a, c, s, CacheAfter(a, c, s))
<1> DEFINE now == staged[a].now
           k == RequestKey(a, staged[a])
           after == CacheAfter(a, c, s)
<1>1. IsCache(entries[s]) /\ Cardinality(DOMAIN entries[s]) <= Capacity /\ now \in Nat /\ k \in Keys
  BY PresentedFacts DEF TypeOK, BoundedCaches
<1>2. s = RequestStore[a] /\ s # MonitorStore[a] /\ s # None /\ ~NoInvocationRead(a)
  BY StoreFacts DEF SpentRequest
<1>3. Spends(a, c, s) = {k}
  BY <1>2 DEF Spends, SpentDeclass, SpentApproval
<1>4. after = Consumed(entries[s], k, now)
  <2>1. ~SpentApproval(a, c, s) /\ ~SpentDeclass(a, c, s)
    BY <1>2 DEF SpentApproval, SpentDeclass
  <2> QED BY <2>1 DEF CacheAfter
<1>5. Admits(a, c) => Outcome(entries[s], k, now) = "admitted"
  BY <1>2, AdmitsFacts, StoreFacts DEF Refuses, ConsumeRefuses
<1>6. ASSUME Outcome(entries[s], k, now) = "admitted", k[1] = "inv"
      PROVE  Admits(a, c)
  <2>1. a \in Capability
    BY <1>6 DEF RequestKey
  <2>2. ~Refuses(a, c, "consume_id")
    <3>1. ~ConsumeRefuses(a)
      BY <1>2, <1>6 DEF ConsumeRefuses
    <3>2. "consume_id" \notin c.fails /\ ~StaleRequest(a, "consume_id")
      BY AdmissionAssumption DEF Stateful, StaleRequest
    <3> QED BY <3>1, <3>2 DEF Refuses
  <2> QED BY <2>1, <2>2, LastConjunct DEF SpentRequest
<1> HIDE DEF now, k, after
<1>7. IsCache(after) /\ Cardinality(DOMAIN after) <= Capacity
  BY <1>1, <1>4, ConsumedIsCache
<1>8. /\ KeepsLive(entries[s], after, now)
      /\ Outcome(entries[s], k, now) = "admitted" =>
           /\ k \in DOMAIN after /\ after[k] = now + Delta
           /\ ~(k \in DOMAIN entries[s] /\ entries[s][k] > now)
  BY <1>1, <1>4, ConsumedKeepsLive
<1>9. \A j \in DOMAIN after :
        \/ j \in DOMAIN entries[s] /\ after[j] = entries[s][j]
        \/ j = k /\ Outcome(entries[s], k, now) = "admitted" /\ after[j] = now + Delta
  BY <1>1, <1>4, ConsumedAdds
<1> QED BY <1>1, <1>3, <1>5, <1>6, <1>7, <1>8, <1>9 DEF Accounts, now, k, after

(* Any cache in which the decision spent no request id, whatever artifacts it spent. *)
LEMMA MonitorAccounts ==
  ASSUME TypeOK, BoundedCaches, NEW a \in Arms, NEW c, staged[a] # NotStaged,
         NEW s \in Stores, ~SpentRequest(a, c, s)
  PROVE  Accounts(a, c, s, CacheAfter(a, c, s))
<1> DEFINE now == staged[a].now
           d == DeclassKey(staged[a])
           k == ApprovalKey(staged[a])
           mid == AfterContext(a, c)
           after == CacheAfter(a, c, s)
           spent == Spends(a, c, s)
<1>1. IsCache(entries[s]) /\ Cardinality(DOMAIN entries[s]) <= Capacity /\ now \in Nat
      /\ Delta \in Nat \ {0}
  BY PresentedFacts, ReplayCacheAssumption DEF TypeOK, BoundedCaches
<1>2. d[1] # "inv" /\ k[1] # "inv"
  BY DEF DeclassKey, ApprovalKey
<1>3. CASE ~SpentDeclass(a, c, s) /\ ~SpentApproval(a, c, s)
  <2>1. after = entries[s] /\ spent = {}
    BY <1>3 DEF CacheAfter, Spends
  <2> QED BY <1>1, <2>1 DEF Accounts, KeepsLive
<1>4. CASE SpentDeclass(a, c, s) /\ ~SpentApproval(a, c, s)
  <2>1. s = MonitorStore[a] /\ SpendsDeclass(a, c) /\ after = mid /\ spent = {d}
    BY <1>4 DEF CacheAfter, Spends, SpentDeclass
  <2>2. Admits(a, c) => Outcome(entries[s], d, now) = "admitted"
    BY <2>1, AdmitsFacts DEF Refuses, ContextRefuses, SpendsDeclass
  <2> HIDE DEF now, d, k, mid, after, spent
  <2>3. /\ IsCache(mid) /\ Cardinality(DOMAIN mid) <= Capacity
        /\ KeepsLive(entries[s], mid, now) /\ d \in Keys
        /\ \A j \in DOMAIN mid :
             \/ j \in DOMAIN entries[s] /\ mid[j] = entries[s][j]
             \/ j = d /\ mid[j] = now + Delta
        /\ Outcome(entries[s], d, now) = "admitted" =>
             /\ d \in DOMAIN mid /\ mid[d] = now + Delta
             /\ ~(d \in DOMAIN entries[s] /\ entries[s][d] > now)
    BY <2>1, ContextCache DEF now, d, mid
  <2> QED BY <1>2, <2>1, <2>2, <2>3 DEF Accounts, now, d, after, spent
<1>5. CASE SpentApproval(a, c, s)
  <2>1. s = MonitorStore[a] /\ SpendsApproval(a, c) /\ after = Consumed(mid, k, now)
        /\ (SpentDeclass(a, c, s) <=> SpendsDeclass(a, c))
    BY <1>5, ApprovalAfterContext DEF CacheAfter, SpentDeclass, SpentApproval
  <2>2. k \in Keys /\ spent = IF SpendsDeclass(a, c) THEN {d, k} ELSE {k}
    BY <1>5, <2>1, PresentedFacts DEF Spends, SpendsApproval
  <2>3. Admits(a, c) => Outcome(mid, k, now) = "admitted"
    BY <2>1, AdmitsFacts DEF Refuses, ApprovalRefuses, SpendsApproval
  <2>4. Admits(a, c) /\ SpendsDeclass(a, c) => Outcome(entries[s], d, now) = "admitted"
    BY <2>1, AdmitsFacts DEF Refuses, ContextRefuses, SpendsDeclass
  <2> HIDE DEF now, d, k, mid, after, spent
  <2>5. /\ IsCache(mid) /\ Cardinality(DOMAIN mid) <= Capacity
        /\ KeepsLive(entries[s], mid, now)
        /\ ~SpendsDeclass(a, c) => mid = entries[s]
        /\ SpendsDeclass(a, c) =>
             /\ d \in Keys
             /\ \A j \in DOMAIN mid :
                  \/ j \in DOMAIN entries[s] /\ mid[j] = entries[s][j]
                  \/ j = d /\ mid[j] = now + Delta
             /\ Outcome(entries[s], d, now) = "admitted" =>
                  /\ d \in DOMAIN mid /\ mid[d] = now + Delta
                  /\ ~(d \in DOMAIN entries[s] /\ entries[s][d] > now)
    BY <2>1, ContextCache DEF now, d, mid
  <2>6. IsCache(after) /\ Cardinality(DOMAIN after) <= Capacity
    BY <1>1, <2>1, <2>2, <2>5, ConsumedIsCache
  <2>7. /\ KeepsLive(mid, after, now)
        /\ Outcome(mid, k, now) = "admitted" =>
             /\ k \in DOMAIN after /\ after[k] = now + Delta
             /\ ~(k \in DOMAIN mid /\ mid[k] > now)
    BY <1>1, <2>1, <2>2, <2>5, ConsumedKeepsLive
  <2>8. \A j \in DOMAIN after :
          \/ j \in DOMAIN mid /\ after[j] = mid[j]
          \/ j = k /\ after[j] = now + Delta
    BY <1>1, <2>1, <2>2, <2>5, ConsumedAdds
  <2>9. KeepsLive(entries[s], after, now)
    BY <2>5, <2>7 DEF KeepsLive
  <2>10. Admits(a, c) => \A j \in spent :
           /\ j \in DOMAIN after /\ after[j] = now + Delta
           /\ ~(j \in DOMAIN entries[s] /\ entries[s][j] > now)
    <3> SUFFICES ASSUME Admits(a, c), NEW j \in spent
                 PROVE  /\ j \in DOMAIN after /\ after[j] = now + Delta
                        /\ ~(j \in DOMAIN entries[s] /\ entries[s][j] > now)
      OBVIOUS
    <3>1. CASE j = k
      BY <2>3, <2>5, <2>7, <3>1 DEF KeepsLive
    <3>2. CASE j = d /\ SpendsDeclass(a, c)
      <4>1. d \in DOMAIN mid /\ mid[d] = now + Delta
            /\ ~(d \in DOMAIN entries[s] /\ entries[s][d] > now)
        BY <2>4, <2>5, <3>2
      <4>2. now + Delta > now
        BY <1>1
      <4> QED BY <2>7, <3>2, <4>1, <4>2 DEF KeepsLive
    <3> QED BY <2>2, <3>1, <3>2
  <2>11. \A j \in DOMAIN after :
           j[1] = "inv" => j \notin spent /\ j \in DOMAIN entries[s] /\ after[j] = entries[s][j]
    BY <1>2, <2>2, <2>5, <2>8
  <2>12. spent \subseteq Keys /\ spent # {}
    BY <2>2, <2>5
  <2> QED BY <2>6, <2>9, <2>10, <2>11, <2>12 DEF Accounts, now, after, spent
<1> QED BY <1>3, <1>4, <1>5

-----------------------------------------------------------------------------
(* The steps. *)

LEMMA AuditStep ==
  ASSUME TypeOK, AuditAccountsForEveryDecision, ListsDropNothing,
         NEW a \in Arms, NEW reason \in Reasons, Audit(a, reason)
  PROVE  /\ log' \in [Arms -> Seq(Reasons)] /\ dropped' \in [Arms -> Nat]
         /\ decided' \in [Arms -> Nat]
         /\ AuditAccountsForEveryDecision' /\ ListsDropNothing'
<1> DEFINE full == a \in Capability /\ Len(log[a]) = AuditCapacity
           kept == IF full THEN Tail(log[a]) ELSE log[a]
<1>1. log[a] \in Seq(Reasons) /\ Len(log[a]) \in Nat /\ dropped[a] \in Nat /\ decided[a] \in Nat
      /\ AuditCapacity \in Nat \ {0}
  BY AdmissionAssumption DEF TypeOK
<1>2. kept \in Seq(Reasons) /\ Len(kept) = IF full THEN Len(log[a]) - 1 ELSE Len(log[a])
  <2>1. CASE full
    <3>1. log[a] # <<>>
      BY <1>1, <2>1
    <3> QED BY <1>1, <2>1, <3>1
  <2>2. CASE ~full
    BY <1>1, <2>2
  <2> QED BY <2>1, <2>2
<1>3. Append(kept, reason) \in Seq(Reasons) /\ Len(Append(kept, reason)) = Len(kept) + 1
  BY <1>2
<1>4. /\ log' = [log EXCEPT ![a] = Append(kept, reason)]
      /\ dropped' = [dropped EXCEPT ![a] = IF full THEN dropped[a] + 1 ELSE dropped[a]]
      /\ decided' = [decided EXCEPT ![a] = decided[a] + 1]
  BY DEF Audit
<1> HIDE DEF kept
<1>5. log' \in [Arms -> Seq(Reasons)]
  BY <1>3, <1>4 DEF TypeOK
<1>6. dropped' \in [Arms -> Nat] /\ decided' \in [Arms -> Nat]
  BY <1>1, <1>4 DEF TypeOK
<1>7. \A b \in Arms \ {a} : log'[b] = log[b] /\ dropped'[b] = dropped[b] /\ decided'[b] = decided[b]
  BY <1>4 DEF TypeOK
<1>8. /\ log'[a] = Append(kept, reason) /\ decided'[a] = decided[a] + 1
      /\ dropped'[a] = IF full THEN dropped[a] + 1 ELSE dropped[a]
  BY <1>4 DEF TypeOK
<1>9. Len(log[a]) + dropped[a] = decided[a] /\ (dropped[a] > 0 => Len(log[a]) = AuditCapacity)
      /\ (a \notin Capability => dropped[a] = 0)
  BY DEF AuditAccountsForEveryDecision, ListsDropNothing
<1>10. Len(log'[a]) = IF full THEN Len(log[a]) ELSE Len(log[a]) + 1
  BY <1>1, <1>2, <1>3, <1>8
<1>11. Len(log'[a]) + dropped'[a] = decided'[a]
  BY <1>1, <1>8, <1>9, <1>10
<1>12. dropped'[a] > 0 => Len(log'[a]) = AuditCapacity
  BY <1>1, <1>8, <1>9, <1>10
<1>13. AuditAccountsForEveryDecision'
  BY <1>7, <1>11, <1>12 DEF AuditAccountsForEveryDecision
<1>14. ListsDropNothing'
  BY <1>7, <1>8 DEF ListsDropNothing
<1> QED BY <1>5, <1>6, <1>13, <1>14

(* Any cache after any decision: what it gained is what the admission spends. *)
LEMMA DecideAccounts ==
  ASSUME PathInv, NEW a \in Arms, NEW c \in Calls, Decide(a, c), NEW s \in Stores
  PROVE  Accounts(a, c, s, entries'[s])
<1>1. entries'[s] = CacheAfter(a, c, s) /\ staged[a] # NotStaged
  BY DEF Decide
<1>2. Accounts(a, c, s, CacheAfter(a, c, s))
  BY <1>1, RequestAccounts, MonitorAccounts DEF PathInv
<1> QED BY <1>1, <1>2

(* A decision moves the last use of exactly the ids its admission spends. *)
LEMMA DecideUsed ==
  ASSUME NEW a \in Arms, NEW c \in Calls, Decide(a, c), NEW s \in Stores, NEW k \in Keys
  PROVE  /\ Admits(a, c) /\ k \in Spends(a, c, s) => used'[s][k] = staged[a].now
         /\ ~(Admits(a, c) /\ k \in Spends(a, c, s)) => used'[s][k] = used[s][k]
<1>1. used'[s] = [j \in Keys |-> IF Admits(a, c) /\ j \in Spends(a, c, s)
                                THEN staged[a].now ELSE used[s][j]]
  BY DEF Decide
<1> QED BY <1>1

(* It moves the horizon of exactly the stores it spends from. *)
LEMMA DecideHorizon ==
  ASSUME NEW a \in Arms, NEW c \in Calls, Decide(a, c), NEW s \in Stores
  PROVE  /\ Spends(a, c, s) # {} => horizon'[s] = Later(horizon[s], staged[a].now)
         /\ Spends(a, c, s) = {} => horizon'[s] = horizon[s]
BY DEF Decide

(* The numbers the window of an id is reckoned with. *)
LEMMA WindowFacts ==
  ASSUME TypeOK, NEW s \in Stores, NEW k \in Keys
  PROVE  /\ used[s][k] \in Int /\ (used[s][k] # Never => used[s][k] \in Nat)
         /\ horizon[s] \in Int /\ Delta \in Nat
         /\ k \in DOMAIN entries[s] => entries[s][k] \in Nat
<1>1. used[s][k] \in Instants \cup {Never} /\ horizon[s] \in Instants \cup {Never}
  BY DEF TypeOK
<1>2. \A x \in Instants : x \in Nat
  BY ReplayCacheAssumption
<1>3. IsCache(entries[s])
  BY DEF TypeOK
<1>4. used[s][k] \in Int /\ (used[s][k] # Never => used[s][k] \in Nat) /\ horizon[s] \in Int
  BY <1>1, <1>2 DEF Never
<1>5. k \in DOMAIN entries[s] => entries[s][k] \in Nat
  BY <1>3 DEF IsCache
<1> QED BY <1>4, <1>5, ReplayCacheAssumption

(* A decision leaves every grant of the window in its cache. *)
LEMMA DecideRemembered ==
  ASSUME PathInv, NEW a \in Arms, NEW c \in Calls, Decide(a, c)
  PROVE  Remembered'
<1> SUFFICES ASSUME NEW s \in Stores, NEW k \in Keys,
                    used'[s][k] # Never, used'[s][k] + Delta > horizon'[s]
             PROVE  k \in DOMAIN entries'[s] /\ entries'[s][k] >= used'[s][k] + Delta
  BY DEF Remembered
<1> DEFINE now == staged[a].now
           spent == Spends(a, c, s)
           after == entries'[s]
<1>1. /\ Accounts(a, c, s, after)
      /\ Admits(a, c) /\ k \in spent => used'[s][k] = now
      /\ ~(Admits(a, c) /\ k \in spent) => used'[s][k] = used[s][k]
      /\ spent # {} => horizon'[s] = Later(horizon[s], now)
      /\ spent = {} => horizon'[s] = horizon[s]
  BY DecideAccounts, DecideUsed, DecideHorizon
<1>2. now \in Nat /\ TypeOK
  BY PresentedFacts DEF Decide, PathInv
<1>3. /\ used[s][k] \in Int /\ horizon[s] \in Int /\ Delta \in Nat
      /\ k \in DOMAIN entries[s] => entries[s][k] \in Nat
  BY <1>2, WindowFacts
<1>4. (used[s][k] # Never /\ used[s][k] + Delta > horizon[s]) =>
        k \in DOMAIN entries[s] /\ entries[s][k] >= used[s][k] + Delta
  BY DEF PathInv, Remembered
<1>5. /\ KeepsLive(entries[s], after, now) /\ (spent = {} => after = entries[s])
      /\ (Admits(a, c) /\ k \in spent => k \in DOMAIN after /\ after[k] = now + Delta)
  BY <1>1 DEF Accounts
<1> HIDE DEF now, spent, after
<1>6. CASE Admits(a, c) /\ k \in spent
  <2>1. after[k] = used'[s][k] + Delta /\ k \in DOMAIN after
    BY <1>1, <1>5, <1>6
  <2> QED BY <1>1, <1>2, <1>3, <1>6, <2>1 DEF after
<1>7. CASE ~(Admits(a, c) /\ k \in spent) /\ spent = {}
  BY <1>1, <1>4, <1>5, <1>7 DEF after
<1>8. CASE ~(Admits(a, c) /\ k \in spent) /\ spent # {}
  <2>1. used'[s][k] = used[s][k] /\ horizon'[s] >= horizon[s] /\ horizon'[s] >= now /\ horizon'[s] \in Int
    BY <1>1, <1>2, <1>3, <1>8 DEF Later
  <2>2. k \in DOMAIN entries[s] /\ entries[s][k] >= used[s][k] + Delta
    BY <1>2, <1>3, <1>4, <2>1
  <2>3. entries[s][k] > now
    BY <1>2, <1>3, <2>1, <2>2
  <2> QED BY <1>5, <2>1, <2>2, <2>3 DEF KeepsLive, after
<1> QED BY <1>6, <1>7, <1>8

(* A decision preserves the invariant. *)
LEMMA DecideStep ==
  ASSUME PathInv, NEW a \in Arms, NEW c \in Calls, Decide(a, c)
  PROVE  PathInv'
<1> DEFINE now == staged[a].now
<1>1. now \in Instants /\ TypeOK
  BY PresentedFacts DEF Decide, PathInv
<1>2. Reason(a, c) \in Reasons /\ Audit(a, Reason(a, c))
  BY ReasonFacts DEF Decide
<1>3. /\ log' \in [Arms -> Seq(Reasons)] /\ dropped' \in [Arms -> Nat] /\ decided' \in [Arms -> Nat]
      /\ AuditAccountsForEveryDecision' /\ ListsDropNothing'
  BY <1>2, AuditStep DEF PathInv
<1>4. DOMAIN entries' = Stores
  BY DEF Decide
<1>5. \A s \in Stores : IsCache(entries'[s]) /\ Cardinality(DOMAIN entries'[s]) <= Capacity
  BY DecideAccounts DEF Accounts
<1>6. used' \in [Stores -> [Keys -> Instants \cup {Never}]]
  <2>1. ASSUME NEW s \in Stores
        PROVE  used'[s] \in [Keys -> Instants \cup {Never}]
    <3>1. \A k \in Keys : used'[s][k] = now \/ used'[s][k] = used[s][k]
      BY DecideUsed
    <3>2. \A k \in Keys : used'[s][k] \in Instants \cup {Never}
      BY <1>1, <3>1 DEF TypeOK
    <3>3. used'[s] = [k \in Keys |-> IF Admits(a, c) /\ k \in Spends(a, c, s)
                                    THEN now ELSE used[s][k]]
      BY DEF Decide
    <3> QED BY <3>2, <3>3
  <2> QED BY <2>1 DEF Decide
<1>7. horizon' \in [Stores -> Instants \cup {Never}]
  <2>1. \A s \in Stores : horizon'[s] \in Instants \cup {Never}
    BY <1>1, DecideHorizon DEF TypeOK, Later
  <2> QED BY <2>1 DEF Decide
<1>8. TypeOK' /\ BoundedCaches'
  BY <1>1, <1>3, <1>4, <1>5, <1>6, <1>7 DEF TypeOK, BoundedCaches, Decide
<1>9. NoBurnedInvocation'
  <2> SUFFICES ASSUME NEW s \in Stores, NEW k \in DOMAIN entries'[s], k[1] = "inv"
               PROVE  used'[s][k] # Never /\ entries'[s][k] = used'[s][k] + Delta
    BY DEF NoBurnedInvocation
  <2>1. /\ IF Admits(a, c) /\ k \in Spends(a, c, s) THEN entries'[s][k] = now + Delta
           ELSE k \in DOMAIN entries[s] /\ entries'[s][k] = entries[s][k]
        /\ IsCache(entries'[s])
    <3>1. Accounts(a, c, s, entries'[s])
      BY DecideAccounts
    <3> QED BY <3>1 DEF Accounts
  <2>2. k \in Keys
    BY <2>1 DEF IsCache
  <2>3. /\ Admits(a, c) /\ k \in Spends(a, c, s) => used'[s][k] = now
        /\ ~(Admits(a, c) /\ k \in Spends(a, c, s)) => used'[s][k] = used[s][k]
    BY <2>2, DecideUsed
  <2>4. k \in DOMAIN entries[s] => used[s][k] # Never /\ entries[s][k] = used[s][k] + Delta
    BY DEF PathInv, NoBurnedInvocation
  <2>5. now # Never
    BY <1>1, ReplayCacheAssumption DEF Never
  <2> QED BY <2>1, <2>3, <2>4, <2>5
<1> QED BY <1>3, <1>8, <1>9, DecideRemembered DEF PathInv

(* A decision with nothing presented changes the audit buffer only. *)
LEMMA UnpresentedStep ==
  ASSUME PathInv, NEW a \in Arms, DecideUnpresented(a)
  PROVE  PathInv'
<1>1. UNCHANGED <<staged, entries, used, horizon>>
  BY DEF DecideUnpresented
<1>2. /\ log' \in [Arms -> Seq(Reasons)] /\ dropped' \in [Arms -> Nat] /\ decided' \in [Arms -> Nat]
      /\ AuditAccountsForEveryDecision' /\ ListsDropNothing'
  <2>1. CASE a \in Capability
    BY <2>1 DEF DecideUnpresented, PathInv, TypeOK, AuditAccountsForEveryDecision, ListsDropNothing
  <2>2. CASE a \notin Capability
    <3>1. Audit(a, "not_presented") /\ "not_presented" \in Reasons
      BY <2>2 DEF DecideUnpresented, Reasons
    <3> QED BY <3>1, AuditStep DEF PathInv
  <2> QED BY <2>1, <2>2
<1> QED BY <1>1, <1>2 DEF PathInv, TypeOK, BoundedCaches, NoBurnedInvocation, Remembered

(* A presentation touches no cache. *)
LEMMA PresentStep ==
  ASSUME PathInv, NEW a \in Arms, NEW p \in Presentations, Present(a, p)
  PROVE  PathInv'
BY DEF Present, historyVars, PathInv, TypeOK, BoundedCaches, NoBurnedInvocation, Remembered,
       AuditAccountsForEveryDecision, ListsDropNothing

(* The cache of a new arm. *)
LEMMA EmptyCacheFacts ==
  IsCache(EmptyCache) /\ Cardinality(DOMAIN EmptyCache) <= Capacity /\ DOMAIN EmptyCache = {}
<1>1. DOMAIN EmptyCache = {} /\ EmptyCache \in [DOMAIN EmptyCache -> Nat]
  BY DEF EmptyCache
<1>2. IsFiniteSet({}) /\ Cardinality({}) = 0
  BY FS_EmptySet
<1> QED BY <1>1, <1>2, ReplayCacheAssumption DEF IsCache

(* A new arm starts with empty caches of its own, and they owe nothing. *)
LEMMA ProvisionStep ==
  ASSUME PathInv, NEW a \in Arms, Provision(a)
  PROVE  PathInv'
<1> DEFINE own == Owned[a]
<1>1. \A s \in Stores :
        \/ /\ s \in own /\ entries'[s] = EmptyCache /\ horizon'[s] = Never
           /\ used'[s] = [k \in Keys |-> Never]
        \/ entries'[s] = entries[s] /\ used'[s] = used[s] /\ horizon'[s] = horizon[s]
  BY DEF Provision
<1>2. TypeOK'
  <2>1. /\ staged' \in [Arms -> Presentations \cup {NotStaged}] /\ log' \in [Arms -> Seq(Reasons)]
        /\ dropped' \in [Arms -> Nat] /\ decided' \in [Arms -> Nat]
    BY DEF PathInv, TypeOK, Provision
  <2>2. DOMAIN entries' = Stores /\ \A s \in Stores : IsCache(entries'[s])
    BY <1>1, EmptyCacheFacts DEF PathInv, TypeOK, Provision
  <2>3. used' \in [Stores -> [Keys -> Instants \cup {Never}]]
    <3>1. \A s \in Stores : used'[s] \in [Keys -> Instants \cup {Never}]
      BY <1>1 DEF PathInv, TypeOK
    <3> QED BY <3>1 DEF Provision
  <2>4. horizon' \in [Stores -> Instants \cup {Never}]
    <3>1. \A s \in Stores : horizon'[s] \in Instants \cup {Never}
      BY <1>1 DEF PathInv, TypeOK
    <3> QED BY <3>1 DEF Provision
  <2> QED BY <2>1, <2>2, <2>3, <2>4 DEF TypeOK
<1>3. BoundedCaches'
  BY <1>1, EmptyCacheFacts DEF PathInv, BoundedCaches
<1>4. NoBurnedInvocation'
  BY <1>1, EmptyCacheFacts DEF PathInv, NoBurnedInvocation
<1>5. AuditAccountsForEveryDecision' /\ ListsDropNothing'
  <2>1. \A b \in Arms :
          \/ log'[b] = <<>> /\ dropped'[b] = 0 /\ decided'[b] = 0
          \/ log'[b] = log[b] /\ dropped'[b] = dropped[b] /\ decided'[b] = decided[b]
    BY DEF Provision, PathInv, TypeOK
  <2>2. Len(<<>>) = 0
    OBVIOUS
  <2> QED BY <2>1, <2>2 DEF PathInv, AuditAccountsForEveryDecision, ListsDropNothing
<1>6. Remembered'
  <2> SUFFICES ASSUME NEW s \in Stores, NEW k \in Keys,
                      used'[s][k] # Never, used'[s][k] + Delta > horizon'[s]
               PROVE  k \in DOMAIN entries'[s] /\ entries'[s][k] >= used'[s][k] + Delta
    BY DEF Remembered
  <2>1. entries'[s] = entries[s] /\ used'[s] = used[s] /\ horizon'[s] = horizon[s]
    BY <1>1
  <2> QED BY <2>1 DEF PathInv, Remembered
<1> QED BY <1>2, <1>3, <1>4, <1>5, <1>6 DEF PathInv

(* A new arm has spent nothing and decided nothing. *)
LEMMA InitPath == Init => PathInv
<1> SUFFICES ASSUME Init PROVE PathInv
  OBVIOUS
<1>1. TypeOK /\ BoundedCaches
  <2>1. \A s \in Stores : entries[s] = EmptyCache
    BY DEF Init
  <2>2. 0 \in Nat /\ <<>> \in Seq(Reasons)
    OBVIOUS
  <2> QED BY <2>1, <2>2, EmptyCacheFacts DEF Init, TypeOK, BoundedCaches
<1>2. NoBurnedInvocation /\ Remembered /\ ListsDropNothing
  BY EmptyCacheFacts DEF Init, NoBurnedInvocation, Remembered, ListsDropNothing
<1>3. AuditAccountsForEveryDecision
  <2>1. Len(<<>>) = 0
    OBVIOUS
  <2> QED BY <2>1 DEF Init, AuditAccountsForEveryDecision
<1> QED BY <1>1, <1>2, <1>3 DEF PathInv

-----------------------------------------------------------------------------
(* What an admission rests on. *)

LEMMA AdmissionReason ==
  ASSUME PathInv, NEW a \in Arms, NEW c \in Calls, Admission(a, c)
  PROVE  Decide(a, c) /\ Admits(a, c)
<1> DEFINE kept == IF a \in Capability /\ Len(log[a]) = AuditCapacity THEN Tail(log[a]) ELSE log[a]
<1>1. Decide(a, c) /\ log'[a][Len(log'[a])] = "admitted"
  BY DEF Admission
<1>2. log'[a] = Append(kept, Reason(a, c))
  BY <1>1 DEF Decide, Audit, PathInv, TypeOK
<1>3. kept \in Seq(Reasons)
  <2>1. log[a] \in Seq(Reasons) /\ AuditCapacity \in Nat \ {0}
    BY AdmissionAssumption DEF PathInv, TypeOK
  <2>2. CASE a \in Capability /\ Len(log[a]) = AuditCapacity
    <3>1. log[a] # <<>>
      BY <2>1, <2>2
    <3> QED BY <2>1, <2>2, <3>1
  <2>3. CASE ~(a \in Capability /\ Len(log[a]) = AuditCapacity)
    BY <2>1, <2>3
  <2> QED BY <2>2, <2>3
<1> HIDE DEF kept
<1>4. log'[a][Len(log'[a])] = Reason(a, c)
  BY <1>2, <1>3
<1> QED BY <1>1, <1>4, ReasonFacts

(* An admission spends every id the property asks it to pay with. *)
LEMMA AdmissionSpends ==
  ASSUME NEW a \in Arms, NEW c \in Calls, Admits(a, c)
  PROVE  LET p == staged[a]  r == RequestStore[a]  m == MonitorStore[a]
         IN  /\ r # None => r \in Stores /\ RequestKey(a, p) \in Spends(a, c, r)
             /\ /\ Monitored(a) /\ "approval_artifact_ok" \notin Skipped[a]
                /\ c.highRisk \/ p.approval # NoArtifact
                => m \in Stores /\ ApprovalKey(p) \in Spends(a, c, m)
             /\ /\ Monitored(a) /\ "context_policy_ok" \notin Skipped[a]
                /\ c.egress = "covered"
                => m \in Stores /\ DeclassKey(p) \in Spends(a, c, m)
<1>1. \A t \in {"context_policy_ok", "approval_artifact_ok", "consume_id"} :
        Reached(a, c, t) /\ ~Refuses(a, c, t)
  BY AdmitsFacts
<1>2. RequestStore[a] # None => SpentRequest(a, c, RequestStore[a]) /\ RequestStore[a] \in Stores
  <2>1. "consume_id" \notin Skipped[a]
    BY AdmissionAssumption
  <2> QED BY <1>1, <2>1, AdmissionAssumption DEF Refuses, ConsumeRefuses, SpentRequest
<1>3. ASSUME Monitored(a), "approval_artifact_ok" \notin Skipped[a],
             c.highRisk \/ staged[a].approval # NoArtifact
      PROVE  MonitorStore[a] \in Stores /\ SpentApproval(a, c, MonitorStore[a])
  BY <1>1, <1>3, AdmissionAssumption DEF Refuses, ApprovalRefuses, SpentApproval, Monitored
<1>4. ASSUME Monitored(a), "context_policy_ok" \notin Skipped[a], c.egress = "covered"
      PROVE  MonitorStore[a] \in Stores /\ SpentDeclass(a, c, MonitorStore[a])
  BY <1>1, <1>4, AdmissionAssumption DEF Refuses, ContextRefuses, SpentDeclass, Monitored
<1> QED BY <1>2, <1>3, <1>4 DEF Spends

(* An id an admission spent was free for a whole window, and is now taken. *)
LEMMA SpentIsGranted ==
  ASSUME PathInv, NEW a \in Arms, NEW c \in Calls, Decide(a, c), Admits(a, c),
         NEW s \in Stores, NEW k \in Spends(a, c, s)
  PROVE  /\ used[s][k] = Never \/ used[s][k] + Delta <= Later(horizon[s], staged[a].now)
         /\ used'[s][k] = staged[a].now /\ horizon'[s] = Later(horizon[s], staged[a].now)
<1> DEFINE now == staged[a].now
<1>1. now \in Nat /\ TypeOK
  BY PresentedFacts DEF Decide, PathInv
<1>2. k \in Keys /\ ~(k \in DOMAIN entries[s] /\ entries[s][k] > now)
  BY DecideAccounts DEF Accounts
<1>3. used'[s][k] = now /\ horizon'[s] = Later(horizon[s], now)
  BY <1>2, DecideUsed, DecideHorizon
<1>4. /\ used[s][k] \in Int /\ horizon[s] \in Int /\ Delta \in Nat
      /\ k \in DOMAIN entries[s] => entries[s][k] \in Nat
  BY <1>1, <1>2, WindowFacts
<1>5. (used[s][k] # Never /\ used[s][k] + Delta > horizon[s]) =>
        k \in DOMAIN entries[s] /\ entries[s][k] >= used[s][k] + Delta
  BY <1>2 DEF PathInv, Remembered
<1> HIDE DEF now
<1>6. used[s][k] = Never \/ used[s][k] + Delta <= Later(horizon[s], now)
  BY <1>1, <1>2, <1>4, <1>5 DEF Later
<1> QED BY <1>3, <1>6 DEF now

-----------------------------------------------------------------------------
(* The strengthening holds of every behaviour. *)
THEOREM PathInvariant == Spec => []PathInv
<1>1. PathInv /\ [Next]_vars => PathInv'
  <2> SUFFICES ASSUME PathInv, [Next]_vars
               PROVE  PathInv'
    OBVIOUS
  <2>1. CASE Next
    BY <2>1, PresentStep, UnpresentedStep, DecideStep, ProvisionStep DEF Next
  <2>2. CASE UNCHANGED vars
    BY <2>2 DEF vars, historyVars, PathInv, TypeOK, BoundedCaches, NoBurnedInvocation, Remembered,
                AuditAccountsForEveryDecision, ListsDropNothing
  <2> QED BY <2>1, <2>2
<1> QED BY <1>1, InitPath, PTL DEF Spec

(* Every store stays a bounded map and every reason recorded is a conjunct's. *)
THEOREM PathTypeOK == Spec => []TypeOK
BY PathInvariant, PTL DEF PathInv

(* CapabilityDecisionPath.decide: an invocation id is in a cache only on account *)
(* of a call that was admitted. *)
THEOREM PathNoBurnedInvocation == Spec => []NoBurnedInvocation
BY PathInvariant, PTL DEF PathInv

(* BoundedAuditBuffer: the records and the drops add up to the decisions. *)
THEOREM PathAuditAccounts == Spec => []AuditAccountsForEveryDecision
BY PathInvariant, PTL DEF PathInv

(* decide: an admission is a grant of the single-use store for each id it rests *)
(* on. *)
THEOREM PathAdmissionsPay == Spec => AdmissionsPay
<1> DEFINE Pays(a, c) ==
      LET p == staged[a]  r == RequestStore[a]  m == MonitorStore[a]
      IN  Admission(a, c) =>
            /\ r # None => SU(r, RequestKey(a, p))!Grant(RequestKey(a, p), p.now)
            /\ /\ Monitored(a) /\ "approval_artifact_ok" \notin Skipped[a]
               /\ c.highRisk \/ p.approval # NoArtifact
               => SU(m, ApprovalKey(p))!Grant(ApprovalKey(p), p.now)
            /\ /\ Monitored(a) /\ "context_policy_ok" \notin Skipped[a]
               /\ c.egress = "covered"
               => SU(m, DeclassKey(p))!Grant(DeclassKey(p), p.now)
<1>1. ASSUME PathInv, NEW a \in Arms, NEW c \in Calls
      PROVE  Pays(a, c)
  <2> SUFFICES ASSUME Admission(a, c) PROVE Pays(a, c)
    OBVIOUS
  <2> DEFINE p == staged[a]
  <2>1. Decide(a, c) /\ Admits(a, c)
    BY <1>1, AdmissionReason
  <2>2. staged' = staged /\ \A s \in Stores : \A k \in Spends(a, c, s) :
          /\ used[s][k] = Never \/ used[s][k] + Delta <= Later(horizon[s], p.now)
          /\ used'[s][k] = p.now /\ horizon'[s] = Later(horizon[s], p.now)
    BY <1>1, <2>1, SpentIsGranted DEF Decide
  <2>3. RequestStore[a] # None => RequestStore[a] \in Stores
                                  /\ RequestKey(a, p) \in Spends(a, c, RequestStore[a])
    BY <2>1, AdmissionSpends
  <2>4. /\ Monitored(a) /\ "approval_artifact_ok" \notin Skipped[a]
        /\ c.highRisk \/ p.approval # NoArtifact
        => MonitorStore[a] \in Stores /\ ApprovalKey(p) \in Spends(a, c, MonitorStore[a])
    BY <2>1, AdmissionSpends
  <2>5. /\ Monitored(a) /\ "context_policy_ok" \notin Skipped[a] /\ c.egress = "covered"
        => MonitorStore[a] \in Stores /\ DeclassKey(p) \in Spends(a, c, MonitorStore[a])
    BY <2>1, AdmissionSpends
  <2>6. RequestStore[a] # None => SU(RequestStore[a], RequestKey(a, p))!Grant(RequestKey(a, p), p.now)
    BY <2>2, <2>3 DEF SU!Grant, SU!Later, SU!Never, Later, Never, RequestKey
  <2>7. /\ Monitored(a) /\ "approval_artifact_ok" \notin Skipped[a]
        /\ c.highRisk \/ p.approval # NoArtifact
        => SU(MonitorStore[a], ApprovalKey(p))!Grant(ApprovalKey(p), p.now)
    BY <2>2, <2>4 DEF SU!Grant, SU!Later, SU!Never, Later, Never, ApprovalKey
  <2>8. /\ Monitored(a) /\ "context_policy_ok" \notin Skipped[a] /\ c.egress = "covered"
        => SU(MonitorStore[a], DeclassKey(p))!Grant(DeclassKey(p), p.now)
    BY <2>2, <2>5 DEF SU!Grant, SU!Later, SU!Never, Later, Never, DeclassKey
  <2> QED BY <2>6, <2>7, <2>8
<1>2. PathInv /\ [Next]_vars => [\A a \in Arms, c \in Calls : Pays(a, c)]_vars
  BY <1>1
<1> QED BY <1>2, PathInvariant, PTL DEF Spec, AdmissionsPay

=============================================================================
