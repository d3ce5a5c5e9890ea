------------------------- MODULE ReplayCacheProofs -------------------------
(***************************************************************************)
(* What the check-and-insert of JtiCache does to the cache it is given,    *)
(* for every set of ids, every instant and every capacity.                 *)
(***************************************************************************)
EXTENDS ReplayCache, FiniteSetTheorems, TLAPS

(* _evict_expired keeps exactly the entries whose expiry is after `now`. *)
LEMMA EvictedFacts ==
  ASSUME NEW entries, NEW now \in Nat, IsCache(entries)
  PROVE  /\ IsCache(Evicted(entries, now))
         /\ DOMAIN Evicted(entries, now) = {j \in DOMAIN entries : entries[j] > now}
         /\ \A j \in DOMAIN Evicted(entries, now) :
               /\ j \in DOMAIN entries
               /\ Evicted(entries, now)[j] = entries[j]
         /\ Cardinality(DOMAIN Evicted(entries, now)) <= Cardinality(DOMAIN entries)
<1> DEFINE D == {j \in DOMAIN entries : entries[j] > now}
<1>1. Evicted(entries, now) = [j \in D |-> entries[j]]
  BY DEF Evicted, Restrict
<1>2. /\ IsFiniteSet(D)
      /\ Cardinality(D) <= Cardinality(DOMAIN entries)
  BY FS_Subset DEF IsCache
<1>3. \A j \in D : entries[j] \in Nat
  BY DEF IsCache
<1> QED
  BY <1>1, <1>2, <1>3 DEF IsCache

(* The bounded map stays one: the check-and-insert never exceeds the       *)
(* capacity it was given (ADR 0027's fail-closed overflow).                *)
LEMMA ConsumedIsCache ==
  ASSUME NEW entries, NEW k \in Keys, NEW now \in Nat, IsCache(entries),
         Cardinality(DOMAIN entries) <= Capacity
  PROVE  /\ IsCache(Consumed(entries, k, now))
         /\ Cardinality(DOMAIN Consumed(entries, k, now)) <= Capacity
<1> DEFINE live == Evicted(entries, now)
<1>1. /\ IsCache(live)
      /\ Cardinality(DOMAIN live) <= Cardinality(DOMAIN entries)
  BY EvictedFacts
<1>2. /\ Cardinality(DOMAIN live) \in Nat
      /\ Cardinality(DOMAIN entries) \in Nat
      /\ Capacity \in Nat /\ Delta \in Nat
  BY <1>1, FS_CardinalityType, ReplayCacheAssumption DEF IsCache
<1>3. CASE Outcome(entries, k, now) # "admitted"
  BY <1>1, <1>2, <1>3 DEF Consumed
<1>4. CASE Outcome(entries, k, now) = "admitted"
  <2> DEFINE new == [j \in DOMAIN live \cup {k} |-> IF j = k THEN now + Delta ELSE live[j]]
  <2>1. k \notin DOMAIN live /\ ~(Cardinality(DOMAIN live) >= Capacity)
    BY <1>4 DEF Outcome
  <2>2. /\ IsFiniteSet(DOMAIN live \cup {k})
        /\ Cardinality(DOMAIN live \cup {k}) = Cardinality(DOMAIN live) + 1
    BY <1>1, <2>1, FS_AddElement DEF IsCache
  <2>3. Consumed(entries, k, now) = new /\ DOMAIN new = DOMAIN live \cup {k}
    BY <1>4 DEF Consumed
  <2>4. DOMAIN live \cup {k} \subseteq Keys
    BY <1>1 DEF IsCache
  <2>5. \A j \in DOMAIN new : new[j] \in Nat
    BY <1>1, <1>2 DEF IsCache
  <2>6. new \in [DOMAIN new -> Nat]
    BY <2>5
  <2> QED
    BY <1>2, <2>1, <2>2, <2>3, <2>4, <2>6 DEF IsCache
<1> QED
  BY <1>3, <1>4

(* What the check-and-insert forgets had expired, and an admitted id is    *)
(* remembered for Delta instants.                                          *)
LEMMA ConsumedFacts ==
  ASSUME NEW entries, NEW k \in Keys, NEW now \in Nat, IsCache(entries)
  PROVE  /\ \A j \in DOMAIN entries :
              j \notin DOMAIN Consumed(entries, k, now) => entries[j] <= now
         /\ \A j \in DOMAIN entries :
              entries[j] > now
                => /\ j \in DOMAIN Consumed(entries, k, now)
                   /\ Consumed(entries, k, now)[j] = entries[j]
         /\ Outcome(entries, k, now) = "admitted"
              => /\ k \in DOMAIN Consumed(entries, k, now)
                 /\ Consumed(entries, k, now)[k] = now + Delta
                 /\ ~(k \in DOMAIN entries /\ entries[k] > now)
<1> DEFINE live == Evicted(entries, now)
<1>1. /\ DOMAIN live = {j \in DOMAIN entries : entries[j] > now}
      /\ \A j \in DOMAIN live : live[j] = entries[j]
  BY EvictedFacts
<1>2. \A j \in DOMAIN entries : entries[j] \in Nat
  BY DEF IsCache
<1>3. CASE Outcome(entries, k, now) # "admitted"
  <2>1. Consumed(entries, k, now) = live
    BY <1>3 DEF Consumed
  <2> QED
    BY <1>1, <1>2, <1>3, <2>1
<1>4. CASE Outcome(entries, k, now) = "admitted"
  <2>1. k \notin DOMAIN live
    BY <1>4 DEF Outcome
  <2>2. Consumed(entries, k, now)
          = [j \in DOMAIN live \cup {k} |-> IF j = k THEN now + Delta ELSE live[j]]
    BY <1>4 DEF Consumed
  <2> DEFINE after == Consumed(entries, k, now)
  <2> HIDE DEF live, after
  <2>3. /\ DOMAIN after = DOMAIN live \cup {k} /\ after[k] = now + Delta
        /\ \A j \in DOMAIN live : after[j] = live[j]
    BY <2>1, <2>2 DEF after
  <2>4. \A j \in DOMAIN entries :
          entries[j] > now => j \in DOMAIN after /\ after[j] = entries[j]
    BY <1>1, <2>3
  <2>5. \A j \in DOMAIN entries : j \notin DOMAIN after => entries[j] <= now
    BY <1>2, <2>4
  <2>6. ~(k \in DOMAIN entries /\ entries[k] > now)
    BY <1>1, <2>1
  <2> QED
    BY <2>3, <2>4, <2>5, <2>6 DEF after
<1> QED
  BY <1>3, <1>4

(* Nothing enters the cache but the id that was admitted. *)
LEMMA ConsumedAdds ==
  ASSUME NEW entries, NEW k \in Keys, NEW now \in Nat, IsCache(entries),
         NEW j \in DOMAIN Consumed(entries, k, now)
  PROVE  \/ j \in DOMAIN entries /\ Consumed(entries, k, now)[j] = entries[j]
         \/ /\ j = k /\ Outcome(entries, k, now) = "admitted"
            /\ Consumed(entries, k, now)[j] = now + Delta
<1> DEFINE live == Evicted(entries, now)
<1>1. \A i \in DOMAIN live : i \in DOMAIN entries /\ live[i] = entries[i]
  BY EvictedFacts
<1>2. CASE Outcome(entries, k, now) # "admitted"
  <2>1. Consumed(entries, k, now) = live
    BY <1>2 DEF Consumed
  <2> QED
    <3> HIDE DEF live
    <3> QED BY <1>1, <2>1
<1>3. CASE Outcome(entries, k, now) = "admitted"
  <2>1. Consumed(entries, k, now)
          = [i \in DOMAIN live \cup {k} |-> IF i = k THEN now + Delta ELSE live[i]]
    BY <1>3 DEF Consumed
  <2> QED
    <3> HIDE DEF live
    <3> QED BY <1>1, <1>3, <2>1
<1> QED
  BY <1>2, <1>3

=============================================================================
