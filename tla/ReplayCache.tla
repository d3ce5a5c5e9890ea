---------------------------- MODULE ReplayCache ----------------------------
(***************************************************************************)
(* The replay cache of src/sut/authz/jti_cache.py, as operators over its   *)
(* contents: a bounded map from a (mechanism_tag, jti) pair to the instant *)
(* its entry expires.  A pair is one value here; two mechanisms never      *)
(* share one, so their ids cannot collide.                                 *)
(*                                                                         *)
(* `now` is injected by the caller, as in the code: nothing reads a clock. *)
(***************************************************************************)
EXTENDS Freshness, FiniteSets, Functions

CONSTANTS Keys,      \* the (mechanism_tag, jti) pairs that may be presented
          Instants,  \* the values of the injected `now`
          Capacity   \* REPLAY_CACHE_CAPACITY

ASSUME ReplayCacheAssumption ==
  /\ Instants \subseteq Nat
  /\ Delta \in Nat \ {0}      \* JtiCache.__post_init__ refuses less than 1
  /\ Capacity \in Nat \ {0}

(* What `_entries` may hold: a finite map from pairs to expiry instants. *)
IsCache(entries) ==
  /\ DOMAIN entries \subseteq Keys
  /\ IsFiniteSet(DOMAIN entries)
  /\ entries \in [DOMAIN entries -> Nat]

EmptyCache == [k \in {} |-> 0]

(* Seeded fault: a full cache makes room by forgetting everything (the      *)
(* flooding bypass ADR 0027 rejects).                                       *)
EvictedWhenFull(entries, now) ==
  Restrict(entries, {k \in DOMAIN entries :
                        entries[k] > now /\ Cardinality(DOMAIN entries) < Capacity})

(* An entry is evicted at the first instant that is not before its expiry. *)
Evicted(entries, now) ==
  Restrict(entries, {k \in DOMAIN entries : entries[k] > now})

(* The three outcomes of the check-and-insert; two of them are denials. *)
Outcomes == {"admitted", "duplicate", "capacity"}

(* Eviction comes first, then the duplicate check, then the bound.  A full *)
(* cache refuses: it never makes room by dropping an unexpired entry.      *)
Outcome(entries, k, now) ==
  LET live == Evicted(entries, now)
  IN  IF k \in DOMAIN live THEN "duplicate"
      ELSE IF Cardinality(DOMAIN live) >= Capacity THEN "capacity"
      ELSE "admitted"

(* Seeded fault: a duplicate refreshes the entry, so the expiry creeps. *)
ConsumedRefreshing(entries, k, now) ==
  LET live == Evicted(entries, now)
  IN  IF Outcome(entries, k, now) = "capacity"
      THEN live
      ELSE [j \in DOMAIN live \cup {k} |-> IF j = k THEN now + Delta ELSE live[j]]

(* The contents the check-and-insert leaves behind. *)
Consumed(entries, k, now) ==
  LET live == Evicted(entries, now)
  IN  IF Outcome(entries, k, now) = "admitted"
      THEN [j \in DOMAIN live \cup {k} |-> IF j = k THEN now + Delta ELSE live[j]]
      ELSE live

=============================================================================
