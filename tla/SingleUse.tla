----------------------------- MODULE SingleUse -----------------------------
(***************************************************************************)
(* What a replay store promises, with no cache, process or socket in it:   *)
(* each id is granted at most once in any window of Delta instants of the  *)
(* store's own time.  The store's time is the latest `now` anybody has     *)
(* asked it about, because that is the only clock it has (ADR 0027: `now`  *)
(* is injected).                                                           *)
(***************************************************************************)
EXTENDS Integers

CONSTANTS Keys,       \* the ids
          Instants,   \* the instants a caller may inject
          Delta       \* the window

Never == -1

VARIABLES lastGrant,   \* lastGrant[k]: the `now` under which k was last granted
          horizon      \* the latest `now` the store has been asked about

vars == <<lastGrant, horizon>>

Later(a, b) == IF a >= b THEN a ELSE b

Init ==
  /\ lastGrant = [k \in Keys |-> Never]
  /\ horizon = Never

(* k may be granted when its last grant is a whole window in the past. *)
Grant(k, now) ==
  /\ \/ lastGrant[k] = Never
     \/ lastGrant[k] + Delta <= Later(horizon, now)
  /\ lastGrant' = [lastGrant EXCEPT ![k] = now]
  /\ horizon' = Later(horizon, now)

(* The store may refuse anything: duplicate, full, or failing. *)
Refuse(now) ==
  /\ horizon' = Later(horizon, now)
  /\ UNCHANGED lastGrant

Next == \E now \in Instants : Refuse(now) \/ \E k \in Keys : Grant(k, now)

Spec == Init /\ [][Next]_vars

=============================================================================
