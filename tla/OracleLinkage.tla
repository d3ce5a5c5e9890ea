--------------------------- MODULE OracleLinkage ---------------------------
(***************************************************************************)
(* What the oracle makes of the records of one invocation (gate G-12):     *)
(* src/harness/oracle/predicates.py, and the ways the gate damages those   *)
(* records before handing them over (src/harness/fault_injection.py).      *)
(*                                                                         *)
(* A mediation event is [cid, admitted]; a ledger row [kind, cid, target], *)
(* where the target stands for the (tool, audience) the row names.         *)
(***************************************************************************)
EXTENDS Naturals, Sequences

OfKind(ledger, kind, cid) ==
  {i \in DOMAIN ledger : ledger[i].kind = kind /\ ledger[i].cid = cid}

Effects(ledger, cid) == OfKind(ledger, "effect", cid)
Ingress(ledger, cid) == OfKind(ledger, "ingress", cid)

(* No record is not an admission; two records raise OracleError. *)
MediationOf(events, cid) == {i \in DOMAIN events : events[i].cid = cid}

Several(places) == \E i, j \in places : i # j

Admits(events, record) == \E i \in record : events[i].admitted

LogIntegrityFailure(events, ledger, cid) ==
  LET record == MediationOf(events, cid)
  IN  /\ record # {} /\ ~Several(record) /\ ~Admits(events, record)
      /\ Effects(ledger, cid) # {}

Clean == {"consistent", "unreached"}

(* Seeded fault: no effect is read as nothing having run. *)
LinkageByEffects(target, events, ledger, cid) ==
  IF Effects(ledger, cid) = {} THEN "unreached" ELSE "consistent"

Linkage(target, events, ledger, cid) ==
  LET record  == MediationOf(events, cid)
      ingress == Ingress(ledger, cid)
      effects == Effects(ledger, cid)
  IN  CASE Several(record) -> "oracle_error"
        [] record = {} -> "dropped"
        [] record # {} /\ ~Several(record) /\ \E i \in effects : ledger[i].target # target ->
             "miscorrelated"
        [] OTHER ->
             IF ~Admits(events, record)
             THEN CASE effects # {} -> "miscorrelated"
                    [] effects = {} /\ ingress # {} -> "dropped"
                    [] OTHER -> "unreached"
             ELSE CASE ingress = {} -> "dropped"
                    [] ingress # {} /\ (Several(effects) \/ Several(ingress)) -> "duplicated"
                    [] ingress # {} /\ ~Several(ingress) /\ effects = {} -> "dropped"
                    [] OTHER -> "consistent"

-----------------------------------------------------------------------------
(* The damage, applied to copies of the records.  A copy keeps the places of *)
(* the rows that are left: nothing above compares two places but for being   *)
(* the same one.                                                             *)

Kept(log, places) == [i \in places |-> log[i]]

DropEffects(ledger, cid) == Kept(ledger, DOMAIN ledger \ Effects(ledger, cid))

DropAll(ledger, cid) == Kept(ledger, {i \in DOMAIN ledger : ledger[i].cid # cid})

(* Each effect once more, behind the rest. *)
DuplicateEffects(ledger, cid) ==
  LET n == Len(ledger)
  IN  [i \in DOMAIN ledger \cup {n + k : k \in Effects(ledger, cid)} |->
         ledger[IF i <= n THEN i ELSE i - n]]

SwapIds(ledger, one, other) ==
  [i \in DOMAIN ledger |->
     [ledger[i] EXCEPT !.cid = IF @ = one THEN other ELSE IF @ = other THEN one ELSE @]]

DropMediation(events, cid) == Kept(events, DOMAIN events \ MediationOf(events, cid))

InjectEffect(ledger, target, cid) ==
  Append(ledger, [kind |-> "effect", cid |-> cid, target |-> target])

=============================================================================
