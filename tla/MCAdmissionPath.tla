-------------------------- MODULE MCAdmissionPath --------------------------
(***************************************************************************)
(* B3 and the DPoP arm on the one replay cache gate G-14 attaches to both;  *)
(* B3 has a reference monitor, the other arm none.  Either cache holds two *)
(* ids, the window is two instants, and ids, a declassification and an     *)
(* approval are presented early and at the last instant of the window.     *)
(***************************************************************************)
EXTENDS AdmissionPath, TLC

CONSTANTS b3, dpop, shared, m3

MCKeys == {"inv", "dpop"} \X {"i1", "i2"}
            \cup {<<"declass", "d1">>, <<"approval", "p1">>}

MCSkipped == (b3 :> {}) @@ (dpop :> {})
MCRequestStore == (b3 :> shared) @@ (dpop :> shared)
MCMonitorStore == (b3 :> m3) @@ (dpop :> None)
MCOwned == (b3 :> {m3}) @@ (dpop :> {})

D1 == [jti |-> "d1", iat |-> 0, nbf |-> 0, exp |-> 2]
P1 == [jti |-> "p1", iat |-> 0, nbf |-> 0, exp |-> 2]

Staged(id, now, declass, approval) ==
  [id |-> id, iat |-> 0, nbf |-> 0, exp |-> 3, now |-> now,
   declass |-> declass, approval |-> approval]

MCPresentations ==
  {Staged("i1", 0, NoArtifact, P1), Staged("i1", 2, D1, P1), Staged("i2", 1, D1, P1)}

(* One id whose iat is an instant ahead of the first decision's `now`, and *)
(* still fresh at the second's: skew the symmetric freshness rule admits.  *)
MCSkewedPresentations ==
  {[Staged("i1", now, NoArtifact, NoArtifact) EXCEPT !.iat = 1] : now \in {0, 2}}

Call(fails, egress, highRisk) ==
  [fails |-> fails, egress |-> egress, highRisk |-> highRisk, binds |-> TRUE]

MCCalls ==
  {Call({}, "permit", FALSE), Call({}, "covered", TRUE),
   Call({"token_scope_ok", "oauth_resource_authorization_ok"}, "covered", TRUE)}
=============================================================================
