------------------------ MODULE MCCapabilityChain ------------------------
(***************************************************************************)
(* B3, B-cap, three of the seven ablations whose conjunct leaves nothing   *)
(* behind that a later one reads and one of the other three.  Two hops, a  *)
(* narrowing one and one, for another task, that tries to widen; calls     *)
(* inside and outside each.                                                *)
(***************************************************************************)
EXTENDS CapabilityChain, TLC

MCHops ==
  {[task |-> "t1", authority |-> {"e1", "e2"}, appended |-> {"e1"}, lifetime |-> 2],
   [task |-> "t2", authority |-> {"e2"}, appended |-> {"e1", "e2"}, lifetime |-> 1]}

MCCalls == {"read", "write", "delete", "odd"}

MCRequired ==
  ("read" :> "e1") @@ ("write" :> "e2") @@ ("delete" :> "e1")
  @@ ("odd" :> "malformed")

MCPolicyRefuses ==
  [c \in MCCalls |-> IF c = "delete" THEN "approval_artifact_ok" ELSE "none"]

MCArms ==
  {[enabled |-> BearerConjuncts, disabled |-> {}], [enabled |-> Conjuncts, disabled |-> {}]}
  \cup {[enabled |-> Conjuncts, disabled |-> {c}] :
        c \in {"holder_proof_ok", "invocation_binding_ok", "containment_ok", "htc_chain_ok"}}
=============================================================================
