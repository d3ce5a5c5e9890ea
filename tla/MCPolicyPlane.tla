---------------------------- MODULE MCPolicyPlane ----------------------------
(***************************************************************************)
(* Scenarios after the pilot corpus: a sensitive body sent to a partner,   *)
(* an internal one, a public one under a sensitive subject, a deletion, and *)
(* a sensitive note that is only written.                                  *)
(***************************************************************************)
EXTENDS PolicyPlane, TLC

MCIngested ==
  ("notice" :> "public") @@ ("draft" :> "internal") @@ ("q3" :> "sensitive")

Mail(to, body, subject) == [tool |-> "mail.send", to |-> to, body |-> body, subject |-> subject]
Note(tool, body) == [tool |-> tool, to |-> Absent, body |-> body, subject |-> Absent]

SendQ3   == Mail("external-sink", "q3", Absent)
SendDraft == Mail("external-sink", "draft", Absent)
SendNotice == Mail("internal-sink", "notice", "q3")
Delete   == Note("notes.delete", Absent)
Write    == Note("notes.write", "q3")

MCScenarios ==
  {[goal |-> SendQ3, declass |-> TRUE, approval |-> TRUE],
   [goal |-> SendDraft, declass |-> TRUE, approval |-> TRUE],
   [goal |-> SendNotice, declass |-> FALSE, approval |-> TRUE],
   [goal |-> Delete, declass |-> FALSE, approval |-> TRUE],
   [goal |-> Write, declass |-> FALSE, approval |-> FALSE]}

MCCalls == {SendQ3, SendDraft, SendNotice, Delete, Write}

MCKeys == {"declass", "approval"} \X MCCalls

(* The issuer's assertions, one of them run out by instant 2, and one that   *)
(* the approver signed to call q3 public. *)
OfIssuer(value, exp) ==
  [value |-> value, label |-> MCIngested[value], by |-> "label_issuer", iat |-> -1, exp |-> exp]

ByApprover ==
  [value |-> "q3", label |-> "public", by |-> "approver", iat |-> -1, exp |-> 3]

MCLabellings ==
  {{}, {OfIssuer("q3", 3)}, {OfIssuer("draft", 1)}, {OfIssuer("notice", 3)},
   {ByApprover}, {OfIssuer("q3", 3), OfIssuer("notice", 3)}}
=============================================================================
