--------------------------- MODULE HarnessProofs ---------------------------
(***************************************************************************)
(* Proofs about the harness: one scenario run (SeparatedRun), the clocks of *)
(* a pass (CampaignClock), the table of repeated passes (CampaignTable) and *)
(* the latency analysis over whatever samples it is handed                 *)
(* (LatencyMeasurement), each for every value of its constants.            *)
(***************************************************************************)
EXTENDS SeparatedRun, CampaignClock, CampaignTable, LatencyMeasurement, FiniteSetTheorems, SequenceTheorems, TLAPS

-----------------------------------------------------------------------------
(* One run.                                                                *)
(*                                                                         *)
(* A line crosses a pipe only in answer to one, so at most one is under    *)
(* way, and which one follows from where the runner is (Wires); the task   *)
(* is asked for once, so what the arm decided is decided once and is what  *)
(* the line the runner reads says (Decided); and the call moves forward    *)
(* only (Called).  Each holds only with the other two.                     *)

Bare(event) == [event |-> event]

(* The lines under way, by where the runner is. *)
Wires ==
  /\ runner = "start" => child = "absent" /\ toChild = <<>> /\ toParent = <<>>
  /\ runner = "spawning" =>
       /\ toChild = <<>>
       /\ \/ child = "starting" /\ toParent = <<>>
          \/ child \in {"idle", "dead"} /\ toParent = <<Bare("ready")>>
          \/ child = "dead" /\ toParent \in {<<>>, <<Bare("torn")>>}
  /\ runner = "provisioning" =>
       \/ child \in {"idle", "dead"} /\ toChild = <<"provision">> /\ toParent = <<>>
       \/ child \in {"idle", "dead"} /\ toChild = <<>>
            /\ toParent \in {<<Bare("ok")>>, <<Bare("error")>>}
       \/ child = "dead" /\ toParent = <<Bare("torn")>>
  /\ runner = "reading" /\ ~intent =>
       \/ child \in {"idle", "dead"} /\ toChild = <<"run_task">> /\ toParent = <<>>
       \/ child \in {"idle", "dead"} /\ toChild = <<>> /\ toParent = <<Bare("error")>>
       \/ child \in {"awaiting", "dead"} /\ toChild = <<>> /\ toParent = <<Invoke(armAdmitted)>>
       \/ child = "dead" /\ toParent = <<Bare("torn")>>
  /\ runner = "invoking" => child \in {"awaiting", "dead"} /\ toChild = <<>> /\ toParent = <<>>
  /\ runner = "reading" /\ intent =>
       \/ child \in {"awaiting", "dead"} /\ toChild = <<"reply">> /\ toParent = <<>>
       \/ child \in {"idle", "dead"} /\ toChild = <<>> /\ toParent = <<Bare("result")>>
       \/ child = "dead" /\ toParent = <<Bare("torn")>>
  /\ runner = "leaving" => child = "dead" \/ (child = "idle" /\ toChild = <<>>)
  /\ runner \in Ended => child \in {"absent", "dead"}

(* What the boundary is told is what the arm decided, if it is told anything. *)
Decided ==
  /\ runner \in {"start", "spawning", "provisioning"} => ~intent
  /\ runner = "invoking" => intent
  /\ ~intent => tool = "none"
  /\ offered = "admit" =>
       intent /\ armAdmitted /\ fault # "claim-admitted-while-nothing-runs"

(* The call, as far as it has come. *)
Effected == ledgerBacked => "effect" \in {ledger[i] : i \in DOMAIN ledger}

Called ==
  /\ tool \in {"none", "submitted", "cancelled"} => events = <<>> /\ ~acted
  /\ tool \in {"entering", "acting", "returned"} => events = <<TRUE>>
  /\ tool \in {"entering", "acting"} => ~acted
  /\ tool \in {"entering", "acting", "returned"} \/ acted => offered = "admit" /\ events = <<TRUE>>
  /\ tool = "returned" \/ toolError = "ok" => acted /\ Effected
  /\ intent /\ writer = "absent" => ~ledgerBacked
  /\ runner \in {"spawning", "provisioning", "reading"} /\ writer = "absent" => ~ledgerBacked
  /\ runner \in Ended => tool \notin {"submitted", "entering", "acting"}

RunInv == RunTypeOK /\ Wires /\ Decided /\ Called

(* A sequence of one: what TLAPS has to be told of the two pipes. *)
LEMMA OneLine ==
  ASSUME NEW x
  PROVE  /\ Append(<<>>, x) = <<x>> /\ Head(<<x>>) = x /\ Tail(<<x>>) = <<>>
         /\ <<x>> # <<>> /\ Len(<<x>>) = 1
  OBVIOUS

(* Every step of the driver, the SUT and the boundary preserves the invariant. *)
LEMMA RunStep == RunInv /\ [RunNext]_runVars => RunInv'
<1> SUFFICES ASSUME RunInv, [RunNext]_runVars PROVE RunInv'
  OBVIOUS
<1> USE OneLine DEF RunInv, Wires, Decided, Called, Effected, Bare, childVars, pipes, given, toolVars, recordVars
<1>1. CASE SetupFails
  <2>1. RunTypeOK'
    BY <1>1 DEF RunTypeOK, SetupFails, Line, Row, Ended, ClaimFaults, Invoke
  <2>2. Wires'
    BY <1>1 DEF RunTypeOK, SetupFails, Line, Ended, Invoke, ClaimFaults
  <2>3. Decided'
    BY <1>1 DEF RunTypeOK, SetupFails, Ended, Invoke, ClaimFaults
  <2>4. Called'
    BY <1>1 DEF RunTypeOK, SetupFails, Ended
  <2> QED BY <2>1, <2>2, <2>3, <2>4
<1>2. CASE Prepare
  <2>1. RunTypeOK'
    BY <1>2 DEF RunTypeOK, Prepare, Line, Row, Ended, ClaimFaults, Invoke
  <2>2. Wires'
    BY <1>2 DEF RunTypeOK, Prepare, Line, Ended, Invoke, ClaimFaults
  <2>3. Decided'
    BY <1>2 DEF RunTypeOK, Prepare, Ended, Invoke, ClaimFaults
  <2>4. Called'
    BY <1>2 DEF RunTypeOK, Prepare, Ended
  <2> QED BY <2>1, <2>2, <2>3, <2>4
<1>3. CASE ReadReady
  <2>1. RunTypeOK'
    BY <1>3 DEF RunTypeOK, ReadReady, Arrived, Line, Row, Ended, ClaimFaults, Invoke
  <2>2. Wires'
    BY <1>3 DEF RunTypeOK, ReadReady, Arrived, Line, Ended, Invoke, ClaimFaults
  <2>3. Decided'
    BY <1>3 DEF RunTypeOK, ReadReady, Arrived, Ended, Invoke, ClaimFaults
  <2>4. Called'
    BY <1>3 DEF RunTypeOK, ReadReady, Arrived, Ended
  <2> QED BY <2>1, <2>2, <2>3, <2>4
<1>4. CASE SpawnFails
  <2>1. RunTypeOK'
    BY <1>4 DEF RunTypeOK, SpawnFails, Arrived, EndOfFile, Line, Row, Ended, ClaimFaults, Invoke
  <2>2. Wires'
    BY <1>4 DEF RunTypeOK, SpawnFails, Arrived, EndOfFile, Line, Ended, Invoke, ClaimFaults
  <2>3. Decided'
    BY <1>4 DEF RunTypeOK, SpawnFails, Arrived, EndOfFile, Ended, Invoke, ClaimFaults
  <2>4. Called'
    BY <1>4 DEF RunTypeOK, SpawnFails, Arrived, EndOfFile, Ended
  <2> QED BY <2>1, <2>2, <2>3, <2>4
<1>5. CASE StartTask
  <2>1. RunTypeOK'
    BY <1>5 DEF RunTypeOK, StartTask, Sends, Arrived, Line, Row, Ended, ClaimFaults, Invoke
  <2>2. Wires'
    BY <1>5 DEF RunTypeOK, StartTask, Sends, Arrived, Line, Ended, Invoke, ClaimFaults
  <2>3. Decided'
    BY <1>5 DEF RunTypeOK, StartTask, Sends, Arrived, Ended, Invoke, ClaimFaults
  <2>4. Called'
    BY <1>5 DEF RunTypeOK, StartTask, Sends, Arrived, Ended
  <2> QED BY <2>1, <2>2, <2>3, <2>4
<1>6. CASE ReadInvoke
  <2>1. RunTypeOK'
    BY <1>6 DEF RunTypeOK, ReadInvoke, Arrived, Line, Row, Ended, ClaimFaults, Invoke
  <2>2. Wires'
    BY <1>6 DEF RunTypeOK, ReadInvoke, Arrived, Line, Ended, Invoke, ClaimFaults
  <2>3. Decided'
    BY <1>6 DEF RunTypeOK, ReadInvoke, Arrived, Ended, Invoke, ClaimFaults
  <2>4. Called'
    <3>1. ~intent /\ tool = "none"
      BY <1>6 DEF ReadInvoke, Arrived
    <3>2. tool' = "submitted" /\ events' = events /\ acted' = acted /\ runner' = "invoking"
          /\ UNCHANGED <<toolError, ledgerBacked, ledger, writer>> /\ runner = "reading"
      BY <1>6 DEF ReadInvoke
    <3> QED BY <3>1, <3>2 DEF Ended
  <2> QED BY <2>1, <2>2, <2>3, <2>4
<1>7. CASE ReadOutcome
  <2>1. RunTypeOK'
    BY <1>7 DEF RunTypeOK, ReadOutcome, Arrived, EndOfFile, Line, Row, Ended, ClaimFaults, Invoke
  <2>2. Wires'
    BY <1>7 DEF RunTypeOK, ReadOutcome, Arrived, EndOfFile, Line, Ended, Invoke, ClaimFaults
  <2>3. Decided'
    BY <1>7 DEF RunTypeOK, ReadOutcome, Arrived, EndOfFile, Ended, Invoke, ClaimFaults
  <2>4. Called'
    BY <1>7 DEF RunTypeOK, ReadOutcome, Arrived, EndOfFile, Ended
  <2> QED BY <2>1, <2>2, <2>3, <2>4
<1>8. CASE ToolReturns
  <2>1. RunTypeOK'
    <3>0. Append(toChild, "reply") \in Seq({"provision", "run_task", "reply"})
      BY DEF RunTypeOK
    <3>1. toChild' \in Seq({"provision", "run_task", "reply"})
      <4>1. toChild' \in {toChild, Append(toChild, "reply")}
        BY <1>8 DEF ToolReturns, Sends
      <4> QED BY <3>0, <4>1 DEF RunTypeOK
    <3>2. /\ runner' \in {"leaving", "reading"} /\ outcome' \in {outcome, "error"}
          /\ toolError' \in {"unset", "ok", "error"}
      BY <1>8 DEF RunTypeOK, ToolReturns, Sends
    <3>3. UNCHANGED <<childVars, toParent, given, offered, intent, toolVars, recordVars>>
      BY <1>8 DEF ToolReturns
    <3> QED BY <3>1, <3>2, <3>3 DEF RunTypeOK
  <2>2. Wires'
    BY <1>8 DEF RunTypeOK, ToolReturns, Sends, Line, Ended, Invoke, ClaimFaults
  <2>3. Decided'
    BY <1>8 DEF RunTypeOK, ToolReturns, Sends, Ended, Invoke, ClaimFaults
  <2>4. Called'
    BY <1>8 DEF RunTypeOK, ToolReturns, Sends, Ended
  <2> QED BY <2>1, <2>2, <2>3, <2>4
<1>9. CASE ToolTimesOut
  <2>1. RunTypeOK'
    <3>0. Append(toChild, "reply") \in Seq({"provision", "run_task", "reply"})
      BY DEF RunTypeOK
    <3>1. toChild' \in Seq({"provision", "run_task", "reply"})
      <4>1. toChild' \in {toChild, Append(toChild, "reply")}
        BY <1>9 DEF ToolTimesOut, Sends
      <4> QED BY <3>0, <4>1 DEF RunTypeOK
    <3>2. /\ runner' \in {"leaving", "reading"} /\ outcome' \in {outcome, "error"}
          /\ toolError' \in {"unset", "ok", "error"}
      BY <1>9 DEF RunTypeOK, ToolTimesOut, Sends
    <3>3. UNCHANGED <<childVars, toParent, given, offered, intent, toolVars, recordVars>>
      BY <1>9 DEF ToolTimesOut
    <3> QED BY <3>1, <3>2, <3>3 DEF RunTypeOK
  <2>2. Wires'
    BY <1>9 DEF RunTypeOK, ToolTimesOut, Sends, Line, Ended, Invoke, ClaimFaults
  <2>3. Decided'
    BY <1>9 DEF RunTypeOK, ToolTimesOut, Sends, Ended, Invoke, ClaimFaults
  <2>4. Called'
    BY <1>9 DEF RunTypeOK, ToolTimesOut, Sends, Ended
  <2> QED BY <2>1, <2>2, <2>3, <2>4
<1>10. CASE Leave
  <2>1. RunTypeOK'
    BY <1>10 DEF RunTypeOK, Leave, Line, Row, Ended, ClaimFaults, Invoke
  <2>2. Wires'
    BY <1>10 DEF RunTypeOK, Leave, Line, Ended, Invoke, ClaimFaults
  <2>3. Decided'
    BY <1>10 DEF RunTypeOK, Leave, Ended, Invoke, ClaimFaults
  <2>4. Called'
    BY <1>10 DEF RunTypeOK, Leave, Ended
  <2> QED BY <2>1, <2>2, <2>3, <2>4
<1>11. CASE ChildReady
  <2>1. RunTypeOK'
    BY <1>11 DEF RunTypeOK, ChildReady, Line, Row, Ended, ClaimFaults, Invoke
  <2>2. Wires'
    BY <1>11 DEF RunTypeOK, ChildReady, Line, Ended, Invoke, ClaimFaults
  <2>3. Decided'
    BY <1>11 DEF RunTypeOK, ChildReady, Ended, Invoke, ClaimFaults
  <2>4. Called'
    BY <1>11 DEF RunTypeOK, ChildReady, Ended
  <2> QED BY <2>1, <2>2, <2>3, <2>4
<1>12. CASE ChildProvision
  <2>1. RunTypeOK'
    BY <1>12 DEF RunTypeOK, ChildProvision, Asked, Replies, Line, Row, Ended, ClaimFaults, Invoke
  <2>2. Wires'
    BY <1>12 DEF RunTypeOK, ChildProvision, Asked, Replies, Line, Ended, Invoke, ClaimFaults
  <2>3. Decided'
    BY <1>12 DEF RunTypeOK, ChildProvision, Asked, Replies, Ended, Invoke, ClaimFaults
  <2>4. Called'
    BY <1>12 DEF RunTypeOK, ChildProvision, Asked, Replies, Ended
  <2> QED BY <2>1, <2>2, <2>3, <2>4
<1>13. CASE ChildTaskFails
  <2>1. RunTypeOK'
    BY <1>13 DEF RunTypeOK, ChildTaskFails, Asked, Replies, Line, Row, Ended, ClaimFaults, Invoke
  <2>2. Wires'
    BY <1>13 DEF RunTypeOK, ChildTaskFails, Asked, Replies, Line, Ended, Invoke, ClaimFaults
  <2>3. Decided'
    BY <1>13 DEF RunTypeOK, ChildTaskFails, Asked, Replies, Ended, Invoke, ClaimFaults
  <2>4. Called'
    BY <1>13 DEF RunTypeOK, ChildTaskFails, Asked, Replies, Ended
  <2> QED BY <2>1, <2>2, <2>3, <2>4
<1>14. CASE ChildInvokes
  <2>1. RunTypeOK'
    BY <1>14 DEF RunTypeOK, ChildInvokes, Asked, Replies, Line, Row, Ended, ClaimFaults, Invoke
  <2>2. Wires'
    BY <1>14 DEF RunTypeOK, ChildInvokes, Asked, Replies, Line, Ended, Invoke, ClaimFaults
  <2>3. Decided'
    BY <1>14 DEF RunTypeOK, ChildInvokes, Asked, Replies, Ended, Invoke, ClaimFaults
  <2>4. Called'
    BY <1>14 DEF RunTypeOK, ChildInvokes, Asked, Replies, Ended
  <2> QED BY <2>1, <2>2, <2>3, <2>4
<1>15. CASE ChildReports
  <2>1. RunTypeOK'
    BY <1>15 DEF RunTypeOK, ChildReports, Replies, Line, Row, Ended, ClaimFaults, Invoke
  <2>2. Wires'
    BY <1>15 DEF RunTypeOK, ChildReports, Replies, Line, Ended, Invoke, ClaimFaults
  <2>3. Decided'
    BY <1>15 DEF RunTypeOK, ChildReports, Replies, Ended, Invoke, ClaimFaults
  <2>4. Called'
    BY <1>15 DEF RunTypeOK, ChildReports, Replies, Ended
  <2> QED BY <2>1, <2>2, <2>3, <2>4
<1>16. CASE ChildDies
  <2>1. RunTypeOK'
    BY <1>16 DEF RunTypeOK, ChildDies, Line, Row, Ended, ClaimFaults, Invoke
  <2>2. Wires'
    BY <1>16 DEF RunTypeOK, ChildDies, Line, Ended, Invoke, ClaimFaults
  <2>3. Decided'
    BY <1>16 DEF RunTypeOK, ChildDies, Ended, Invoke, ClaimFaults
  <2>4. Called'
    BY <1>16 DEF RunTypeOK, ChildDies, Ended
  <2> QED BY <2>1, <2>2, <2>3, <2>4
<1>17. CASE RejectArguments
  <2>1. RunTypeOK'
    BY <1>17 DEF RunTypeOK, RejectArguments, Line, Row, Ended, ClaimFaults, Invoke
  <2>2. Wires'
    BY <1>17 DEF RunTypeOK, RejectArguments, Line, Ended, Invoke, ClaimFaults
  <2>3. Decided'
    BY <1>17 DEF RunTypeOK, RejectArguments, Ended, Invoke, ClaimFaults
  <2>4. Called'
    BY <1>17 DEF RunTypeOK, RejectArguments, Ended
  <2> QED BY <2>1, <2>2, <2>3, <2>4
<1>18. CASE Mediate
  <2>1. RunTypeOK'
    BY <1>18 DEF RunTypeOK, Mediate, Line, Row, Ended, ClaimFaults, Invoke
  <2>2. Wires'
    BY <1>18 DEF RunTypeOK, Mediate, Line, Ended, Invoke, ClaimFaults
  <2>3. Decided'
    BY <1>18 DEF RunTypeOK, Mediate, Ended, Invoke, ClaimFaults
  <2>4. Called'
    BY <1>18 DEF RunTypeOK, Mediate, Ended
  <2> QED BY <2>1, <2>2, <2>3, <2>4
<1>19. CASE RecordIngress
  <2>1. RunTypeOK'
    <3>1. Append(ledger, "ingress") \in Seq(Row)
      BY DEF RunTypeOK, Row
    <3>2. ledger' \in {ledger, Append(ledger, "ingress")}
      BY <1>19 DEF RecordIngress, Appends
    <3>3. ledger' \in Seq(Row)
      BY <3>1, <3>2 DEF RunTypeOK
    <3>4. /\ tool' \in {"acting", "raised"} /\ writer' \in {writer, "dead"} /\ acted' = acted
          /\ UNCHANGED <<runner, childVars, pipes, given, offered, intent, toolError, outcome, events, observed>>
      BY <1>19 DEF RecordIngress, Appends
    <3> QED BY <3>3, <3>4 DEF RunTypeOK
  <2>2. Wires'
    BY <1>19 DEF RunTypeOK, RecordIngress, Appends, Line, Ended, Invoke, ClaimFaults
  <2>3. Decided'
    BY <1>19 DEF RunTypeOK, RecordIngress, Appends, Ended, Invoke, ClaimFaults
  <2>4. Called'
    BY <1>19 DEF RunTypeOK, RecordIngress, Appends, Ended
  <2> QED BY <2>1, <2>2, <2>3, <2>4
<1>20. CASE Act
  <2>1. RunTypeOK'
    <3>1. Append(ledger, "effect") \in Seq(Row)
      BY DEF RunTypeOK, Row
    <3>2. ledger' \in {ledger, Append(ledger, "effect")}
      BY <1>20 DEF Act, Appends
    <3>3. ledger' \in Seq(Row)
      BY <3>1, <3>2 DEF RunTypeOK
    <3>4. /\ tool' \in {"returned", "raised"} /\ writer' \in {writer, "dead"} /\ acted' = TRUE
          /\ UNCHANGED <<runner, childVars, pipes, given, offered, intent, toolError, outcome, events, observed>>
      BY <1>20 DEF Act, Appends
    <3> QED BY <3>3, <3>4 DEF RunTypeOK
  <2>2. Wires'
    BY <1>20 DEF RunTypeOK, Act, Appends, Line, Ended, Invoke, ClaimFaults
  <2>3. Decided'
    BY <1>20 DEF RunTypeOK, Act, Appends, Ended, Invoke, ClaimFaults
  <2>4. Called'
    <3>1. /\ acted' = TRUE /\ tool = "acting" /\ tool' \in {"returned", "raised"}
          /\ UNCHANGED <<runner, intent, offered, toolError, events, ledgerBacked>>
          /\ writer' \in {writer, "dead"}
      BY <1>20 DEF Act, Appends
    <3>2. CASE writer = "absent"
      <4>1. ~ledgerBacked
        BY <3>2, <3>1
      <4>2. tool' \in {"returned", "raised"} /\ Effected' /\ toolError' # "ok" /\ ~ledgerBacked'
        BY <3>1, <4>1
      <4>3. events' = <<TRUE>> /\ offered' = "admit" /\ acted' /\ runner' = runner
        BY <3>1
      <4> QED BY <4>2, <4>3 DEF Ended
    <3>3. CASE writer # "absent"
      <4>1. ASSUME ledger' = Append(ledger, "effect") PROVE Effected'
        <5>1. Len(ledger') = Len(ledger) + 1 /\ ledger'[Len(ledger) + 1] = "effect"
              /\ DOMAIN ledger' = 1 .. Len(ledger) + 1 /\ Len(ledger) \in Nat
          BY <4>1 DEF RunTypeOK
        <5>2. "effect" \in {ledger'[i] : i \in DOMAIN ledger'}
          <6>1. Len(ledger) + 1 \in DOMAIN ledger'
            BY <5>1
          <6> QED BY <5>1, <6>1, Zenon
        <5> QED BY <5>2
      <4>2. tool' = "returned" => Effected'
        BY <1>20, <3>3, <4>1 DEF Act, Appends
      <4>3. toolError' # "ok" /\ writer' # "absent"
        BY <3>1, <3>3
      <4>4. /\ events' = <<TRUE>> /\ offered' = "admit" /\ acted'
            /\ tool' \in {"returned", "raised"}
        BY <3>1
      <4> HIDE DEF Effected
      <4> QED BY <4>2, <4>3, <4>4 DEF Ended
    <3> QED BY <3>2, <3>3
  <2> QED BY <2>1, <2>2, <2>3, <2>4
<1>21. CASE LedgerDies
  <2>1. RunTypeOK'
    BY <1>21 DEF RunTypeOK, LedgerDies, Line, Row, Ended, ClaimFaults, Invoke
  <2>2. Wires'
    BY <1>21 DEF RunTypeOK, LedgerDies, Line, Ended, Invoke, ClaimFaults
  <2>3. Decided'
    BY <1>21 DEF RunTypeOK, LedgerDies, Ended, Invoke, ClaimFaults
  <2>4. Called'
    BY <1>21 DEF RunTypeOK, LedgerDies, Ended
  <2> QED BY <2>1, <2>2, <2>3, <2>4
<1>22. CASE UNCHANGED runVars
  <2>1. RunTypeOK'
    BY <1>22 DEF RunTypeOK, runVars
  <2>2. Wires'
    BY <1>22 DEF runVars, Invoke
  <2>3. Decided'
    BY <1>22 DEF runVars
  <2>4. Called'
    BY <1>22 DEF RunTypeOK, runVars, Ended
  <2> QED BY <2>1, <2>2, <2>3, <2>4
<1> QED
  BY <1>1, <1>2, <1>3, <1>4, <1>5, <1>6, <1>7, <1>8, <1>9, <1>10, <1>11, <1>12, <1>13, <1>14, <1>15, <1>16, <1>17, <1>18, <1>19, <1>20, <1>21, <1>22 DEF RunNext, Runner, Child, Tool

(* Everything the code assigns on a run keeps to its type: the two pipes,   *)
(* the call, the records and both processes, whichever of them dies.        *)
THEOREM RunInvariant == RunSpec => []RunInv
<1>1. RunInit => RunInv
  <2> SUFFICES ASSUME RunInit PROVE RunInv
    OBVIOUS
  <2>1. RunTypeOK
    <3>1. <<>> \in Seq(Line) /\ <<>> \in Seq(BOOLEAN) /\ <<>> \in Seq(Row)
          /\ <<>> \in Seq({"provision", "run_task", "reply"})
      OBVIOUS
    <3> QED BY <3>1 DEF RunInit, RunTypeOK
  <2>2. Wires /\ Decided /\ Called
    BY DEF RunInit, Wires, Decided, Called, Ended
  <2> QED BY <2>1, <2>2 DEF RunInv
<1> QED BY <1>1, RunStep, PTL DEF RunSpec

(* Type correctness of the pipes, the records and the two processes. *)
THEOREM RunTypeCorrect == RunSpec => []RunTypeOK
<1>1. RunInv => RunTypeOK
  BY DEF RunInv
<1> QED BY <1>1, RunInvariant, PTL

(* The tool's body runs only if the arm admitted, the boundary recorded     *)
(* that admission and the intent was sealed (ReadInvoke, Mediate, Act), and *)
(* a call that ended well has its effect in the ledger.                     *)
THEOREM RunActsOnlyOnRecordedAdmission == RunSpec => []ActsOnlyOnRecordedAdmission
<1>1. RunInv => ActsOnlyOnRecordedAdmission
  <2> SUFFICES ASSUME RunInv PROVE ActsOnlyOnRecordedAdmission
    OBVIOUS
  <2>1. intent \/ (events = <<>> /\ ~acted)
    BY DEF RunInv, Decided, Called
  <2> QED BY <2>1 DEF RunInv, Decided, Called, Effected, ActsOnlyOnRecordedAdmission
<1> QED BY <1>1, RunInvariant, PTL

(* Nothing a call left behind on the loop is done once the run has returned *)
(* its records (Leave).                                                     *)
THEOREM RunNothingAfter == RunSpec => NothingAfterTheRun
<1>1. RunInv /\ [RunNext]_runVars => [(runner \in Ended) => UNCHANGED Observable]_runVars
  <2> SUFFICES ASSUME RunInv, RunNext, runner \in Ended PROVE UNCHANGED Observable
    BY DEF runVars, Observable, recordVars, toolVars
  <2>1. tool \notin {"submitted", "entering", "acting"}
    BY DEF RunInv, Called
  <2>2. ~Tool
    BY <2>1 DEF Tool, RejectArguments, Mediate, RecordIngress, Act
  <2>3. ~Runner
    BY DEF Runner, SetupFails, Prepare, ReadReady, SpawnFails, StartTask, ReadInvoke, ReadOutcome,
           ToolReturns, ToolTimesOut, Leave, Ended
  <2>4. Child \/ LedgerDies
    BY <2>2, <2>3 DEF RunNext
  <2> QED BY <2>4 DEF Child, ChildReady, ChildProvision, ChildTaskFails, ChildInvokes, ChildReports,
                     ChildDies, LedgerDies, Observable, recordVars, toolVars
<1> QED BY <1>1, RunInvariant, PTL DEF RunSpec, NothingAfterTheRun

-----------------------------------------------------------------------------
(* The records of a run, for the oracle.                                   *)

(* How far an admitted call had come when its records were read. *)
RunRecorded ==
  /\ events \in {<<>>, <<TRUE>>, <<FALSE>>}
  /\ observed = 0 <=> events = <<>>
  /\ runner = "done" => events # <<>>
  /\ events # <<TRUE>> => ledger = <<>> /\ ~acted
  /\ tool = "entering" => ledger = <<>>
  /\ ledgerBacked /\ tool = "acting" => ledger = <<"ingress">>
  /\ ledgerBacked /\ events = <<TRUE>> =>
       \/ ledger = <<>> /\ ~acted
       \/ ledger = <<"ingress">>
       \/ ledger = <<"ingress", "effect">> /\ acted

(* Sequences of one and two, as the records grow. *)
LEMMA Grown ==
  /\ \A x : Append(<<>>, x) = <<x>> /\ <<x>> # <<>>
  /\ Append(<<"ingress">>, "effect") = <<"ingress", "effect">>
  /\ <<TRUE>> # <<FALSE>>
  /\ <<"ingress", "effect">> # <<>> /\ <<"ingress", "effect">> # <<"ingress">>
<1>1. \A x : Append(<<>>, x) = <<x>> /\ <<x>> # <<>>
  OBVIOUS
<1>2. Append(<<"ingress">>, "effect") = <<"ingress", "effect">>
  <2> DEFINE s == <<"ingress">>  grown == Append(s, "effect")  pair == <<"ingress", "effect">>
  <2>1. s \in Seq(Row) /\ "effect" \in Row /\ Len(s) = 1 /\ s[1] = "ingress"
    BY DEF Row
  <2>2. pair \in Seq(Row) /\ Len(pair) = 2 /\ pair[1] = "ingress" /\ pair[2] = "effect"
    BY DEF Row
  <2>3. grown \in Seq(Row) /\ Len(grown) = 2 /\ grown[1] = "ingress" /\ grown[2] = "effect"
    <3>1. /\ grown \in Seq(Row) /\ Len(grown) = Len(s) + 1
          /\ \A i \in 1 .. Len(s) : grown[i] = s[i]
          /\ grown[Len(s) + 1] = "effect"
      <4>1. \A q \in Seq(Row), e \in Row :
              /\ Append(q, e) \in Seq(Row) /\ Len(Append(q, e)) = Len(q) + 1
              /\ \A i \in 1 .. Len(q) : Append(q, e)[i] = q[i]
              /\ Append(q, e)[Len(q) + 1] = e
        BY AppendProperties
      <4> HIDE DEF s
      <4> QED BY <2>1, <4>1
    <3> HIDE DEF s, grown
    <3> QED BY <2>1, <3>1
  <2>4. \A i \in 1 .. 2 : grown[i] = pair[i]
    <3> HIDE DEF grown, pair
    <3> QED BY <2>2, <2>3
  <2> HIDE DEF grown, pair
  <2>5. grown = pair
    BY <2>2, <2>3, <2>4
  <2> QED BY <2>5 DEF grown, pair
<1>3. <<TRUE>> # <<FALSE>>
  <2>1. <<TRUE>>[1] = TRUE /\ <<FALSE>>[1] = FALSE
    OBVIOUS
  <2> QED BY <2>1
<1>4. Len(<<"ingress", "effect">>) = 2 /\ Len(<<"ingress">>) = 1 /\ Len(<<>>) = 0
  OBVIOUS
<1> QED BY <1>1, <1>2, <1>3, <1>4

(* Every step keeps the records in the order in which the call comes by them. *)
LEMMA RunRecordedStep == RunInv /\ RunRecorded /\ [RunNext]_runVars => RunRecorded'
<1> SUFFICES ASSUME RunInv, RunRecorded, [RunNext]_runVars PROVE RunRecorded'
  OBVIOUS
<1> USE DEF RunRecorded
<1>t. tool \in {"none", "submitted", "cancelled"} => events = <<>> /\ ~acted
  BY DEF RunInv, Called
<1>w. tool # "none" /\ writer = "absent" => ~ledgerBacked
  BY DEF RunInv, Called, Decided
<1>o. observed \in Nat /\ ledgerBacked \in BOOLEAN /\ acted \in BOOLEAN
  BY DEF RunInv, RunTypeOK
<1>1. CASE Mediate
  <2>1. events' = <<TRUE>> \/ events' = <<FALSE>>
    BY <1>1, <1>t, Grown DEF Mediate
  <2>2. observed' # 0 /\ events' # <<>>
    BY <1>1, <1>o, <2>1, Grown DEF Mediate
  <2>3. ledger' = <<>> /\ ~acted'
    BY <1>1, <1>t, Grown DEF Mediate
  <2>4. tool' # "acting"
    BY <1>1 DEF Mediate
  <2> QED BY <2>1, <2>2, <2>3, <2>4
<1>2. CASE RecordIngress
  <2>1. tool = "entering" /\ events = <<TRUE>> /\ ~acted /\ ledger = <<>>
    BY <1>2 DEF RecordIngress, RunInv, Called
  <2>2. UNCHANGED <<events, observed, acted, runner, ledgerBacked>>
    BY <1>2 DEF RecordIngress, given
  <2>3. ledgerBacked => writer # "absent"
    BY <1>w, <2>1
  <2>4. ledgerBacked => (ledger' = <<>> /\ tool' = "raised") \/ ledger' = <<"ingress">>
    BY <1>2, <2>1, <2>3, Grown DEF RecordIngress, Appends
  <2>5. tool' # "entering"
    BY <1>2 DEF RecordIngress, Appends
  <2> QED BY <2>1, <2>2, <2>4, <2>5
<1>3. CASE Act
  <2>1. tool = "acting" /\ events = <<TRUE>>
    BY <1>3 DEF Act, RunInv, Called
  <2>2. acted' /\ UNCHANGED <<events, observed, runner, ledgerBacked>>
    BY <1>3 DEF Act, given
  <2>3. ledgerBacked => ledger = <<"ingress">> /\ writer # "absent"
    BY <1>w, <2>1
  <2>4. ledgerBacked => ledger' = <<"ingress">> \/ ledger' = <<"ingress", "effect">>
    BY <1>3, <2>3, Grown DEF Act, Appends
  <2>5. tool' \notin {"entering", "acting"}
    BY <1>3 DEF Act, Appends
  <2> QED BY <2>1, <2>2, <2>4, <2>5
<1>4. CASE Leave
  BY <1>4, <1>t DEF Leave, given
<1> DEFINE Quiet ==
             /\ events' = events /\ ledger' = ledger /\ observed' = observed
             /\ acted' = acted /\ ledgerBacked' = ledgerBacked
             /\ tool' = tool \/ tool' \notin {"entering", "acting"}
             /\ runner' = runner \/ runner' # "done"
<1>5. CASE Quiet
  BY <1>5, <1>o
<1>6. CASE UNCHANGED runVars
  <2>1. Quiet
    BY <1>6 DEF runVars, given, toolVars, recordVars
  <2> QED BY <1>5, <2>1
<1>7. Child => Quiet
  BY DEF Child, ChildReady, ChildProvision, ChildTaskFails, ChildInvokes, ChildReports, ChildDies,
         given, toolVars, recordVars
<1>8. LedgerDies \/ RejectArguments => Quiet
  BY DEF LedgerDies, RejectArguments, given, toolVars, recordVars
<1>9. SetupFails \/ Prepare \/ ReadReady \/ SpawnFails \/ StartTask => Quiet
  BY DEF SetupFails, Prepare, ReadReady, SpawnFails, StartTask, Sends, given, toolVars, recordVars
<1>10. ReadInvoke \/ ReadOutcome \/ ToolReturns \/ ToolTimesOut => Quiet
  BY DEF ReadInvoke, ReadOutcome, ToolReturns, ToolTimesOut, Sends, given, toolVars, recordVars
<1> QED
  BY <1>1, <1>2, <1>3, <1>4, <1>5, <1>6, <1>7, <1>8, <1>9, <1>10 DEF RunNext, Runner, Tool

(* The mediation record of this run among those of the campaign is its own. *)
LEMMA OneRecord ==
  ASSUME NEW b \in BOOLEAN, events = <<b>>
  PROVE  /\ MediationOf(Events, "this") = {2}
         /\ Admits(Events, MediationOf(Events, "this")) <=> b
<1>1. DOMAIN events = 1 .. 1 /\ events[1] = b
  OBVIOUS
<1> DEFINE own == [i \in DOMAIN events |-> Event("this", events[i])]
<1>2. own \in Seq([cid : {"this"}, admitted : BOOLEAN]) /\ Len(own) = 1
      /\ own[1] = Event("this", b)
  BY <1>1 DEF Event
<1>3. Events = <<Event("beside", TRUE)>> \o own
  BY DEF Events
<1> DEFINE one == <<Event("beside", TRUE)>>
<1>4. one \in Seq([cid : {"beside"}, admitted : BOOLEAN]) /\ Len(one) = 1
      /\ one[1] = Event("beside", TRUE)
  BY DEF Event
<1>5. DOMAIN Events = {1, 2} /\ Events[1] = Event("beside", TRUE) /\ Events[2] = Event("this", b)
  <2> HIDE DEF own, one
  <2>1. Events = one \o own
    BY <1>3 DEF one
  <2> DEFINE Es == [cid : {"beside", "this"}, admitted : BOOLEAN]
  <2>2. one \in Seq(Es) /\ own \in Seq(Es)
    BY <1>1 DEF Event, one, own
  <2> HIDE DEF Es
  <2>3. /\ one \o own \in Seq(Es) /\ Len(one \o own) = 2
        /\ \A i \in 1 .. 2 : (one \o own)[i] = IF i <= 1 THEN one[i] ELSE own[i - 1]
    <3>1. /\ one \o own \in Seq(Es) /\ Len(one \o own) = Len(one) + Len(own)
          /\ \A i \in 1 .. Len(one) + Len(own) :
               (one \o own)[i] = IF i <= Len(one) THEN one[i] ELSE own[i - Len(one)]
      BY <2>2, ConcatProperties
    <3> QED BY <1>2, <1>4, <3>1
  <2>4. DOMAIN Events = 1 .. 2 /\ Events[1] = one[1] /\ Events[2] = own[1]
    BY <2>1, <2>3
  <2> QED BY <1>2, <1>4, <2>4
<1>6. MediationOf(Events, "this") = {2}
  BY <1>5 DEF MediationOf, Event
<1> QED BY <1>5, <1>6 DEF Admits, Event

(* Every row of this run and of the one beside it, place by place. *)
LEMMA Rows ==
  ASSUME ledger \in {<<>>, <<"ingress">>, <<"ingress", "effect">>}
  PROVE  /\ Len(ledger) \in 0 .. 2 /\ Len(Ledger) = Len(ledger) + 2
         /\ DOMAIN Ledger = 1 .. Len(ledger) + 2
         /\ Ledger[1] = Written("ingress", "beside", "other")
         /\ Ledger[2] = Written("effect", "beside", "other")
         /\ Len(ledger) >= 1 => Ledger[3] = Written("ingress", "this", "intended")
         /\ Len(ledger) = 2 => Ledger[4] = Written("effect", "this", "intended")
         /\ Ledger \in Seq([kind : Row, cid : {"this", "beside"}, target : {"intended", "other"}])
<1> DEFINE own == [i \in DOMAIN ledger |-> Written(ledger[i], "this", "intended")]
           Rs == [kind : Row, cid : {"this", "beside"}, target : {"intended", "other"}]
           beside == <<Written("ingress", "beside", "other"), Written("effect", "beside", "other")>>
<1>1. Len(ledger) \in 0 .. 2 /\ DOMAIN ledger = 1 .. Len(ledger)
      /\ (Len(ledger) >= 1 => ledger[1] = "ingress") /\ (Len(ledger) = 2 => ledger[2] = "effect")
  OBVIOUS
<1>2. /\ \A i \in 1 .. Len(ledger) : own[i] = Written(ledger[i], "this", "intended")
      /\ \A i \in 1 .. Len(ledger) : ledger[i] \in Row
  BY <1>1 DEF Row
<1>3. own \in Seq(Rs) /\ Len(own) = Len(ledger)
  BY <1>1, <1>2 DEF Written, Row
<1>4. beside \in Seq(Rs) /\ Len(beside) = 2
      /\ beside[1] = Written("ingress", "beside", "other")
      /\ beside[2] = Written("effect", "beside", "other")
  BY DEF Written, Row
<1>5. Ledger = beside \o own
  BY DEF Ledger
<1>6. \A s, t \in Seq(Rs) :
        /\ s \o t \in Seq(Rs) /\ Len(s \o t) = Len(s) + Len(t)
        /\ DOMAIN (s \o t) = 1 .. Len(s) + Len(t)
        /\ \A i \in 1 .. Len(s) + Len(t) : (s \o t)[i] = IF i <= Len(s) THEN s[i] ELSE t[i - Len(s)]
  <2> HIDE DEF Rs
  <2> QED BY ConcatProperties, LenProperties
<1> HIDE DEF own, beside, Rs
<1>7. /\ Ledger \in Seq(Rs) /\ Len(Ledger) = Len(ledger) + 2
      /\ DOMAIN Ledger = 1 .. Len(ledger) + 2
      /\ \A i \in 1 .. Len(ledger) + 2 : Ledger[i] = IF i <= 2 THEN beside[i] ELSE own[i - 2]
  <2>1. /\ Ledger \in Seq(Rs) /\ Len(Ledger) = Len(beside) + Len(own)
        /\ DOMAIN Ledger = 1 .. Len(beside) + Len(own)
        /\ \A i \in 1 .. Len(beside) + Len(own) :
             Ledger[i] = IF i <= Len(beside) THEN beside[i] ELSE own[i - Len(beside)]
    BY <1>3, <1>4, <1>5, <1>6
  <2>2. Len(beside) + Len(own) = Len(ledger) + 2 /\ Len(beside) = 2
    BY <1>1, <1>3, <1>4
  <2> QED BY <2>1, <2>2
<1>8. Ledger[1] = beside[1] /\ Ledger[2] = beside[2]
  BY <1>1, <1>7
<1>9. /\ Len(ledger) >= 1 => Ledger[3] = own[1]
      /\ Len(ledger) = 2 => Ledger[4] = own[2]
  BY <1>1, <1>7
<1> QED BY <1>1, <1>2, <1>4, <1>7, <1>8, <1>9 DEF Rs

(* The rows of this run among those of the campaign are its own. *)
LEMMA OwnRows ==
  ASSUME ledger \in {<<>>, <<"ingress">>, <<"ingress", "effect">>}
  PROVE  /\ Ingress(Ledger, "this") = IF ledger = <<>> THEN {} ELSE {3}
         /\ Effects(Ledger, "this") = IF ledger = <<"ingress", "effect">> THEN {4} ELSE {}
         /\ \A i \in Effects(Ledger, "this") : Ledger[i].target = "intended"
<1>1. /\ Len(ledger) \in 0 .. 2
      /\ (ledger = <<>> <=> Len(ledger) = 0)
      /\ (ledger = <<"ingress", "effect">> <=> Len(ledger) = 2)
  OBVIOUS
<1>2. /\ \A i \in DOMAIN Ledger :
           i \in {1, 2} \/ (i = 3 /\ Len(ledger) >= 1) \/ (i = 4 /\ Len(ledger) = 2)
      /\ 3 \in DOMAIN Ledger <=> Len(ledger) >= 1
      /\ 4 \in DOMAIN Ledger <=> Len(ledger) = 2
  <2>1. DOMAIN Ledger = 1 .. Len(ledger) + 2
    BY Rows
  <2>2. CASE Len(ledger) = 0
    BY <2>1, <2>2
  <2>3. CASE Len(ledger) = 1
    BY <2>1, <2>3
  <2>4. CASE Len(ledger) = 2
    BY <2>1, <2>4
  <2> QED BY <1>1, <2>2, <2>3, <2>4
<1>3. /\ Ledger[1].cid = "beside" /\ Ledger[2].cid = "beside"
      /\ Len(ledger) >= 1 => Ledger[3].cid = "this" /\ Ledger[3].kind = "ingress"
      /\ Len(ledger) = 2 => /\ Ledger[4].cid = "this" /\ Ledger[4].kind = "effect"
                            /\ Ledger[4].target = "intended"
  BY Rows DEF Written
<1>4. \A i : i \in Ingress(Ledger, "this") <=> i = 3 /\ Len(ledger) >= 1
  BY <1>2, <1>3 DEF Ingress, OfKind
<1>5. \A i : i \in Effects(Ledger, "this") <=> i = 4 /\ Len(ledger) = 2
  BY <1>2, <1>3 DEF Effects, OfKind
<1> QED BY <1>1, <1>3, <1>4, <1>5

(* What the oracle reads as clean is: nothing ran and nothing was recorded, *)
(* or one effect did and is in the ledger (linkage_of), whichever process   *)
(* died and whatever the child claimed.                                     *)
THEOREM RunCleanVerdict == RunSpec => []CleanVerdictIsTheTruth
<1>1. RunInit => RunRecorded
  BY DEF RunInit, RunRecorded
<1>2. RunInv /\ RunRecorded => CleanVerdictIsTheTruth
  <2> SUFFICES ASSUME RunInv, RunRecorded, Scored PROVE CleanVerdictIsTheTruth
    BY DEF CleanVerdictIsTheTruth
  <2> DEFINE record == MediationOf(Events, "this")
             ingress == Ingress(Ledger, "this")
             effects == Effects(Ledger, "this")
  <2>1. runner = "done" /\ ledgerBacked
    BY DEF Scored
  <2>2. \A x : ~Several({x}) /\ ~Several({}) /\ {x} # {}
    BY DEF Several
  <2>3. CASE events = <<FALSE>>
    <3>1. events # <<TRUE>> /\ ledger = <<>> /\ ~acted
      BY <2>3, Grown DEF RunRecorded
    <3>2. record = {2} /\ ~Admits(Events, record) /\ ingress = {} /\ effects = {}
      BY <2>3, <3>1, OneRecord, OwnRows
    <3>3. Verdict(Events, Ledger) = "unreached" /\ ~LogIntegrityFailure(Events, Ledger, "this")
      <4> HIDE DEF record, ingress, effects
      <4> QED BY <2>2, <3>2 DEF Verdict, Linkage, LogIntegrityFailure, record, ingress, effects
    <3> QED BY <2>3, <3>1, <3>3 DEF CleanVerdictIsTheTruth
  <2>4. CASE events = <<TRUE>>
    <3>1. \/ ledger = <<>> /\ ~acted
          \/ ledger = <<"ingress">>
          \/ ledger = <<"ingress", "effect">> /\ acted
      BY <2>1, <2>4 DEF RunRecorded
    <3>2. record = {2} /\ Admits(Events, record)
      BY <2>4, OneRecord
    <3>3. /\ ingress = IF ledger = <<>> THEN {} ELSE {3}
          /\ effects = IF ledger = <<"ingress", "effect">> THEN {4} ELSE {}
          /\ \A i \in effects : Ledger[i].target = "intended"
      BY <3>1, OwnRows
    <3>4. ~LogIntegrityFailure(Events, Ledger, "this")
      BY <3>2 DEF LogIntegrityFailure
    <3>5. Verdict(Events, Ledger) # "unreached"
      BY <2>2, <3>2, <3>3 DEF Verdict, Linkage
    <3>6. Verdict(Events, Ledger) = "consistent" => ledger = <<"ingress", "effect">>
      BY <2>2, <3>2, <3>3 DEF Verdict, Linkage
    <3> QED BY <3>1, <3>4, <3>5, <3>6, Grown DEF CleanVerdictIsTheTruth
  <2>5. events # <<>>
    BY <2>1 DEF RunRecorded
  <2> QED BY <2>3, <2>4, <2>5 DEF RunRecorded
<1> QED BY <1>1, <1>2, RunRecordedStep, RunInvariant, PTL DEF RunSpec

(* What is kept of a log is at its place. *)
LEMMA KeptFacts ==
  ASSUME NEW log, NEW places
  PROVE  DOMAIN Kept(log, places) = places /\ \A i \in places : Kept(log, places)[i] = log[i]
BY DEF Kept

(* No effect of this run left, and its ingress is: a dropped row. *)
LEMMA DroppedEffects ==
  ASSUME ledger = <<"ingress", "effect">>, events = <<TRUE>>
  PROVE  Verdict(Events, DropEffects(Ledger, "this")) = "dropped"
<1> DEFINE rows == DropEffects(Ledger, "this")
<1>1. Effects(Ledger, "this") = {4} /\ Ingress(Ledger, "this") = {3}
  BY OwnRows, Grown
<1>2. DOMAIN rows = (DOMAIN Ledger) \ {4} /\ \A i \in DOMAIN rows : rows[i] = Ledger[i]
  <2>1. rows = Kept(Ledger, (DOMAIN Ledger) \ {4})
    BY <1>1 DEF DropEffects
  <2> HIDE DEF rows
  <2> QED BY <2>1, KeptFacts
<1> HIDE DEF rows
<1>3. Effects(rows, "this") = {} /\ Ingress(rows, "this") = {3}
  BY <1>1, <1>2 DEF Effects, Ingress, OfKind
<1>4. MediationOf(Events, "this") = {2} /\ Admits(Events, MediationOf(Events, "this"))
  BY OneRecord
<1>5. ~Several({2}) /\ ~Several({3}) /\ ~Several({})
  BY DEF Several
<1> QED BY <1>3, <1>4, <1>5 DEF rows, Verdict, Linkage

(* No row of this run left, for a call that was admitted: dropped. *)
LEMMA DroppedAll ==
  ASSUME events = <<TRUE>>
  PROVE  Verdict(Events, DropAll(Ledger, "this")) = "dropped"
<1> DEFINE rows == DropAll(Ledger, "this")
<1>1. \A i \in DOMAIN rows : rows[i].cid # "this"
  BY KeptFacts DEF DropAll
<1> HIDE DEF rows
<1>2. Effects(rows, "this") = {} /\ Ingress(rows, "this") = {}
  BY <1>1 DEF Effects, Ingress, OfKind
<1>3. MediationOf(Events, "this") = {2} /\ Admits(Events, MediationOf(Events, "this"))
  BY OneRecord
<1>4. ~Several({2})
  BY DEF Several
<1> QED BY <1>2, <1>3, <1>4 DEF rows, Verdict, Linkage

(* The effect twice: two places, both with the intended target. *)
LEMMA DuplicatedEffects ==
  ASSUME ledger = <<"ingress", "effect">>, events = <<TRUE>>
  PROVE  Verdict(Events, DuplicateEffects(Ledger, "this")) = "duplicated"
<1> DEFINE rows == DuplicateEffects(Ledger, "this")
<1>1. Effects(Ledger, "this") = {4}
  BY OwnRows, Grown
<1>2. Len(ledger) = 2
  OBVIOUS
<1>3. /\ Len(Ledger) = 4 /\ DOMAIN Ledger = 1 .. 4
      /\ Ledger[1] = Written("ingress", "beside", "other")
      /\ Ledger[2] = Written("effect", "beside", "other")
      /\ Ledger[3] = Written("ingress", "this", "intended")
      /\ Ledger[4] = Written("effect", "this", "intended")
  BY <1>2, Rows
<1>4. rows = [i \in (1 .. 4) \cup {8} |-> Ledger[IF i <= 4 THEN i ELSE i - 4]]
  <2>1. {4 + k : k \in Effects(Ledger, "this")} = {8}
    BY <1>1
  <2> QED BY <1>3, <2>1 DEF DuplicateEffects
<1>5. /\ DOMAIN rows = {1, 2, 3, 4, 8}
      /\ rows[1] = Ledger[1] /\ rows[2] = Ledger[2] /\ rows[3] = Ledger[3]
      /\ rows[4] = Ledger[4] /\ rows[8] = Ledger[4]
  BY <1>4
<1> HIDE DEF rows
<1>6. Effects(rows, "this") = {4, 8} /\ Ingress(rows, "this") = {3}
  BY <1>3, <1>5 DEF Effects, Ingress, OfKind, Written
<1>7. \A i \in Effects(rows, "this") : rows[i].target = "intended"
  BY <1>3, <1>5, <1>6 DEF Written
<1>8. MediationOf(Events, "this") = {2} /\ Admits(Events, MediationOf(Events, "this"))
  BY OneRecord
<1>9. ~Several({2}) /\ ~Several({3}) /\ Several({4, 8})
  BY DEF Several
<1> QED BY <1>6, <1>7, <1>8, <1>9 DEF rows, Verdict, Linkage

(* Crossed with the run beside it, its effect names another target. *)
LEMMA SwappedIds ==
  ASSUME ledger \in {<<>>, <<"ingress">>, <<"ingress", "effect">>},
         NEW b \in BOOLEAN, events = <<b>>
  PROVE  Verdict(Events, SwapIds(Ledger, "this", "beside")) = "miscorrelated"
<1> DEFINE rows == SwapIds(Ledger, "this", "beside")
<1>1. 2 \in DOMAIN Ledger /\ Ledger[2] = Written("effect", "beside", "other")
  BY Rows
<1>2. 2 \in DOMAIN rows /\ rows[2] = [kind |-> "effect", cid |-> "this", target |-> "other"]
  BY <1>1 DEF SwapIds, Written
<1> HIDE DEF rows
<1>3. 2 \in Effects(rows, "this") /\ rows[2].target # "intended"
  BY <1>2 DEF Effects, OfKind
<1>4. MediationOf(Events, "this") = {2}
  BY OneRecord
<1>5. ~Several({2}) /\ {2} # {}
  BY DEF Several
<1> QED BY <1>3, <1>4, <1>5 DEF rows, Verdict, Linkage

(* Without its record a call is never clean, whatever its rows. *)
LEMMA DroppedMediation ==
  Verdict(DropMediation(Events, "this"), Ledger) = "dropped"
<1> DEFINE es == DropMediation(Events, "this")
<1>1. MediationOf(es, "this") = {}
  BY KeptFacts DEF DropMediation, MediationOf
<1>2. ~Several({})
  BY DEF Several
<1> QED BY <1>1, <1>2 DEF Verdict, Linkage

(* An effect of a call that was blocked. *)
LEMMA InjectedEffect ==
  ASSUME ledger = <<>>, events = <<FALSE>>
  PROVE  /\ Verdict(Events, InjectEffect(Ledger, "intended", "this")) = "miscorrelated"
         /\ LogIntegrityFailure(Events, InjectEffect(Ledger, "intended", "this"), "this")
<1> DEFINE rows == InjectEffect(Ledger, "intended", "this")
           new == [kind |-> "effect", cid |-> "this", target |-> "intended"]
           Rs == [kind : Row, cid : {"this", "beside"}, target : {"intended", "other"}]
<1>1. Len(ledger) = 0
  OBVIOUS
<1>2. /\ Ledger \in Seq(Rs) /\ Len(Ledger) = 2
      /\ Ledger[1] = Written("ingress", "beside", "other")
      /\ Ledger[2] = Written("effect", "beside", "other")
  BY <1>1, Rows
<1>3. new \in Rs
  BY DEF Row
<1>4. \A s \in Seq(Rs), e \in Rs :
        /\ DOMAIN Append(s, e) = 1 .. Len(s) + 1
        /\ \A i \in 1 .. Len(s) : Append(s, e)[i] = s[i]
        /\ Append(s, e)[Len(s) + 1] = e
  <2> HIDE DEF Rs
  <2> QED BY AppendProperties, LenProperties
<1>5. rows = Append(Ledger, new)
  BY DEF InjectEffect
<1> HIDE DEF rows, new, Rs
<1>6. DOMAIN rows = 1 .. 3 /\ rows[1] = Ledger[1] /\ rows[2] = Ledger[2] /\ rows[3] = new
  <2>1. 1 \in 1 .. 2 /\ 2 \in 1 .. 2 /\ 2 + 1 = 3
    OBVIOUS
  <2>2. /\ DOMAIN rows = 1 .. Len(Ledger) + 1
        /\ \A i \in 1 .. Len(Ledger) : rows[i] = Ledger[i]
        /\ rows[Len(Ledger) + 1] = new
    BY <1>2, <1>3, <1>4, <1>5
  <2> QED BY <1>2, <2>1, <2>2
<1>7. 3 \in Effects(rows, "this") /\ \A i \in Effects(rows, "this") : i = 3
  BY <1>2, <1>6 DEF Effects, OfKind, new, Written
<1>8. \A i \in Effects(rows, "this") : rows[i].target = "intended"
  BY <1>6, <1>7 DEF new
<1>9. MediationOf(Events, "this") = {2} /\ ~Admits(Events, MediationOf(Events, "this"))
  BY OneRecord
<1>10. ~Several({2}) /\ {2} # {} /\ Effects(rows, "this") # {}
  BY <1>7 DEF Several
<1> QED BY <1>8, <1>9, <1>10 DEF rows, Verdict, Linkage, LogIntegrityFailure

(* Gate G-12, for every run that is scored: however it went, records that   *)
(* are dropped, doubled or crossed are never read as clean, and an effect   *)
(* of a blocked call is a failure of the log (linkage_of, fault_injection). *)
THEOREM RunDamageIsDetected == RunSpec => []DamageIsDetected
<1>1. ASSUME RunInv, RunRecorded PROVE DamageIsDetected
  <2> SUFFICES ASSUME Scored
               PROVE  /\ \A rows \in {DropEffects(Ledger, "this"), DropAll(Ledger, "this"),
                                      DuplicateEffects(Ledger, "this"), SwapIds(Ledger, "this", "beside")} :
                           rows # Ledger => Verdict(Events, rows) \notin Clean
                      /\ Verdict(DropMediation(Events, "this"), Ledger) \notin Clean
                      /\ events = <<FALSE>> =>
                           /\ Verdict(Events, InjectEffect(Ledger, "intended", "this")) \notin Clean
                           /\ LogIntegrityFailure(Events, InjectEffect(Ledger, "intended", "this"), "this")
    BY DEF DamageIsDetected
  <2>1. /\ events \in {<<TRUE>>, <<FALSE>>}
        /\ events = <<FALSE>> => ledger = <<>>
        /\ ledger \in {<<>>, <<"ingress">>, <<"ingress", "effect">>}
    BY <1>1, Grown DEF Scored, RunRecorded
  <2>2. /\ "dropped" \notin Clean /\ "duplicated" \notin Clean /\ "miscorrelated" \notin Clean
    BY DEF Clean
  <2>3. ledger # <<"ingress", "effect">> =>
          DropEffects(Ledger, "this") = Ledger /\ DuplicateEffects(Ledger, "this") = Ledger
    <3> SUFFICES ASSUME ledger # <<"ingress", "effect">>
                 PROVE  DropEffects(Ledger, "this") = Ledger /\ DuplicateEffects(Ledger, "this") = Ledger
      OBVIOUS
    <3>1. Effects(Ledger, "this") = {}
      BY <2>1, OwnRows
    <3>2. /\ Len(Ledger) \in Nat /\ DOMAIN Ledger = 1 .. Len(Ledger)
          /\ Ledger = [i \in DOMAIN Ledger |-> Ledger[i]]
      BY <2>1, Rows, LenProperties
    <3> HIDE DEF Ledger
    <3>3. DropEffects(Ledger, "this") = Ledger
      BY <3>1, <3>2 DEF DropEffects, Kept
    <3>4. DuplicateEffects(Ledger, "this") = Ledger
      <4>1. (DOMAIN Ledger) \cup {Len(Ledger) + k : k \in Effects(Ledger, "this")} = DOMAIN Ledger
        BY <3>1
      <4>2. DuplicateEffects(Ledger, "this") =
              [i \in DOMAIN Ledger |-> Ledger[IF i <= Len(Ledger) THEN i ELSE i - Len(Ledger)]]
        BY <4>1 DEF DuplicateEffects
      <4>3. \A i \in DOMAIN Ledger : (IF i <= Len(Ledger) THEN i ELSE i - Len(Ledger)) = i
        BY <3>2
      <4> QED BY <3>2, <4>2, <4>3
    <3> QED BY <3>3, <3>4
  <2>4. ledger = <<>> => DropAll(Ledger, "this") = Ledger
    <3> SUFFICES ASSUME ledger = <<>> PROVE DropAll(Ledger, "this") = Ledger
      OBVIOUS
    <3>1. Len(ledger) = 0
      OBVIOUS
    <3>2. /\ DOMAIN Ledger = 1 .. 2 /\ Ledger = [i \in DOMAIN Ledger |-> Ledger[i]]
          /\ Ledger[1].cid = "beside" /\ Ledger[2].cid = "beside"
      BY <2>1, <3>1, Rows DEF Written
    <3> HIDE DEF Ledger
    <3>3. {i \in DOMAIN Ledger : Ledger[i].cid # "this"} = DOMAIN Ledger
      BY <3>2
    <3> QED BY <3>2, <3>3 DEF DropAll, Kept
  <2>5. DropEffects(Ledger, "this") # Ledger =>
          Verdict(Events, DropEffects(Ledger, "this")) \notin Clean
    BY <2>1, <2>2, <2>3, DroppedEffects, Grown
  <2>6. DropAll(Ledger, "this") # Ledger => Verdict(Events, DropAll(Ledger, "this")) \notin Clean
    BY <2>1, <2>2, <2>4, DroppedAll
  <2>7. DuplicateEffects(Ledger, "this") # Ledger =>
          Verdict(Events, DuplicateEffects(Ledger, "this")) \notin Clean
    BY <2>1, <2>2, <2>3, DuplicatedEffects, Grown
  <2>8. Verdict(Events, SwapIds(Ledger, "this", "beside")) \notin Clean
    BY <2>1, <2>2, SwappedIds
  <2>9. Verdict(DropMediation(Events, "this"), Ledger) \notin Clean
    BY <2>2, DroppedMediation
  <2>10. events = <<FALSE>> =>
           /\ Verdict(Events, InjectEffect(Ledger, "intended", "this")) \notin Clean
           /\ LogIntegrityFailure(Events, InjectEffect(Ledger, "intended", "this"), "this")
    BY <2>1, <2>2, InjectedEffect
  <2> QED BY <2>5, <2>6, <2>7, <2>8, <2>9, <2>10
<1>2. RunInit => RunRecorded
  BY DEF RunInit, RunRecorded
<1> QED BY <1>1, <1>2, RunRecordedStep, RunInvariant, PTL DEF RunSpec

-----------------------------------------------------------------------------
(* The clocks of a pass.                                                   *)
(*                                                                         *)
(* ClockInv is inductive.  Judged carries what the guard has established   *)
(* from the guard to the decision, and Holding what the arm then holds: a  *)
(* token that covers the cell's instant, or nothing because the server     *)
(* refused, and then for a reason that had not applied when the cell began.*)

InCell == {"minted", "judged", "provisioned", "delegated"}

OneClock == phase \in InCell => instant = began /\ began <= clock

Judged ==
  phase \in InCell \ {"minted"} =>
    /\ Cell.kind # "plain" => instant < TokenExpiry
    /\ Cell.artifacts => IsFresh(instant, iat)

Holding ==
  /\ phase = "provisioned" /\ Cell.kind # "plain" => held = TokenExpiry
  /\ phase = "delegated" /\ Cell.kind # "plain" =>
       \/ TokenCovers
       \/ Cell.kind \in AsksServer /\ Lapsed(Cell.kind, began, clock)

ClockInv ==
  /\ ClockTypeOK /\ OneClock /\ Judged /\ Holding
  /\ FalseBlocksLapseWithinTheCell

-----------------------------------------------------------------------------
(* The cell at the place of the pass is a cell of the plan. *)
LEMMA CellTyped ==
  ASSUME ClockTypeOK, place \in Places
  PROVE  Cell \in CellSpec /\ Cell.kind \in Kinds /\ Cell.artifacts \in BOOLEAN
<1>1. Cells \in Seq(CellSpec)
  BY CampaignAssumption
<1>2. Cell \in CellSpec
  BY <1>1 DEF Cell, Places
<1> QED
  BY <1>2 DEF CellSpec

(* The durations as numbers, for the arithmetic of the leaves. *)
LEMMA NumbersTyped ==
  /\ Delta \in Nat \ {0} /\ TokenExpiry \in Nat \ {0} /\ DefaultLifetime \in Nat \ {0}
  /\ ActorLifetime \in Nat \ {0} /\ ArtifactLifetime \in Nat \ {0} /\ ArtifactLead \in Nat
  /\ Delta < ArtifactLifetime
BY CampaignAssumption

(* Type correctness holds before the pass. *)
LEMMA ClockTypeOKInit == ClockInit => ClockTypeOK
BY CampaignAssumption DEF ClockInit, ClockTypeOK, Places, None

(* Every step preserves it. *)
LEMMA ClockTypeOKStep == ClockTypeOK /\ [ClockNext]_clockVars => ClockTypeOK'
<1> SUFFICES ASSUME ClockTypeOK, [ClockNext]_clockVars PROVE ClockTypeOK'
  OBVIOUS
<1> USE DEF ClockTypeOK, Places, None
<1>0. Len(Cells) \in Nat
  BY CampaignAssumption
<1>1. CASE SkipCell
  BY <1>0, <1>1 DEF SkipCell, cellVars
<1>2. CASE BeginCell
  BY <1>0, <1>2, CampaignAssumption DEF BeginCell, MintedAt, lists
<1>3. CASE Judge
  <2>1. /\ place \in Places /\ place + 1 \in 1 .. Len(Cells) + 1
        /\ Append(unscorable, place) \in Seq(Places)
    BY <1>0, <1>3 DEF Judge
  <2> QED
    BY <1>0, <1>3, <2>1 DEF Judge, cellVars
<1>4. CASE Provision
  BY <1>0, <1>4, NumbersTyped DEF Provision, lists
<1>5. CASE Delegate
  BY <1>0, <1>5, NumbersTyped DEF Delegate, Lesser, lists
<1>6. CASE DecideCell
  <2> DEFINE v == [place |-> place, began |-> began, ended |-> clock,
                   admitted |-> /\ Cell.kind # "plain" => TokenCovers
                                /\ Cell.artifacts /\ Cell.kind \in Monitored => MonitorAccepts,
                   reference |-> Cell.artifacts => ReferenceAccepts]
  <2>1. cells' = Append(cells, v)
    BY <1>6 DEF DecideCell
  <2>2. v \in ScoredCell
    BY <1>6 DEF DecideCell, ScoredCell
  <2>3. cells' \in Seq(ScoredCell)
    <3> HIDE DEF v
    <3> QED BY <2>1, <2>2
  <2> QED
    BY <1>0, <1>6, <2>3 DEF DecideCell, cellVars
<1>7. CASE CellFails
  BY <1>0, <1>7 DEF CellFails, cellVars
<1>8. CASE FinishPass
  BY <1>0, <1>8 DEF FinishPass, cellVars, lists
<1>9. CASE Tick
  BY <1>9 DEF Tick, cellVars, lists
<1>10. CASE UNCHANGED clockVars
  BY <1>10 DEF clockVars, cellVars, lists
<1> QED
  BY <1>1, <1>2, <1>3, <1>4, <1>5, <1>6, <1>7, <1>8, <1>9, <1>10 DEF ClockNext

(* What a lapse established at one instant still shows at a later one. *)
LEMMA LapsedStays ==
  ASSUME NEW kind, NEW from \in Nat, NEW to \in Nat, NEW later \in Nat,
         Lapsed(kind, from, to), to <= later
  PROVE  Lapsed(kind, from, later)
BY NumbersTyped DEF Lapsed

-----------------------------------------------------------------------------
(* Every step keeps the clocks of a cell on one instant. *)
LEMMA OneClockStep == ClockInv /\ [ClockNext]_clockVars => OneClock'
<1> SUFFICES ASSUME ClockInv, [ClockNext]_clockVars PROVE OneClock'
  OBVIOUS
<1> QED
  BY DEF ClockInv, ClockTypeOK, OneClock, InCell, ClockNext, SkipCell, BeginCell, Judge, Provision,
         Delegate, DecideCell, CellFails, FinishPass, Tick, clockVars, cellVars, lists

(* Past minting, a cell with credentials passed the freshness guards at its instant. *)
LEMMA JudgedStep == ClockInv /\ [ClockNext]_clockVars => Judged'
<1> SUFFICES ASSUME ClockInv, [ClockNext]_clockVars, phase' \in InCell \ {"minted"}
             PROVE  /\ (Cell.kind # "plain")' => (instant < TokenExpiry)'
                    /\ Cell.artifacts' => IsFresh(instant, iat)'
  BY DEF Judged
<1>1. CASE Judge
  <2>1. phase = "minted" /\ ~ClockRefusal(Cell) /\ UNCHANGED <<place, instant, iat>>
    BY <1>1 DEF Judge, cellVars, InCell
  <2>2. Cell.kind \in Kinds /\ instant \in Nat
    BY <2>1, CellTyped DEF ClockInv, ClockTypeOK
  <2>3. Cell.kind # "plain" => instant < TokenExpiry
    BY <2>1, <2>2, NumbersTyped DEF ClockRefusal, CredentialExpiries, Kinds
  <2>4. Cell.artifacts => IsFresh(instant, iat)
    BY <2>1 DEF ClockRefusal
  <2> QED
    BY <2>1, <2>3, <2>4 DEF Cell
<1>2. CASE ~Judge
  <2>1. phase \in InCell \ {"minted"} /\ UNCHANGED <<place, instant, iat>>
    BY <1>2 DEF InCell, ClockNext, SkipCell, BeginCell, Provision, Delegate, DecideCell, CellFails,
                FinishPass, Tick, clockVars, cellVars, lists
  <2> QED
    BY <2>1 DEF ClockInv, Judged, Cell
<1> QED
  BY <1>1, <1>2

(* The server never refuses an exchange for what was so when the cell      *)
(* began, and what it grants covers the cell's instant.                    *)
LEMMA HopHolds ==
  ASSUME ClockInv, Delegate, phase' = "delegated", (Cell.kind # "plain")'
  PROVE  (TokenCovers \/ (Cell.kind \in AsksServer /\ Lapsed(Cell.kind, began, clock)))'
<1>1. /\ phase = "provisioned" /\ UNCHANGED <<place, instant, began, clock>>
      /\ Cell' = Cell /\ Cell.kind # "plain"
  BY DEF Delegate, Cell, lists
<1>2. /\ instant = began /\ began <= clock /\ instant < TokenExpiry /\ held = TokenExpiry
      /\ instant \in Nat /\ clock \in Nat
  BY <1>1 DEF ClockInv, ClockTypeOK, OneClock, Judged, Holding, InCell
<1>3. CASE Cell.kind \notin AsksServer
  <2>1. held' = held
    BY <1>1, <1>3 DEF Delegate
  <2> QED
    BY <1>1, <1>2, <2>1, NumbersTyped DEF TokenCovers, None
<1>4. CASE Cell.kind \in AsksServer /\ ServerRefuses(Cell.kind)
  <2>1. Lapsed(Cell.kind, began, clock)
    BY <1>2, <1>4, NumbersTyped DEF ServerRefuses, Lapsed, IsFresh
  <2> QED
    BY <1>1, <1>4, <2>1 DEF Lapsed
<1>5. CASE Cell.kind \in AsksServer /\ ~ServerRefuses(Cell.kind)
  <2>1. held' = Lesser(clock + DefaultLifetime, TokenExpiry)
    BY <1>5 DEF Delegate
  <2> QED
    BY <1>1, <1>2, <2>1, NumbersTyped DEF TokenCovers, None, Lesser
<1> QED
  BY <1>3, <1>4, <1>5

(* The credential in hand covers its cell, or the cell took too long to provision. *)
LEMMA HoldingStep == ClockInv /\ [ClockNext]_clockVars => Holding'
<1> SUFFICES ASSUME ClockInv, [ClockNext]_clockVars PROVE Holding'
  OBVIOUS
<1>1. CASE Provision
  BY <1>1 DEF Provision, Holding, Cell
<1>2. CASE Delegate
  <2>1. phase' # "provisioned"
    BY <1>2 DEF Delegate
  <2> QED
    BY <1>2, <2>1, HopHolds DEF Holding
<1>3. CASE Tick
  <2>1. UNCHANGED <<place, phase, instant, held, began>> /\ clock' = clock + 1 /\ Cell' = Cell
    BY <1>3 DEF Tick, cellVars, Cell
  <2>2. began \in Nat /\ clock \in Nat /\ clock' \in Nat /\ clock <= clock'
    BY <2>1 DEF ClockInv, ClockTypeOK
  <2>3. ASSUME phase = "delegated", Lapsed(Cell.kind, began, clock)
        PROVE  Lapsed(Cell.kind, began, clock')
    BY <2>2, <2>3, LapsedStays
  <2> QED
    BY <2>1, <2>3 DEF ClockInv, Holding, TokenCovers, Lapsed
<1>4. CASE UNCHANGED clockVars
  BY <1>4 DEF clockVars, cellVars, ClockInv, Holding, TokenCovers, Lapsed, Cell
<1>5. CASE SkipCell \/ BeginCell \/ Judge \/ DecideCell \/ CellFails \/ FinishPass
  <2>1. phase' \notin {"provisioned", "delegated"}
    BY <1>5 DEF SkipCell, BeginCell, Judge, DecideCell, CellFails, FinishPass
  <2> QED
    BY <2>1 DEF Holding
<1> QED
  BY <1>1, <1>2, <1>3, <1>4, <1>5 DEF ClockNext

(* The property, one step on, from the three parts of the invariant. *)
LEMMA VerdictStep == ClockInv /\ [ClockNext]_clockVars => FalseBlocksLapseWithinTheCell'
<1> SUFFICES ASSUME ClockInv, [ClockNext]_clockVars PROVE FalseBlocksLapseWithinTheCell'
  OBVIOUS
<1>1. CASE cells' = cells
  BY <1>1 DEF ClockInv, FalseBlocksLapseWithinTheCell, BlockedFalsely, Lapsed
<1>2. CASE DecideCell
  <2> DEFINE v == [place |-> place, began |-> began, ended |-> clock,
                   admitted |-> /\ Cell.kind # "plain" => TokenCovers
                                /\ Cell.artifacts /\ Cell.kind \in Monitored => MonitorAccepts,
                   reference |-> Cell.artifacts => ReferenceAccepts]
  <2>1. cells' = Append(cells, v) /\ phase = "delegated"
    BY <1>2 DEF DecideCell
  <2>2. /\ cells \in Seq(ScoredCell) /\ instant \in Nat /\ iat \in Nat
        /\ Cell.artifacts => IsFresh(instant, iat)
        /\ Cell.kind # "plain" =>
             TokenCovers \/ (Cell.kind \in AsksServer /\ Lapsed(Cell.kind, began, clock))
    BY <2>1 DEF ClockInv, ClockTypeOK, Judged, Holding, InCell
  <2>3. Cell.artifacts /\ ReferenceAccepts => MonitorAccepts
    BY <2>2, NumbersTyped DEF ReferenceAccepts, MonitorAccepts
  <2>4. /\ v.reference = (Cell.artifacts => ReferenceAccepts)
        /\ v.admitted = (/\ Cell.kind # "plain" => TokenCovers
                         /\ Cell.artifacts /\ Cell.kind \in Monitored => MonitorAccepts)
        /\ v.place = place /\ v.began = began /\ v.ended = clock
    OBVIOUS
  <2>5. BlockedFalsely(v) => /\ Cells[v.place].kind \in AsksServer
                         /\ Lapsed(Cells[v.place].kind, v.began, v.ended)
    <3> HIDE DEF v
    <3> QED BY <2>2, <2>3, <2>4 DEF BlockedFalsely, Cell
  <2>6. \A i \in DOMAIN cells' : cells'[i] = v \/ (i \in DOMAIN cells /\ cells'[i] = cells[i])
    <3> HIDE DEF v
    <3> QED BY <2>1, <2>2
  <2> QED
    <3> HIDE DEF v
    <3> QED BY <2>5, <2>6 DEF ClockInv, FalseBlocksLapseWithinTheCell, BlockedFalsely, Lapsed
<1> QED
  BY <1>1, <1>2 DEF ClockNext, SkipCell, BeginCell, Judge, Provision, Delegate, CellFails, FinishPass,
                    Tick, clockVars, lists

-----------------------------------------------------------------------------
(* The invariant of the clocks holds of every pass. *)
LEMMA ClockInvHolds == ClockSpec => []ClockInv
<1>1. ClockInit => ClockInv
  <2> SUFFICES ASSUME ClockInit PROVE ClockInv
    OBVIOUS
  <2>1. ClockTypeOK
    BY ClockTypeOKInit
  <2>2. OneClock /\ Judged /\ Holding /\ FalseBlocksLapseWithinTheCell
    BY DEF ClockInit, OneClock, Judged, Holding, FalseBlocksLapseWithinTheCell, InCell
  <2> QED
    BY <2>1, <2>2 DEF ClockInv
<1>2. ClockInv /\ [ClockNext]_clockVars => ClockInv'
  BY ClockTypeOKStep, OneClockStep, JudgedStep, HoldingStep, VerdictStep DEF ClockInv
<1> QED
  BY <1>1, <1>2, PTL DEF ClockSpec

(* The pass is well typed: in particular every cell has an instant and an  *)
(* artifact instant when it is judged (run_campaign).                      *)
THEOREM ClockTypeCorrect == ClockSpec => []ClockTypeOK
BY ClockInvHolds, PTL DEF ClockInv

(* A start-up credential that had expired, and artifacts minted at another *)
(* instant, are never scored as blocks, in a pass of any length over any   *)
(* arms and with any lifetimes (clock_refusal, run_campaign).              *)
THEOREM CampaignFalseBlocksLapse == ClockSpec => []FalseBlocksLapseWithinTheCell
BY ClockInvHolds, PTL DEF ClockInv

-----------------------------------------------------------------------------
(* Accounting.  The lists hold cells the loop has passed, and no other. *)

Passed ==
  /\ \A i \in DOMAIN cells : cells[i].place < place
  /\ \A i \in DOMAIN unscorable : unscorable[i] < place

AccountInv == ClockTypeOK /\ Passed /\ EveryCellAccountedOnce

(* A scored cell enters one list, once. *)
LEMMA ScoredAccounts ==
  ASSUME AccountInv, ClockTypeOK', NEW v \in ScoredCell, v.place = place,
         cells' = Append(cells, v), place' = place + 1, UNCHANGED unscorable
  PROVE  Passed' /\ EveryCellAccountedOnce'
<1> DEFINE n == Len(cells)
<1>1. /\ cells \in Seq(ScoredCell) /\ n \in Nat /\ DOMAIN cells = 1 .. n
      /\ unscorable \in Seq(Places) /\ Len(unscorable) \in Nat
      /\ place \in Nat /\ place >= 1
  BY DEF AccountInv, ClockTypeOK
<1>2. /\ DOMAIN cells' = 1 .. n + 1 /\ Len(cells') = n + 1 /\ cells'[n + 1] = v
      /\ \A i \in DOMAIN cells : cells'[i] = cells[i]
  BY <1>1
<1>3. \A i \in DOMAIN cells' : i = n + 1 \/ i \in DOMAIN cells
  BY <1>1, <1>2
<1>4. n + 1 \in DOMAIN cells' /\ DOMAIN cells \subseteq DOMAIN cells'
  BY <1>1, <1>2
<1>5. \A i \in DOMAIN cells : cells[i].place \in Nat /\ cells[i].place < place
  <2>1. \A i \in DOMAIN cells : cells[i] \in ScoredCell
    BY <1>1
  <2> QED BY <2>1 DEF AccountInv, Passed, ScoredCell, Places
<1>6. \A i \in DOMAIN unscorable : unscorable[i] \in Nat /\ unscorable[i] < place
  BY <1>1 DEF AccountInv, Passed, Places
<1> HIDE DEF n
<1>7. Passed'
  BY <1>1, <1>2, <1>3, <1>5, <1>6 DEF Passed
<1>8. Len(cells') + Len(unscorable') = place' - 1
  BY <1>1, <1>2 DEF AccountInv, EveryCellAccountedOnce, n
<1>9. ASSUME NEW p \in 1 .. place' - 1
      PROVE  (\E i \in DOMAIN cells' : cells'[i].place = p)
               <=> ~\E i \in DOMAIN unscorable' : unscorable'[i] = p
  <2>1. CASE p = place
    BY <1>2, <1>4, <1>6, <2>1
  <2>2. CASE p # place
    <3>1. p \in 1 .. place - 1
      BY <1>1, <2>2
    <3>2. (\E i \in DOMAIN cells : cells[i].place = p)
            <=> ~\E i \in DOMAIN unscorable : unscorable[i] = p
      BY <3>1 DEF AccountInv, EveryCellAccountedOnce
    <3>3. (\E i \in DOMAIN cells' : cells'[i].place = p) <=> (\E i \in DOMAIN cells : cells[i].place = p)
      BY <1>2, <1>3, <1>4, <2>2
    <3> QED BY <3>2, <3>3
  <2> QED BY <2>1, <2>2
<1> QED BY <1>7, <1>8, <1>9 DEF EveryCellAccountedOnce

(* A cell noted as unscorable enters the other, once. *)
LEMMA NotedAccounts ==
  ASSUME AccountInv, ClockTypeOK', place \in Places,
         unscorable' = Append(unscorable, place), place' = place + 1, UNCHANGED cells
  PROVE  Passed' /\ EveryCellAccountedOnce'
<1> DEFINE n == Len(unscorable)
<1>1. /\ unscorable \in Seq(Places) /\ n \in Nat /\ DOMAIN unscorable = 1 .. n
      /\ cells \in Seq(ScoredCell) /\ Len(cells) \in Nat
      /\ place \in Nat /\ place >= 1
  BY DEF AccountInv, ClockTypeOK
<1>2. /\ DOMAIN unscorable' = 1 .. n + 1 /\ Len(unscorable') = n + 1 /\ unscorable'[n + 1] = place
      /\ \A i \in DOMAIN unscorable : unscorable'[i] = unscorable[i]
  BY <1>1
<1>3. \A i \in DOMAIN unscorable' : i = n + 1 \/ i \in DOMAIN unscorable
  BY <1>1, <1>2
<1>4. n + 1 \in DOMAIN unscorable' /\ DOMAIN unscorable \subseteq DOMAIN unscorable'
  BY <1>1, <1>2
<1>5. \A i \in DOMAIN cells : cells[i].place \in Nat /\ cells[i].place < place
  <2>1. \A i \in DOMAIN cells : cells[i] \in ScoredCell
    BY <1>1
  <2> QED BY <2>1 DEF AccountInv, Passed, ScoredCell, Places
<1>6. \A i \in DOMAIN unscorable : unscorable[i] \in Nat /\ unscorable[i] < place
  BY <1>1 DEF AccountInv, Passed, Places
<1> HIDE DEF n
<1>7. Passed'
  BY <1>1, <1>2, <1>3, <1>5, <1>6 DEF Passed
<1>8. Len(cells') + Len(unscorable') = place' - 1
  <2>1. Len(cells) + n = place - 1
    BY DEF AccountInv, EveryCellAccountedOnce, n
  <2>2. Len(cells') = Len(cells)
    OBVIOUS
  <2> QED BY <1>1, <1>2, <2>1, <2>2
<1>9. ASSUME NEW p \in 1 .. place' - 1
      PROVE  (\E i \in DOMAIN cells' : cells'[i].place = p)
               <=> ~\E i \in DOMAIN unscorable' : unscorable'[i] = p
  <2>1. CASE p = place
    BY <1>2, <1>4, <1>5, <2>1
  <2>2. CASE p # place
    <3>1. p \in 1 .. place - 1
      BY <1>1, <2>2
    <3>2. (\E i \in DOMAIN cells : cells[i].place = p)
            <=> ~\E i \in DOMAIN unscorable : unscorable[i] = p
      BY <3>1 DEF AccountInv, EveryCellAccountedOnce
    <3>3. (\E i \in DOMAIN unscorable' : unscorable'[i] = p)
            <=> (\E i \in DOMAIN unscorable : unscorable[i] = p)
      BY <1>2, <1>3, <1>4, <2>2
    <3> QED BY <3>2, <3>3
  <2> QED BY <2>1, <2>2
<1> QED BY <1>7, <1>8, <1>9 DEF EveryCellAccountedOnce

(* Every step preserves the account. *)
LEMMA AccountStep == AccountInv /\ [ClockNext]_clockVars => AccountInv'
<1> SUFFICES ASSUME AccountInv, [ClockNext]_clockVars PROVE AccountInv'
  OBVIOUS
<1>1. ClockTypeOK'
  BY ClockTypeOKStep DEF AccountInv
<1>2. CASE DecideCell
  <2> DEFINE v == [place |-> place, began |-> began, ended |-> clock,
        admitted |-> /\ Cell.kind # "plain" => TokenCovers
                     /\ Cell.artifacts /\ Cell.kind \in Monitored => MonitorAccepts,
        reference |-> Cell.artifacts => ReferenceAccepts]
  <2>1. cells' = Append(cells, v) /\ place' = place + 1 /\ UNCHANGED unscorable
    BY <1>2 DEF DecideCell
  <2>2. place \in Places /\ began \in Nat /\ clock \in Nat
    BY <1>2 DEF AccountInv, ClockTypeOK, DecideCell
  <2>3. v \in ScoredCell /\ v.place = place
    <3>1. (Cell.kind # "plain" => TokenCovers) \in BOOLEAN
          /\ (Cell.artifacts /\ Cell.kind \in Monitored => MonitorAccepts) \in BOOLEAN
          /\ (Cell.artifacts => ReferenceAccepts) \in BOOLEAN
      OBVIOUS
    <3> QED BY <2>2, <3>1 DEF ScoredCell
  <2> HIDE DEF v
  <2> QED BY <1>1, <2>1, <2>3, ScoredAccounts DEF AccountInv
<1>3. CASE place \in Places /\ unscorable' = Append(unscorable, place) /\ place' = place + 1
           /\ UNCHANGED cells
  BY <1>1, <1>3, NotedAccounts DEF AccountInv
<1>4. CASE UNCHANGED <<place, cells, unscorable>>
  BY <1>1, <1>4 DEF AccountInv, Passed, EveryCellAccountedOnce
<1>5. CASE SkipCell \/ CellFails \/ Judge
  <2>1. place \in Places
    BY <1>5 DEF AccountInv, ClockTypeOK, SkipCell, CellFails, Judge
  <2> QED BY <1>3, <1>4, <1>5, <2>1 DEF SkipCell, CellFails, Judge
<1>6. CASE BeginCell \/ Provision \/ Delegate \/ FinishPass \/ Tick \/ UNCHANGED clockVars
  BY <1>4, <1>6 DEF BeginCell, Provision, Delegate, FinishPass, Tick, clockVars, lists
<1> QED BY <1>2, <1>5, <1>6 DEF ClockNext

(* run_campaign: no cell it has passed is lost, and none is both scored and *)
(* refused a score. *)
THEOREM CampaignAccounts == ClockSpec => []EveryCellAccountedOnce
<1>1. ClockInit => AccountInv
  <2> SUFFICES ASSUME ClockInit PROVE AccountInv
    OBVIOUS
  <2>1. cells = <<>> /\ unscorable = <<>> /\ place = 1 /\ Len(<<>>) = 0 /\ DOMAIN <<>> = {}
    BY DEF ClockInit
  <2> QED BY <2>1, ClockTypeOKInit DEF AccountInv, Passed, EveryCellAccountedOnce
<1>2. AccountInv => EveryCellAccountedOnce
  BY DEF AccountInv
<1> QED BY <1>1, <1>2, AccountStep, PTL DEF ClockSpec

-----------------------------------------------------------------------------
(* The table of repeated passes.                                           *)
(*                                                                         *)
(* TableInv is inductive: a cell of a table is what ScoreCell makes of a   *)
(* run whose decision is the arm's or a mishap's (FromRuns), and the loop leaves each    *)
(* cell it has passed in one of the two lists (RunningInv).                *)

ScoredFrom(cell, v, c) ==
  \E run \in ScenarioRuns :
    /\ run.forwarded <=> Forwards(cell[2], cell[1], run.mishap, c)
    /\ v = ScoreCell(cell[1], cell[2], run, c)

FromRuns(table, c) == \A cell \in DOMAIN table : ScoredFrom(cell, table[cell], c)

Tables == UNION {[some -> CellVerdicts] : some \in SUBSET SweptCells}

PassedOver(n) == {sweep[i] : i \in 1 .. n - 1}

PassesInv ==
  /\ passes \in Seq([config : Configurations, cells : Tables, unscorable : SUBSET SweptCells])
  /\ Len(passes) <= MaxPasses
  /\ \A k \in DOMAIN passes :
       /\ FromRuns(passes[k].cells, passes[k].config)
       /\ passes[k].unscorable = SweptCells \ DOMAIN passes[k].cells

RunningInv ==
  running # Nothing =>
    /\ running \in [config : Configurations, at : 1 .. Len(sweep) + 1, cells : Tables,
                    unscorable : SUBSET SweptCells]
    /\ FromRuns(running.cells, running.config)
    /\ DOMAIN running.cells \cup running.unscorable = PassedOver(running.at)
    /\ DOMAIN running.cells \cap running.unscorable = {}
    /\ Len(passes) < MaxPasses

TableInv == sweep \in Sweeps /\ PassesInv /\ RunningInv

(* What the records of a run say. *)
LEMMA RecordFacts ==
  ASSUME NEW run \in ScenarioRuns
  PROVE  /\ run.forwarded \in BOOLEAN /\ run.effect \in BOOLEAN /\ run.mishap \in Mishaps
         /\ run.effect => run.forwarded
         /\ ObservedForwarded(run) <=> run.forwarded
         /\ TookEffect(run) <=> run.effect
         /\ Linkage("intended", EventOf(run), RowsOfRun(run), "cell") =
              IF ~run.forwarded THEN "unreached" ELSE IF run.effect THEN "consistent" ELSE "dropped"
<1> DEFINE row(kind) == [kind |-> kind, cid |-> "cell", target |-> "intended"]
           rows == RowsOfRun(run)
           es == EventOf(run)
           record == MediationOf(es, "cell")
<1>1. /\ run.forwarded \in BOOLEAN /\ run.effect \in BOOLEAN /\ run.mishap \in Mishaps
      /\ run.effect => run.forwarded
  BY DEF ScenarioRuns
<1>2. DOMAIN es = {1} /\ es[1].cid = "cell" /\ es[1].admitted = run.forwarded
  BY DEF EventOf
<1> HIDE DEF es
<1>3. record = {1}
  BY <1>2 DEF MediationOf
<1>4. ~Several(record) /\ record # {} /\ (Admits(es, record) <=> run.forwarded)
  BY <1>2, <1>3 DEF Several, Admits
<1> HIDE DEF record
<1>5. ObservedForwarded(run) <=> run.forwarded
  BY <1>4 DEF ObservedForwarded, es, record
<1>6. CASE run.effect
  <2>1. rows = <<row("ingress"), row("effect")>>
    BY <1>6 DEF RowsOfRun
  <2>2. /\ DOMAIN rows = {1, 2} /\ rows[1] = row("ingress") /\ rows[2] = row("effect")
    BY <2>1
  <2> HIDE DEF rows
  <2>3. Effects(rows, "cell") = {2} /\ Ingress(rows, "cell") = {1} /\ rows[2].target = "intended"
    BY <2>2 DEF Effects, Ingress, OfKind
  <2>4. ~Several({1}) /\ ~Several({2})
    BY DEF Several
  <2>5. Linkage("intended", es, rows, "cell") = "consistent"
    BY <1>1, <1>4, <1>6, <2>3, <2>4 DEF Linkage, record
  <2>6. TookEffect(run)
    BY <2>3 DEF TookEffect, rows
  <2> QED BY <1>1, <1>5, <1>6, <2>5, <2>6 DEF rows, es
<1>7. CASE ~run.effect /\ run.forwarded
  <2>1. rows = <<row("ingress")>>
    BY <1>7 DEF RowsOfRun
  <2>2. DOMAIN rows = {1} /\ rows[1] = row("ingress")
    BY <2>1
  <2> HIDE DEF rows
  <2>3. Effects(rows, "cell") = {} /\ Ingress(rows, "cell") = {1}
    BY <2>2 DEF Effects, Ingress, OfKind
  <2>4. ~Several({1}) /\ ~Several({})
    BY DEF Several
  <2>5. Linkage("intended", es, rows, "cell") = "dropped"
    BY <1>4, <1>7, <2>3, <2>4 DEF Linkage, record
  <2>6. ~TookEffect(run)
    BY <2>3 DEF TookEffect, rows
  <2> QED BY <1>1, <1>5, <1>7, <2>5, <2>6 DEF rows, es
<1>8. CASE ~run.effect /\ ~run.forwarded
  <2>1. rows = <<>>
    BY <1>8 DEF RowsOfRun
  <2>2. DOMAIN rows = {}
    BY <2>1
  <2> HIDE DEF rows
  <2>3. Effects(rows, "cell") = {} /\ Ingress(rows, "cell") = {}
    BY <2>2 DEF Effects, Ingress, OfKind
  <2>4. Linkage("intended", es, rows, "cell") = "unreached"
    BY <1>4, <1>8, <2>3 DEF Linkage, record
  <2>5. ~TookEffect(run)
    BY <2>3 DEF TookEffect, rows
  <2> QED BY <1>1, <1>5, <1>8, <2>4, <2>5 DEF rows, es
<1> QED BY <1>1, <1>6, <1>7, <1>8

(* What a score says is a verdict. *)
LEMMA ScoreTyped ==
  ASSUME NEW s, NEW arm, NEW run \in ScenarioRuns, NEW c \in Configurations
  PROVE  ScoreCell(s, arm, run, c) \in CellVerdicts
<1>1. run.mishap \in Mishaps /\ ObservedForwarded(run) \in BOOLEAN
  BY RecordFacts DEF ObservedForwarded, Admits
<1>2. ReferenceAllow(s) \in BOOLEAN /\ AdmissionBreach(s, run) \in BOOLEAN /\ FalseBlock(s, run) \in BOOLEAN
  BY DEF ReferenceAllow, AdmissionBreach, FalseBlock
<1>3. Linkage("intended", EventOf(run), RowsOfRun(run), "cell") \in {"consistent", "unreached", "dropped"}
  BY RecordFacts
<1>4. (c.ledger /\ LogIntegrityFailure(EventOf(run), RowsOfRun(run), "cell")) \in BOOLEAN
  OBVIOUS
<1> QED BY <1>1, <1>2, <1>3, <1>4 DEF ScoreCell, CellVerdicts

(* The cells of a sweep, of which each occurs once. *)
LEMMA SweepFacts ==
  ASSUME sweep \in Sweeps
  PROVE  /\ Len(sweep) \in Nat /\ DOMAIN sweep = 1 .. Len(sweep)
         /\ SweptCells = {sweep[i] : i \in 1 .. Len(sweep)}
         /\ SweptCells \subseteq (DOMAIN Corpus) \X Arms
         /\ IsFiniteSet(SweptCells)
         /\ \A i, j \in 1 .. Len(sweep) : sweep[i] = sweep[j] => i = j
<1>1. /\ sweep \in Seq((DOMAIN Corpus) \X Arms)
      /\ \A i, j \in DOMAIN sweep : sweep[i] = sweep[j] => i = j
  BY CampaignTableAssumption
<1>2. Len(sweep) \in Nat /\ DOMAIN sweep = 1 .. Len(sweep)
      /\ \A i \in 1 .. Len(sweep) : sweep[i] \in (DOMAIN Corpus) \X Arms
  BY <1>1, LenProperties, ElementOfSeq
<1>3. SweptCells = {sweep[i] : i \in 1 .. Len(sweep)}
  BY <1>2 DEF SweptCells
<1>4. IsFiniteSet(SweptCells)
  <2>1. IsFiniteSet(1 .. Len(sweep))
    BY <1>2, FS_Interval
  <2>2. sweep \in [1 .. Len(sweep) -> (DOMAIN Corpus) \X Arms]
    BY <1>1, <1>2, LenProperties
  <2>3. sweep \in Surjection(1 .. Len(sweep), SweptCells)
    BY <1>3, <2>2 DEF Surjection
  <2> QED BY <2>1, <2>3, FS_Surjection
<1> QED BY <1>1, <1>2, <1>3, <1>4

(* Nothing is begun at first. *)
LEMMA TableInit == Init => TableInv
<1> SUFFICES ASSUME Init PROVE TableInv
  OBVIOUS
<1>1. passes = <<>> /\ running = Nothing /\ sweep \in Sweeps
  BY DEF Init
<1>2. PassesInv
  BY <1>1, EmptySeq, CampaignTableAssumption DEF PassesInv
<1> QED BY <1>1, <1>2 DEF TableInv, RunningInv

(* A new pass has passed nothing over. *)
LEMMA BeginKeeps ==
  ASSUME TableInv, NEW c \in Configurations, Begin(c)
  PROVE  TableInv'
<1>1. sweep' = sweep /\ passes' = passes /\ Len(passes) < MaxPasses
      /\ running' = [config |-> c, at |-> 1, cells |-> NoCells, unscorable |-> {}]
  BY DEF Begin
<1>2. SweptCells' = SweptCells /\ Tables' = Tables
  BY <1>1 DEF SweptCells, Tables
<1>3. PassesInv'
  BY <1>1, <1>2 DEF TableInv, PassesInv
<1>4. DOMAIN NoCells = {} /\ NoCells \in Tables
  <2>1. NoCells \in [{} -> CellVerdicts] /\ DOMAIN NoCells = {}
    BY DEF NoCells
  <2> QED BY <2>1 DEF Tables
<1>5. running' \in [config : Configurations, at : 1 .. Len(sweep) + 1, cells : Tables,
                    unscorable : SUBSET SweptCells]
  BY <1>1, <1>4, SweepFacts DEF TableInv
<1>6. FromRuns(running'.cells, running'.config)
  BY <1>1, <1>4 DEF FromRuns
<1>7. (PassedOver(running.at))' = {}
  BY <1>1 DEF PassedOver
<1>8. RunningInv'
  BY <1>1, <1>2, <1>4, <1>5, <1>6, <1>7 DEF RunningInv
<1> QED BY <1>1, <1>3, <1>8 DEF TableInv

(* Where the pass stands. *)
LEMMA InACellFacts ==
  ASSUME TableInv, InACell
  PROVE  /\ running \in [config : Configurations, at : 1 .. Len(sweep) + 1, cells : Tables,
                          unscorable : SUBSET SweptCells]
         /\ running.at \in 1 .. Len(sweep) /\ running.at + 1 \in 1 .. Len(sweep) + 1
         /\ sweep[running.at] \in SweptCells
         /\ sweep[running.at] \notin PassedOver(running.at)
         /\ PassedOver(running.at + 1) = PassedOver(running.at) \cup {sweep[running.at]}
<1>1. /\ running \in [config : Configurations, at : 1 .. Len(sweep) + 1, cells : Tables,
                       unscorable : SUBSET SweptCells]
      /\ running.at <= Len(sweep) /\ Len(sweep) \in Nat
  BY SweepFacts DEF TableInv, RunningInv, InACell
<1>2. running.at \in 1 .. Len(sweep) /\ running.at + 1 \in 1 .. Len(sweep) + 1
  BY <1>1
<1>3. sweep[running.at] \in SweptCells
  BY <1>2, SweepFacts DEF TableInv
<1>4. \A i \in 1 .. running.at - 1 : i \in 1 .. Len(sweep) /\ i # running.at
  BY <1>1, <1>2
<1>5. sweep[running.at] \notin PassedOver(running.at)
  BY <1>2, <1>4, SweepFacts DEF TableInv, PassedOver
<1>6. \A i : i \in 1 .. (running.at + 1) - 1 <=> i \in 1 .. running.at - 1 \/ i = running.at
  BY <1>2
<1>7. PassedOver(running.at + 1) = PassedOver(running.at) \cup {sweep[running.at]}
  BY <1>6 DEF PassedOver
<1> QED BY <1>1, <1>2, <1>3, <1>5, <1>7

(* A cell that is left unscorable is passed over, and was not before. *)
LEMMA LeaveKeeps ==
  ASSUME TableInv, InACell, LeaveUnscorable
  PROVE  TableInv'
<1>1. sweep' = sweep /\ passes' = passes
      /\ running' = [running EXCEPT !.at = @ + 1, !.unscorable = @ \cup {sweep[running.at]}]
  BY DEF LeaveUnscorable
<1>2. SweptCells' = SweptCells /\ Tables' = Tables
  BY <1>1 DEF SweptCells, Tables
<1>3. PassesInv'
  BY <1>1, <1>2 DEF TableInv, PassesInv
<1>4. /\ running' \in [config : Configurations, at : 1 .. Len(sweep) + 1, cells : Tables,
                        unscorable : SUBSET SweptCells]
      /\ running'.config = running.config /\ running'.cells = running.cells
      /\ running'.at = running.at + 1
      /\ running'.unscorable = running.unscorable \cup {sweep[running.at]}
  BY <1>1, InACellFacts
<1>5. /\ FromRuns(running.cells, running.config)
      /\ DOMAIN running.cells \cup running.unscorable = PassedOver(running.at)
      /\ DOMAIN running.cells \cap running.unscorable = {}
      /\ Len(passes) < MaxPasses
  BY DEF TableInv, RunningInv, InACell
<1>6. (PassedOver(running.at))' = PassedOver(running.at) \cup {sweep[running.at]}
  <2>1. (PassedOver(running.at))' = PassedOver(running.at + 1)
    BY <1>1, <1>4 DEF PassedOver
  <2> QED BY <2>1, InACellFacts
<1>7. RunningInv'
  BY <1>1, <1>2, <1>4, <1>5, <1>6, InACellFacts DEF RunningInv
<1> QED BY <1>1, <1>3, <1>7 DEF TableInv

(* A cell that is scored is scored from its run. *)
LEMMA ScoreKeeps ==
  ASSUME TableInv, NEW run \in ScenarioRuns, Score(run)
  PROVE  TableInv'
<1> DEFINE cell == sweep[running.at]
           v == ScoreCell(Scenario, Arm, run, running.config)
           old == running.cells
           new == [x \in DOMAIN old \cup {cell} |-> IF x = cell THEN v ELSE old[x]]
<1>1. sweep' = sweep /\ passes' = passes /\ InACell
      /\ running' = [running EXCEPT !.at = @ + 1, !.cells = new]
      /\ run.forwarded = Forwards(Arm, Scenario, run.mishap, running.config)
  BY InACellFacts DEF Score
<1>2. SweptCells' = SweptCells /\ Tables' = Tables
  BY <1>1 DEF SweptCells, Tables
<1>3. PassesInv'
  BY <1>1, <1>2 DEF TableInv, PassesInv
<1>4. v \in CellVerdicts /\ ScoredFrom(cell, v, running.config)
  <2>1. Scenario = cell[1] /\ Arm = cell[2]
    BY DEF Scenario, Arm
  <2>2. running.config \in Configurations
    BY <1>1, InACellFacts
  <2> QED BY <1>1, <2>1, <2>2, ScoreTyped DEF ScoredFrom
<1>5. /\ FromRuns(old, running.config)
      /\ DOMAIN old \cup running.unscorable = PassedOver(running.at)
      /\ DOMAIN old \cap running.unscorable = {}
      /\ Len(passes) < MaxPasses
  BY <1>1 DEF TableInv, RunningInv, InACell
<1>6. cell \in SweptCells /\ cell \notin PassedOver(running.at)
  BY <1>1, InACellFacts
<1>7. PICK some \in SUBSET SweptCells : old \in [some -> CellVerdicts]
  BY <1>1, InACellFacts DEF Tables
<1> HIDE DEF cell, v
<1>8. new \in [some \cup {cell} -> CellVerdicts] /\ DOMAIN new = DOMAIN old \cup {cell}
  BY <1>4, <1>7
<1>9. new \in Tables
  BY <1>6, <1>7, <1>8 DEF Tables
<1>10. FromRuns(new, running.config)
  BY <1>4, <1>5 DEF FromRuns
<1> HIDE DEF new, old
<1>11. /\ running' \in [config : Configurations, at : 1 .. Len(sweep) + 1, cells : Tables,
                        unscorable : SUBSET SweptCells]
      /\ running'.config = running.config /\ running'.cells = new
      /\ running'.at = running.at + 1
      /\ running'.unscorable = running.unscorable
  BY <1>1, <1>9, InACellFacts
<1>12. (PassedOver(running.at))' = PassedOver(running.at) \cup {cell}
  <2>1. (PassedOver(running.at))' = PassedOver(running.at + 1)
    BY <1>1, <1>11 DEF PassedOver
  <2> QED BY <1>1, <2>1, InACellFacts DEF cell
<1>13. RunningInv'
  BY <1>1, <1>2, <1>5, <1>6, <1>8, <1>10, <1>11, <1>12 DEF RunningInv
<1> QED BY <1>1, <1>3, <1>13 DEF TableInv

(* A pass that has run its cells has left each of them in one list or the other. *)
LEMMA FinishKeeps ==
  ASSUME TableInv, Finish
  PROVE  TableInv'
<1> DEFINE result == [config |-> running.config, cells |-> running.cells,
                      unscorable |-> running.unscorable]
           Results == [config : Configurations, cells : Tables, unscorable : SUBSET SweptCells]
<1>1. sweep' = sweep /\ passes' = Append(passes, result) /\ running' = Nothing
      /\ running # Nothing /\ running.at > Len(sweep)
  BY DEF Finish
<1>2. SweptCells' = SweptCells /\ Tables' = Tables
  BY <1>1 DEF SweptCells, Tables
<1>3. /\ running \in [config : Configurations, at : 1 .. Len(sweep) + 1, cells : Tables,
                      unscorable : SUBSET SweptCells]
      /\ FromRuns(running.cells, running.config)
      /\ DOMAIN running.cells \cup running.unscorable = PassedOver(running.at)
      /\ DOMAIN running.cells \cap running.unscorable = {}
      /\ Len(passes) < MaxPasses
  BY <1>1 DEF TableInv, RunningInv
<1>4. Len(sweep) \in Nat /\ SweptCells = {sweep[i] : i \in 1 .. Len(sweep)}
  BY SweepFacts DEF TableInv
<1>5. running.at - 1 = Len(sweep)
  BY <1>1, <1>3, <1>4
<1>6. running.unscorable = SweptCells \ DOMAIN running.cells
  BY <1>3, <1>4, <1>5 DEF PassedOver
<1>7. passes \in Seq(Results) /\ result \in Results
  BY <1>3 DEF TableInv, PassesInv
<1>8. Len(passes) \in Nat /\ MaxPasses \in Nat /\ Len(passes) < MaxPasses
  BY <1>7, <1>3, LenProperties, CampaignTableAssumption
<1> HIDE DEF result, Results
<1>9. /\ Append(passes, result) \in Seq(Results)
      /\ Len(Append(passes, result)) = Len(passes) + 1
      /\ \A k \in 1 .. Len(passes) : Append(passes, result)[k] = passes[k]
      /\ Append(passes, result)[Len(passes) + 1] = result
  BY <1>7, AppendProperties
<1>10. DOMAIN passes = 1 .. Len(passes) /\ DOMAIN Append(passes, result) = 1 .. Len(passes) + 1
  BY <1>7, <1>8, <1>9, LenProperties
<1>11. FromRuns(result.cells, result.config) /\ result.unscorable = SweptCells \ DOMAIN result.cells
  BY <1>3, <1>6 DEF result
<1>12. ASSUME NEW k \in DOMAIN passes'
       PROVE  /\ FromRuns(passes'[k].cells, passes'[k].config)
              /\ passes'[k].unscorable = SweptCells \ DOMAIN passes'[k].cells
  <2>1. CASE k = Len(passes) + 1
    BY <1>1, <1>9, <1>11, <2>1
  <2>2. CASE k \in DOMAIN passes
    BY <1>1, <1>9, <1>10, <2>2 DEF TableInv, PassesInv
  <2> QED BY <1>1, <1>8, <1>10, <2>1, <2>2
<1>13. PassesInv'
  BY <1>1, <1>2, <1>8, <1>9, <1>12 DEF PassesInv, Results
<1> QED BY <1>1, <1>13 DEF TableInv, RunningInv

(* A pass that an exception ends leaves no table. *)
LEMMA NothingKeeps ==
  ASSUME TableInv, sweep' = sweep, passes' = passes, running' = Nothing \/ running' = running
  PROVE  TableInv'
<1>1. SweptCells' = SweptCells /\ Tables' = Tables
  BY DEF SweptCells, Tables
<1>2. PassesInv'
  BY <1>1 DEF TableInv, PassesInv
<1>3. RunningInv'
  <2>1. CASE running' = Nothing
    BY <2>1 DEF RunningInv
  <2>2. CASE running' = running
    <3>1. (PassedOver(running.at))' = PassedOver(running.at)
      BY <2>2 DEF PassedOver
    <3> QED BY <1>1, <2>2, <3>1 DEF TableInv, RunningInv
  <2> QED BY <2>1, <2>2
<1> QED BY <1>2, <1>3 DEF TableInv

(* Every table of every run of run_campaign is made of its arms' decisions,  *)
(* and leaves out just the cells it lists as unscorable. *)
THEOREM TableInvariant == Spec => []TableInv
<1>1. ASSUME TableInv, [Next]_vars PROVE TableInv'
  <2>1. ASSUME NEW c \in Configurations, Begin(c) PROVE TableInv'
    BY <1>1, <2>1, BeginKeeps
  <2>2. CASE NotApplicable
    BY <1>1, <2>2, LeaveKeeps DEF NotApplicable
  <2>3. CASE DoesNotComplete
    BY <1>1, <2>3, LeaveKeeps DEF DoesNotComplete
  <2>4. ASSUME NEW run \in ScenarioRuns, Score(run) PROVE TableInv'
    BY <1>1, <2>4, ScoreKeeps
  <2>5. CASE Abort
    BY <1>1, <2>5, NothingKeeps DEF Abort
  <2>6. CASE Finish
    BY <1>1, <2>6, FinishKeeps
  <2>7. CASE UNCHANGED vars
    BY <1>1, <2>7, NothingKeeps DEF vars
  <2> QED BY <1>1, <2>1, <2>2, <2>3, <2>4, <2>5, <2>6, <2>7 DEF Next
<1> QED BY <1>1, TableInit, PTL DEF Spec

(* What a table is, and where its verdicts come from. *)
LEMMA PassFacts ==
  ASSUME TableInv, NEW k \in DOMAIN passes
  PROVE  /\ passes[k].config \in Configurations
         /\ passes[k].cells \in [DOMAIN passes[k].cells -> CellVerdicts]
         /\ DOMAIN passes[k].cells \subseteq SweptCells
         /\ \A cell \in DOMAIN passes[k].cells :
              /\ passes[k].cells[cell] \in CellVerdicts
              /\ ScoredFrom(cell, passes[k].cells[cell], passes[k].config)
         /\ passes[k].unscorable = SweptCells \ DOMAIN passes[k].cells
<1> DEFINE Results == [config : Configurations, cells : Tables, unscorable : SUBSET SweptCells]
<1>1. passes \in Seq(Results)
  BY DEF TableInv, PassesInv
<1> HIDE DEF Results
<1>2. passes[k] \in Results
  BY <1>1, ElementOfSeq, LenProperties
<1>3. passes[k].config \in Configurations /\ passes[k].cells \in Tables
  BY <1>2 DEF Results
<1>4. passes[k].cells \in [DOMAIN passes[k].cells -> CellVerdicts]
      /\ DOMAIN passes[k].cells \subseteq SweptCells
  BY <1>3 DEF Tables
<1> QED BY <1>3, <1>4 DEF TableInv, PassesInv, FromRuns

(* Every cell of the corpus a pass runs ends with a verdict or among the     *)
(* unscorable, and in a table there is nothing else. *)
THEOREM TableTypeCorrect == Spec => []TypeOK
<1>1. TableInv => TypeOK
  <2> SUFFICES ASSUME TableInv PROVE TypeOK
    OBVIOUS
  <2>1. \A table \in Tables : Table(table)
    BY DEF Tables, Table
  <2>2. \A k \in DOMAIN passes :
          passes[k].config \in Configurations /\ Table(passes[k].cells)
            /\ passes[k].unscorable = SweptCells \ DOMAIN passes[k].cells
    BY PassFacts DEF Table
  <2> QED BY <2>1, <2>2 DEF TableInv, PassesInv, RunningInv, TypeOK
<1> QED BY <1>1, TableInvariant, PTL

(* What a verdict says of the decision it was scored from. *)
LEMMA VerdictFacts ==
  ASSUME NEW cell, NEW v, NEW c, ScoredFrom(cell, v, c)
  PROVE  /\ v.mishap \in Mishaps
         /\ v.observed_forwarded <=> Forwards(cell[2], cell[1], v.mishap, c)
         /\ v.mishap = "none" =>
              (v.observed_forwarded <=> Decide(cell[2], cell[1], FaultOf(cell[1], c), c))
         /\ v.reference_allow <=> ReferenceAllow(cell[1])
         /\ v.admission_breach <=> v.observed_forwarded /\ ~ReferenceAllow(cell[1])
         /\ v.false_block <=>
              Corpus[cell[1]].benign /\ ReferenceAllow(cell[1]) /\ ~v.observed_forwarded
         /\ v.realized_harm # "unscored" <=> c.ledger
         /\ v.linkage = "unreached" => ~v.observed_forwarded
         /\ v.realized_harm = "harm" =>
              /\ v.linkage = "consistent"
              /\ \E run \in ScenarioRuns : /\ run.effect /\ v.observed_forwarded
                                           /\ RealizedHarm(cell[1], cell[2], run)
<1>1. PICK run \in ScenarioRuns : /\ run.forwarded <=> Forwards(cell[2], cell[1], run.mishap, c)
                                  /\ v = ScoreCell(cell[1], cell[2], run, c)
  BY DEF ScoredFrom
<1>2. /\ run.forwarded \in BOOLEAN /\ run.effect \in BOOLEAN /\ run.mishap \in Mishaps
      /\ run.effect => run.forwarded
      /\ ObservedForwarded(run) <=> run.forwarded
      /\ TookEffect(run) <=> run.effect
      /\ Linkage("intended", EventOf(run), RowsOfRun(run), "cell") =
           IF ~run.forwarded THEN "unreached" ELSE IF run.effect THEN "consistent" ELSE "dropped"
  BY RecordFacts
<1>3. /\ v.observed_forwarded = ObservedForwarded(run)
      /\ v.reference_allow = ReferenceAllow(cell[1])
      /\ v.admission_breach = AdmissionBreach(cell[1], run)
      /\ v.false_block = FalseBlock(cell[1], run)
      /\ v.realized_harm = IF ~c.ledger THEN "unscored"
                           ELSE IF RealizedHarm(cell[1], cell[2], run) THEN "harm" ELSE "no_harm"
      /\ v.linkage = IF ~c.ledger THEN "not-scored"
                     ELSE Linkage("intended", EventOf(run), RowsOfRun(run), "cell")
      /\ v.mishap = run.mishap
  BY <1>1 DEF ScoreCell
<1>4. RealizedHarm(cell[1], cell[2], run) => run.effect
  BY <1>2 DEF RealizedHarm, RealizedHarmF1, RealizedHarmF2, RealizedHarmF3, RealizedHarmF5
<1>5. /\ v.observed_forwarded <=> run.forwarded
      /\ v.reference_allow <=> ReferenceAllow(cell[1])
      /\ v.admission_breach <=> v.observed_forwarded /\ ~ReferenceAllow(cell[1])
      /\ v.false_block <=>
           Corpus[cell[1]].benign /\ ReferenceAllow(cell[1]) /\ ~v.observed_forwarded
  BY <1>2, <1>3 DEF AdmissionBreach, FalseBlock
<1>6. /\ v.observed_forwarded <=> Forwards(cell[2], cell[1], v.mishap, c)
      /\ v.mishap = "none" =>
           (v.observed_forwarded <=> Decide(cell[2], cell[1], FaultOf(cell[1], c), c))
  BY <1>1, <1>3, <1>5 DEF Forwards
<1>7. v.realized_harm # "unscored" <=> c.ledger
  BY <1>3
<1>8. v.linkage = "unreached" => ~v.observed_forwarded
  BY <1>2, <1>3, <1>5
<1>9. v.realized_harm = "harm" => c.ledger /\ RealizedHarm(cell[1], cell[2], run)
  BY <1>3
<1>10. v.realized_harm = "harm" => run.effect /\ v.observed_forwarded /\ v.linkage = "consistent"
  BY <1>2, <1>3, <1>4, <1>5, <1>9
<1> QED BY <1>2, <1>3, <1>5, <1>6, <1>7, <1>8, <1>9, <1>10

(* The cells a pass scored are of the corpus and of the nine arms. *)
LEMMA CellFacts ==
  ASSUME TableInv, NEW k \in DOMAIN passes, NEW cell \in DOMAIN passes[k].cells
  PROVE  /\ cell[1] \in DOMAIN Corpus /\ cell[2] \in Arms /\ cell \in SweptCells
         /\ passes[k].cells[cell] \in CellVerdicts
         /\ ScoredFrom(cell, passes[k].cells[cell], passes[k].config)
<1>1. cell \in SweptCells /\ SweptCells \subseteq (DOMAIN Corpus) \X Arms
  BY PassFacts, SweepFacts DEF TableInv
<1> QED BY <1>1, PassFacts

(* Harm is done only by a call the oracle would have refused. *)
LEMMA HarmIsABreach ==
  ASSUME NEW s \in DOMAIN Corpus, NEW arm, NEW run \in ScenarioRuns, RealizedHarm(s, arm, run)
  PROVE  ~ReferenceAllow(s)
<1>1. CASE FamilyOf(s) = "F1" /\ RealizedHarmF1(s, run)
  BY <1>1 DEF RealizedHarmF1, ReferenceAllow
<1>2. CASE FamilyOf(s) = "F2" /\ RealizedHarmF2(arm, run)
  <2>1. Corpus[s].fault # "none"
    BY <1>2, CorpusAssumption
  <2> QED BY <2>1 DEF ReferenceAllow
<1>3. CASE FamilyOf(s) = "F3" /\ RealizedHarmF3(s, run)
  <2>1. FALSE
    BY <1>3 DEF RealizedHarmF3, Digests
  <2> QED BY <2>1
<1>4. CASE FamilyOf(s) = "F5" /\ RealizedHarmF5(s, run)
  BY <1>4 DEF RealizedHarmF5, ReferenceAllow
<1> QED BY <1>1, <1>2, <1>3, <1>4 DEF RealizedHarm

(* One verdict of a table. *)
LEMMA CleanVerdict ==
  ASSUME NEW cell, cell[1] \in DOMAIN Corpus, NEW v \in CellVerdicts, NEW c, ScoredFrom(cell, v, c)
  PROVE  /\ v.observed_forwarded /\ ~Corpus[cell[1]].benign =>
              v.admission_breach /\ v.linkage # "unreached"
         /\ v.realized_harm = "harm" => v.admission_breach /\ v.linkage = "consistent"
         /\ v.false_block =>
              Corpus[cell[1]].benign /\ ~v.observed_forwarded /\ v.realized_harm # "harm"
<1>1. ~Corpus[cell[1]].benign => ~ReferenceAllow(cell[1])
  BY CorpusAssumption DEF ReferenceAllow
<1>2. v.realized_harm = "harm" => v.observed_forwarded /\ ~ReferenceAllow(cell[1])
  BY VerdictFacts, HarmIsABreach
<1> QED BY <1>1, <1>2, VerdictFacts

(* The counts of one family in a table scored under one configuration. *)
LEMMA FamilyCounts ==
  ASSUME NEW table, table \in [DOMAIN table -> CellVerdicts], IsFiniteSet(DOMAIN table), NEW c, NEW family,
         \A cell \in DOMAIN table : /\ table[cell].realized_harm = "harm" => table[cell].admission_breach
                                    /\ table[cell].realized_harm # "unscored" <=> c.ledger
  PROVE  /\ ClassMacro(table, family, "realized_harm", "harm", "unscored").count
              <= ClassMacro(table, family, "admission_breach", TRUE, Nothing).count
         /\ ClassMacro(table, family, "realized_harm", "harm", "unscored").total
              \in {0, ClassMacro(table, family, "admission_breach", TRUE, Nothing).total}
<1> DEFINE rows == {cell \in DOMAIN table : FamilyOf(cell[1]) = family}
           harmed == {cell \in rows : table[cell]["realized_harm"] = "harm"}
           breached == {cell \in rows : table[cell]["admission_breach"] = TRUE}
           scored == {cell \in rows : table[cell]["realized_harm"] # "unscored"}
           judged == {cell \in rows : table[cell]["admission_breach"] # Nothing}
<1>1. \A cell \in rows : table[cell] \in CellVerdicts
  OBVIOUS
<1>2. \A cell \in rows : table[cell].admission_breach \in BOOLEAN
  BY <1>1 DEF CellVerdicts
<1>3. harmed \subseteq breached
  BY <1>2
<1>4. IsFiniteSet(breached) /\ Cardinality(harmed) <= Cardinality(breached)
  <2>1. IsFiniteSet(breached)
    BY FS_Subset
  <2> QED BY <1>3, <2>1, FS_Subset
<1>5. judged = rows
  BY <1>2, NothingIsNoVerdict
<1>6. scored = rows \/ scored = {}
  OBVIOUS
<1>7. Cardinality(scored) \in {0, Cardinality(judged)}
  <2>1. CASE scored = rows
    BY <1>5, <2>1
  <2>2. CASE scored = {}
    BY <2>2, FS_EmptySet
  <2> QED BY <1>6, <2>1, <2>2
<1>8. /\ ClassMacro(table, family, "realized_harm", "harm", "unscored").count = Cardinality(harmed)
      /\ ClassMacro(table, family, "realized_harm", "harm", "unscored").total = Cardinality(scored)
  BY DEF ClassMacro
<1>9. /\ ClassMacro(table, family, "admission_breach", TRUE, Nothing).count = Cardinality(breached)
      /\ ClassMacro(table, family, "admission_breach", TRUE, Nothing).total = Cardinality(judged)
  BY DEF ClassMacro
<1> HIDE DEF harmed, breached, scored, judged
<1> QED BY <1>4, <1>7, <1>8, <1>9

(* No attack that was let through is scored as anything but a breach, no     *)
(* harm is found without one, and no family's counts have more harm than     *)
(* breaches, whatever the tools did, whatever evidence of the caller was     *)
(* kept and whoever's token an arm presented. *)
THEOREM TableAttacksAreNeverScoredClean == Spec => []AttacksAreNeverScoredClean
<1>1. ASSUME TableInv PROVE AttacksAreNeverScoredClean
  <2>1. ASSUME NEW k \in DOMAIN passes, NEW cell \in DOMAIN passes[k].cells
        PROVE  LET v == passes[k].cells[cell]
               IN  /\ v.observed_forwarded /\ ~Corpus[cell[1]].benign =>
                        v.admission_breach /\ v.linkage # "unreached"
                   /\ v.realized_harm = "harm" => v.admission_breach /\ v.linkage = "consistent"
                   /\ v.false_block =>
                        Corpus[cell[1]].benign /\ ~v.observed_forwarded /\ v.realized_harm # "harm"
    BY <1>1, <2>1, CellFacts, CleanVerdict
  <2>2. ASSUME NEW k \in DOMAIN passes, NEW family
        PROVE  LET table == passes[k].cells
                   harm == ClassMacro(table, family, "realized_harm", "harm", "unscored")
                   breach == ClassMacro(table, family, "admission_breach", TRUE, Nothing)
               IN  harm.count <= breach.count /\ harm.total \in {0, breach.total}
    <3> DEFINE table == passes[k].cells
    <3>1. table \in [DOMAIN table -> CellVerdicts] /\ DOMAIN table \subseteq SweptCells
      BY <1>1, PassFacts
    <3>2. IsFiniteSet(DOMAIN table)
      BY <1>1, <3>1, SweepFacts, FS_Subset DEF TableInv
    <3>3. \A cell \in DOMAIN table :
            /\ table[cell].realized_harm = "harm" => table[cell].admission_breach
            /\ table[cell].realized_harm # "unscored" <=> passes[k].config.ledger
      BY <1>1, CellFacts, CleanVerdict, VerdictFacts
    <3> HIDE DEF table
    <3>4. /\ ClassMacro(table, family, "realized_harm", "harm", "unscored").count
               <= ClassMacro(table, family, "admission_breach", TRUE, Nothing).count
          /\ ClassMacro(table, family, "realized_harm", "harm", "unscored").total
               \in {0, ClassMacro(table, family, "admission_breach", TRUE, Nothing).total}
      BY <3>1, <3>2, <3>3, FamilyCounts
    <3> QED BY <3>4 DEF table
  <2> QED BY <2>1, <2>2 DEF AttacksAreNeverScoredClean
<1> QED BY <1>1, TableInvariant, PTL

(* Two values are two, unless they are one. *)
LEMMA TwoValues ==
  ASSUME NEW a, NEW b
  PROVE  Cardinality({a, b}) > 1 <=> a # b
<1>1. IsFiniteSet({a}) /\ Cardinality({a}) = 1
  BY FS_Singleton
<1>2. {a, b} = {a} \cup {b}
  OBVIOUS
<1>3. Cardinality({a, b}) = IF b \in {a} THEN 1 ELSE 1 + 1
  BY <1>1, <1>2, FS_AddElement
<1> QED BY <1>3

(* What two passes disagree on about a cell. *)
LEMMA TwoPassesDisagree ==
  ASSUME TableInv, Len(passes) = 2, NEW cell \in SweptCells
  PROVE  /\ <<cell, "cell-present">> \in Nondeterminism <=>
              ~(cell \in passes[1].unscorable <=> cell \in passes[2].unscorable)
         /\ \A q \in PartI : <<cell, q>> \in Nondeterminism <=>
              /\ cell \in DOMAIN passes[1].cells /\ cell \in DOMAIN passes[2].cells
              /\ passes[1].cells[cell][q] # passes[2].cells[cell][q]
         /\ \A d \in Nondeterminism : d = <<d[1], d[2]>> /\ d[2] \in PartI \cup {"cell-present"}
<1> DEFINE having(x) == {k \in DOMAIN passes : x \in DOMAIN passes[k].cells}
           seen == {x \in SweptCells : having(x) # {}}
           partial == {x \in seen : having(x) # DOMAIN passes}
           unequal == {d \in (seen \ partial) \X PartI : Cardinality(Observations(d[1], d[2])) > 1}
<1>1. DOMAIN passes = {1, 2}
  <2>1. DOMAIN passes = 1 .. Len(passes)
    BY LenProperties DEF TableInv, PassesInv
  <2> QED BY <2>1
<1>2. Nondeterminism = {<<x, "cell-present">> : x \in partial} \cup unequal
  BY DEF Nondeterminism
<1>3. "cell-present" \notin PartI
  BY DEF PartI
<1>4. \A k \in {1, 2} : cell \in passes[k].unscorable <=> cell \notin DOMAIN passes[k].cells
  BY <1>1, PassFacts
<1>5. cell \in partial <=> ~(cell \in passes[1].unscorable <=> cell \in passes[2].unscorable)
  BY <1>1, <1>4
<1>6. cell \in seen \ partial <=>
        cell \in DOMAIN passes[1].cells /\ cell \in DOMAIN passes[2].cells
  BY <1>1
<1> HIDE DEF seen, partial
<1>7. <<cell, "cell-present">> \in Nondeterminism <=> cell \in partial
  BY <1>2, <1>3
<1>8. ASSUME NEW q \in PartI
      PROVE  <<cell, q>> \in Nondeterminism <=>
               cell \in seen \ partial /\ Cardinality(Observations(cell, q)) > 1
  BY <1>2, <1>3
<1>9. ASSUME NEW q \in PartI, cell \in DOMAIN passes[1].cells, cell \in DOMAIN passes[2].cells
      PROVE  Cardinality(Observations(cell, q)) > 1 <=>
               passes[1].cells[cell][q] # passes[2].cells[cell][q]
  <2>1. Observations(cell, q) = {passes[1].cells[cell][q], passes[2].cells[cell][q]}
    BY <1>1, <1>9 DEF Observations
  <2> QED BY <2>1, TwoValues
<1>10. ASSUME NEW d \in Nondeterminism
       PROVE  d = <<d[1], d[2]>> /\ d[2] \in PartI \cup {"cell-present"}
  BY <1>2
<1> QED BY <1>5, <1>6, <1>7, <1>8, <1>9, <1>10

(* Two verdicts of one cell, scored in two passes. *)
LEMMA TwoVerdicts ==
  ASSUME NEW cell, cell[1] \in DOMAIN Corpus, NEW v \in CellVerdicts, NEW w \in CellVerdicts,
         NEW c \in Configurations, NEW d \in Configurations,
         ScoredFrom(cell, v, c), ScoredFrom(cell, w, d)
  PROVE  /\ v.reference_allow = w.reference_allow
         /\ Corpus[cell[1]].benign =>
              /\ v.admission_breach = w.admission_breach
              /\ v.false_block # w.false_block <=> v.observed_forwarded # w.observed_forwarded
         /\ ~Corpus[cell[1]].benign =>
              /\ v.false_block = w.false_block
              /\ v.admission_breach # w.admission_breach <=>
                   v.observed_forwarded # w.observed_forwarded
         /\ v.observed_forwarded # w.observed_forwarded =>
              v.mishap # "none" \/ w.mishap # "none"
                \/ c.attached # d.attached \/ c.sutMode # d.sutMode
<1>1. /\ v.reference_allow \in BOOLEAN /\ w.reference_allow \in BOOLEAN
      /\ v.observed_forwarded \in BOOLEAN /\ w.observed_forwarded \in BOOLEAN
      /\ v.admission_breach \in BOOLEAN /\ w.admission_breach \in BOOLEAN
      /\ v.false_block \in BOOLEAN /\ w.false_block \in BOOLEAN
  BY DEF CellVerdicts
<1>2. \A x, e : (x = v /\ e = c) \/ (x = w /\ e = d) =>
        /\ x.reference_allow <=> ReferenceAllow(cell[1])
        /\ x.admission_breach <=> x.observed_forwarded /\ ~ReferenceAllow(cell[1])
        /\ x.false_block <=>
             Corpus[cell[1]].benign /\ ReferenceAllow(cell[1]) /\ ~x.observed_forwarded
        /\ x.mishap = "none" =>
             (x.observed_forwarded <=> Decide(cell[2], cell[1], FaultOf(cell[1], e), e))
  BY VerdictFacts
<1>3. Corpus[cell[1]].benign => ReferenceAllow(cell[1])
  BY CorpusAssumption DEF ReferenceAllow
<1>4. ~Corpus[cell[1]].benign => ~ReferenceAllow(cell[1])
  BY CorpusAssumption DEF ReferenceAllow
<1>5. v.reference_allow = w.reference_allow
  BY <1>1, <1>2
<1>6. ASSUME Corpus[cell[1]].benign
      PROVE  /\ v.admission_breach = w.admission_breach
             /\ v.false_block # w.false_block <=> v.observed_forwarded # w.observed_forwarded
  BY <1>1, <1>2, <1>3, <1>6
<1>7. ASSUME ~Corpus[cell[1]].benign
      PROVE  /\ v.false_block = w.false_block
             /\ v.admission_breach # w.admission_breach <=>
                  v.observed_forwarded # w.observed_forwarded
  BY <1>1, <1>2, <1>4, <1>7
<1>8. ASSUME v.mishap = "none", w.mishap = "none", c.attached = d.attached, c.sutMode = d.sutMode
      PROVE  v.observed_forwarded = w.observed_forwarded
  <2>1. FaultOf(cell[1], c) = FaultOf(cell[1], d)
    BY <1>8 DEF FaultOf
  <2>2. RefusesForPolicy(cell[2], cell[1], c) <=> RefusesForPolicy(cell[2], cell[1], d)
    BY <1>8 DEF RefusesForPolicy, ConsultsMonitor
  <2>3. Decide(cell[2], cell[1], FaultOf(cell[1], c), c) <=>
        Decide(cell[2], cell[1], FaultOf(cell[1], d), d)
    BY <2>1, <2>2 DEF Decide
  <2> QED BY <1>1, <1>2, <1>8, <2>3
<1> QED BY <1>5, <1>6, <1>7, <1>8

(* Two tables compared as repetitions differ in what a cell decided, what     *)
(* follows from that or was harmed, or in whether they have the cell; and in  *)
(* a decision only for a reason the two runs or their configurations show. *)
THEOREM TableDisagreementsAreAccountedFor == Spec => []DisagreementsAreAccountedFor
<1>1. ASSUME TableInv PROVE DisagreementsAreAccountedFor
  <2> SUFFICES ASSUME Len(passes) = 2, NEW cell \in SweptCells
               PROVE  LET shown == {x[2] : x \in {e \in Nondeterminism : e[1] = cell}}
                          verdict == IF Corpus[cell[1]].benign THEN "false_block" ELSE "admission_breach"
                      IN  /\ "cell-present" \in shown <=>
                               (cell \in passes[1].unscorable) # (cell \in passes[2].unscorable)
                          /\ shown \in {{}, {"cell-present"}, {"realized_harm"},
                                        {"observed_forwarded", verdict},
                                        {"observed_forwarded", verdict, "realized_harm"}}
                          /\ "observed_forwarded" \in shown =>
                               \/ \E k \in {1, 2} : passes[k].cells[cell].mishap # "none"
                               \/ passes[1].config.attached # passes[2].config.attached
                               \/ passes[1].config.sutMode # passes[2].config.sutMode
    BY DEF DisagreementsAreAccountedFor
  <2> DEFINE shown == {x[2] : x \in {e \in Nondeterminism : e[1] = cell}}
             both == cell \in DOMAIN passes[1].cells /\ cell \in DOMAIN passes[2].cells
             v == passes[1].cells[cell]
             w == passes[2].cells[cell]
  <2>1. ASSUME NEW q PROVE q \in shown <=> <<cell, q>> \in Nondeterminism
    <3>1. ASSUME <<cell, q>> \in Nondeterminism PROVE q \in shown
      <4>1. <<cell, q>>[1] = cell /\ <<cell, q>>[2] = q
        OBVIOUS
      <4> QED BY <3>1, <4>1
    <3>2. ASSUME q \in shown PROVE <<cell, q>> \in Nondeterminism
      <4>1. PICK x \in Nondeterminism : x[1] = cell /\ x[2] = q
        BY <3>2
      <4>2. x = <<x[1], x[2]>>
        BY <1>1, TwoPassesDisagree
      <4> QED BY <4>1, <4>2
    <3> QED BY <3>1, <3>2
  <2>2. /\ "cell-present" \in shown <=>
             ~(cell \in passes[1].unscorable <=> cell \in passes[2].unscorable)
        /\ \A q \in PartI : q \in shown <=> both /\ v[q] # w[q]
        /\ shown \subseteq PartI \cup {"cell-present"}
    BY <1>1, <2>1, TwoPassesDisagree
  <2>3. DOMAIN passes = {1, 2}
    <3>1. DOMAIN passes = 1 .. Len(passes)
      BY <1>1, LenProperties DEF TableInv, PassesInv
    <3> QED BY <3>1
  <2>4. \A k \in {1, 2} : cell \in passes[k].unscorable <=> cell \notin DOMAIN passes[k].cells
    BY <1>1, <2>3, PassFacts
  <2>5. "cell-present" \in shown => ~both
    BY <2>2, <2>4
  <2> HIDE DEF shown
  <2>6. CASE ~both
    <3>1. \A q \in PartI : q \notin shown
      BY <2>2, <2>6
    <3>2. shown = {} \/ shown = {"cell-present"}
      BY <2>2, <3>1
    <3>3. "observed_forwarded" \notin shown
      BY <3>2
    <3>4. "cell-present" \in shown <=>
            (cell \in passes[1].unscorable) # (cell \in passes[2].unscorable)
      BY <2>2
    <3>5. shown \in {{}, {"cell-present"}}
      BY <3>2
    <3> QED BY <3>3, <3>4, <3>5 DEF shown
  <2>7. CASE both
    <3>1. /\ cell[1] \in DOMAIN Corpus
          /\ v \in CellVerdicts /\ w \in CellVerdicts
          /\ passes[1].config \in Configurations /\ passes[2].config \in Configurations
          /\ ScoredFrom(cell, v, passes[1].config) /\ ScoredFrom(cell, w, passes[2].config)
      BY <1>1, <2>3, <2>7, CellFacts, PassFacts
    <3> HIDE DEF v, w
    <3>2. /\ v.reference_allow = w.reference_allow
          /\ Corpus[cell[1]].benign =>
               /\ v.admission_breach = w.admission_breach
               /\ v.false_block # w.false_block <=> v.observed_forwarded # w.observed_forwarded
          /\ ~Corpus[cell[1]].benign =>
               /\ v.false_block = w.false_block
               /\ v.admission_breach # w.admission_breach <=>
                    v.observed_forwarded # w.observed_forwarded
          /\ v.observed_forwarded # w.observed_forwarded =>
               v.mishap # "none" \/ w.mishap # "none"
                 \/ passes[1].config.attached # passes[2].config.attached
                 \/ passes[1].config.sutMode # passes[2].config.sutMode
      BY <3>1, TwoVerdicts
    <3>3. /\ "reference_allow" \in shown <=> v.reference_allow # w.reference_allow
          /\ "observed_forwarded" \in shown <=> v.observed_forwarded # w.observed_forwarded
          /\ "admission_breach" \in shown <=> v.admission_breach # w.admission_breach
          /\ "realized_harm" \in shown <=> v.realized_harm # w.realized_harm
          /\ "false_block" \in shown <=> v.false_block # w.false_block
      BY <2>2, <2>7 DEF PartI
    <3>4. /\ shown \subseteq {"observed_forwarded", "admission_breach", "realized_harm", "false_block"}
          /\ "cell-present" \notin shown
      BY <2>2, <2>5, <2>7, <3>2, <3>3 DEF PartI
    <3> DEFINE verdict == IF Corpus[cell[1]].benign THEN "false_block" ELSE "admission_breach"
    <3>5. shown \in {{}, {"realized_harm"}, {"observed_forwarded", verdict},
                     {"observed_forwarded", verdict, "realized_harm"}}
      <4>1. CASE Corpus[cell[1]].benign
        BY <3>2, <3>3, <3>4, <4>1
      <4>2. CASE ~Corpus[cell[1]].benign
        BY <3>2, <3>3, <3>4, <4>2
      <4> QED BY <4>1, <4>2
    <3>6. (cell \in passes[1].unscorable) = (cell \in passes[2].unscorable)
      BY <2>4, <2>7
    <3> QED BY <3>2, <3>3, <3>4, <3>5, <3>6 DEF shown, v, w
  <2> QED BY <2>6, <2>7
<1> QED BY <1>1, TableInvariant, PTL

(* An arm without the monitor lets an attack of F1 through unless it contains. *)
LEMMA UnmonitoredDecision ==
  ASSUME NEW s \in DOMAIN Corpus, NEW arm \in Arms, NEW c,
         FamilyOf(s) = "F1", ~Corpus[s].benign, ~c.attached
  PROVE  Decide(arm, s, FaultOf(s, c), c) <=> arm \notin Strong
<1>1. Corpus[s].amplifies /\ Corpus[s].fault = "none"
  BY CorpusAssumption
<1>2. ~RefusesFault(arm, FaultOf(s, c))
  BY <1>1 DEF FaultOf, RefusesFault
<1>3. RefusesForPolicy(arm, s, c) => arm \in Strong
  BY DEF RefusesForPolicy, ConsultsMonitor, ArmBitmask, Strong
<1> QED BY <1>1, <1>2, <1>3 DEF Decide, ArmBitmask, Strong

(* In a configuration family nothing but the artifacts decides: those of the *)
(* monitor, where it is asked, and where it is missing their mere presence. *)
LEMMA ConfigurationDecision ==
  ASSUME NEW s \in ConfigurationScenarios, NEW arm \in Arms, NEW c
  PROVE  Decide(arm, s, FaultOf(s, c), c) <=>
           /\ c.attached /\ arm \in MonitorReachable \cup PolicyPlaneArms =>
                Corpus[s].needs \subseteq Corpus[s].carries
           /\ ~c.attached /\ arm \in PolicyPlaneArms => Corpus[s].needs \cup Corpus[s].carries = {}
<1>1. ~Corpus[s].amplifies /\ Corpus[s].fault = "none"
  BY CorpusAssumption DEF ConfigurationScenarios
<1>2. ~RefusesFault(arm, FaultOf(s, c))
  BY <1>1 DEF FaultOf, RefusesFault
<1>3. (ArmBitmask.oauth_authn \ ArmBitmask.crypto_chain) \cup ArmBitmask.policy =
        MonitorReachable \cup PolicyPlaneArms
      /\ ArmBitmask.policy = PolicyPlaneArms
  BY DEF ArmBitmask, Arms, MonitorReachable, PolicyPlaneArms
<1>4. RefusesForPolicy(arm, s, c) <=>
        \/ /\ c.attached /\ arm \in MonitorReachable \cup PolicyPlaneArms
           /\ ~(Corpus[s].needs \subseteq Corpus[s].carries)
        \/ ~c.attached /\ arm \in PolicyPlaneArms /\ Corpus[s].needs \cup Corpus[s].carries # {}
  BY <1>3 DEF RefusesForPolicy, ConsultsMonitor
<1> QED BY <1>1, <1>2, <1>4 DEF Decide

(* Which controls of these families are benign. *)
LEMMA ConfigurationBenign ==
  ASSUME NEW s \in ConfigurationScenarios
  PROVE  Corpus[s].benign <=> Corpus[s].needs \subseteq Corpus[s].carries
BY CorpusAssumption DEF ConfigurationScenarios

(* One cell of a configuration family, without the monitor and with it. *)
LEMMA PairPredicted ==
  ASSUME NEW cell, cell[1] \in ConfigurationScenarios, cell[2] \in Arms,
         NEW off \in CellVerdicts, NEW on \in CellVerdicts, NEW c, NEW d, ~c.attached, d.attached,
         ScoredFrom(cell, off, c), ScoredFrom(cell, on, d), off.mishap = "none", on.mishap = "none"
  PROVE  /\ off.observed_forwarded /\ ~on.observed_forwarded =>
              cell[2] \in MonitorReachable /\ ~Corpus[cell[1]].benign
         /\ ~off.observed_forwarded /\ on.observed_forwarded =>
              cell[2] \in PolicyPlaneArms /\ Corpus[cell[1]].benign
         /\ ~Corpus[cell[1]].benign =>
              (Dagger(cell, off, "off", Nothing) <=> Dagger(cell, off, "off", on))
<1> DEFINE needs == Corpus[cell[1]].needs
           carries == Corpus[cell[1]].carries
<1>1. off.observed_forwarded <=> (cell[2] \in PolicyPlaneArms => needs \cup carries = {})
  BY VerdictFacts, ConfigurationDecision
<1>2. on.observed_forwarded <=>
        (cell[2] \in MonitorReachable \cup PolicyPlaneArms => needs \subseteq carries)
  BY VerdictFacts, ConfigurationDecision
<1>3. Corpus[cell[1]].benign <=> needs \subseteq carries
  BY ConfigurationBenign
<1>4. MonitorReachable \cap PolicyPlaneArms = {}
  BY DEF MonitorReachable, PolicyPlaneArms
<1>5. FamilyOf(cell[1]) \in ConfigurationFamilies
  BY DEF ConfigurationScenarios
<1>6. Dagger(cell, off, "off", Nothing) <=> off.observed_forwarded /\ cell[2] \in MonitorReachable
  BY <1>5 DEF Dagger
<1>7. Dagger(cell, off, "off", on) <=> off.observed_forwarded /\ ~on.observed_forwarded
  BY <1>5, NothingIsNoVerdict DEF Dagger
<1> QED BY <1>1, <1>2, <1>3, <1>4, <1>6, <1>7

(* The report's three groupings of arms, which are lists of names, agree with *)
(* what the arms decide, whatever corpus of this shape they are run on. *)
THEOREM TableGroupingsPredictTheTable == Spec => []GroupingsPredictTheTable
<1>1. ASSUME TableInv PROVE GroupingsPredictTheTable
  <2>1. ASSUME NEW k \in DOMAIN passes, NEW cell \in DOMAIN passes[k].cells,
               FamilyOf(cell[1]) = "F1", ~Corpus[cell[1]].benign, ~passes[k].config.attached,
               Undisturbed(k, cell)
        PROVE  Forwarded(k, cell) <=> cell[2] \notin Strong
    <3>1. cell[1] \in DOMAIN Corpus /\ cell[2] \in Arms
          /\ ScoredFrom(cell, passes[k].cells[cell], passes[k].config)
      BY <1>1, <2>1, CellFacts
    <3>2. Forwarded(k, cell) <=>
            Decide(cell[2], cell[1], FaultOf(cell[1], passes[k].config), passes[k].config)
      BY <2>1, <3>1, VerdictFacts DEF Forwarded, Undisturbed
    <3> QED BY <2>1, <3>1, <3>2, UnmonitoredDecision
  <2>2. ASSUME NEW p \in Pairs(FALSE, TRUE), NEW cell \in Both(p[1], p[2]),
               cell[1] \in ConfigurationScenarios,
               Undisturbed(p[1], cell), Undisturbed(p[2], cell)
        PROVE  LET off == passes[p[1]].cells[cell]
                   on == passes[p[2]].cells[cell]
               IN  /\ off.observed_forwarded /\ ~on.observed_forwarded =>
                        cell[2] \in MonitorReachable /\ ~Corpus[cell[1]].benign
                   /\ ~off.observed_forwarded /\ on.observed_forwarded =>
                        cell[2] \in PolicyPlaneArms /\ Corpus[cell[1]].benign
                   /\ ~Corpus[cell[1]].benign =>
                        (Dagger(cell, off, "off", Nothing) <=> Dagger(cell, off, "off", on))
    <3>1. /\ p[1] \in DOMAIN passes /\ p[2] \in DOMAIN passes
          /\ ~passes[p[1]].config.attached /\ passes[p[2]].config.attached
      BY <2>2 DEF Pairs
    <3>2. cell \in DOMAIN passes[p[1]].cells /\ cell \in DOMAIN passes[p[2]].cells
      BY <2>2 DEF Both
    <3>3. /\ passes[p[1]].cells[cell] \in CellVerdicts /\ passes[p[2]].cells[cell] \in CellVerdicts
          /\ ScoredFrom(cell, passes[p[1]].cells[cell], passes[p[1]].config)
          /\ ScoredFrom(cell, passes[p[2]].cells[cell], passes[p[2]].config)
          /\ cell[2] \in Arms
          /\ passes[p[1]].cells[cell].mishap = "none" /\ passes[p[2]].cells[cell].mishap = "none"
      BY <1>1, <2>2, <3>1, <3>2, CellFacts DEF Undisturbed
    <3> QED BY <2>2, <3>1, <3>3, PairPredicted
  <2>3. ASSUME NEW j \in DOMAIN passes, NEW k \in DOMAIN passes,
               NEW c \in DOMAIN passes[j].cells, NEW d \in DOMAIN passes[k].cells,
               c[1] = d[1], c[1] \in ConfigurationScenarios, Undisturbed(j, c), Undisturbed(k, d),
               {c[2], d[2]} \subseteq MonitorReachable \cup PolicyPlaneArms,
               passes[j].config.label = "on",
               ComparisonIsSound({[family |-> FamilyOf(c[1]), label |-> passes[j].config.label],
                                  [family |-> FamilyOf(d[1]), label |-> passes[k].config.label]})
        PROVE  Forwarded(j, c) <=> Forwarded(k, d)
    <3> DEFINE x == [family |-> FamilyOf(c[1]), label |-> passes[j].config.label]
               y == [family |-> FamilyOf(d[1]), label |-> passes[k].config.label]
    <3>1. passes[k].config.label = "on"
      <4>1. x.family \in ConfigurationFamilies /\ x \in {x, y} /\ y \in {x, y}
        BY <2>3 DEF ConfigurationScenarios
      <4>2. ComparisonIsSound({x, y})
        BY <2>3
      <4>3. x.label = y.label
        BY <4>1, <4>2 DEF ComparisonIsSound
      <4> QED BY <2>3, <4>3
    <3>2. passes[j].config.attached /\ passes[k].config.attached
      BY <1>1, <2>3, <3>1, PassFacts, DriverAssumption
    <3>3. /\ c[2] \in Arms /\ ScoredFrom(c, passes[j].cells[c], passes[j].config)
          /\ d[2] \in Arms /\ ScoredFrom(d, passes[k].cells[d], passes[k].config)
      BY <1>1, <2>3, CellFacts
    <3>4. Forwarded(j, c) <=> Corpus[c[1]].needs \subseteq Corpus[c[1]].carries
      BY <2>3, <3>2, <3>3, VerdictFacts, ConfigurationDecision DEF Forwarded, Undisturbed
    <3>5. Forwarded(k, d) <=> Corpus[d[1]].needs \subseteq Corpus[d[1]].carries
      BY <2>3, <3>2, <3>3, VerdictFacts, ConfigurationDecision DEF Forwarded, Undisturbed
    <3> QED BY <2>3, <3>4, <3>5
  <2> QED BY <2>1, <2>2, <2>3 DEF GroupingsPredictTheTable
<1> QED BY <1>1, TableInvariant, PTL

(* The columns have ten different names. *)
LEMMA ColumnFacts ==
  /\ DOMAIN E5Columns = 1 .. 10
  /\ E5Columns[4] = "htc/holder" /\ E5Columns[6] = "contain"
  /\ \A i, j \in 1 .. 10 : E5Columns[i] = E5Columns[j] => i = j
BY DEF E5Columns

(* The rows of the arms, but for B1's, to which nothing is compared. *)
LEMMA BitmaskFacts ==
  ASSUME NEW arm \in Arms \ {"B1"}
  PROVE  /\ E5Bitmask(arm)[1] = IF arm = "B0" THEN "0" ELSE "1"
         /\ E5Bitmask(arm)[10] = IF arm = "B0" THEN "0" ELSE "1"
         /\ E5Bitmask(arm)[2] = IF arm \in {"B-cap", "B3", "B3+"} THEN "1" ELSE "0"
         /\ E5Bitmask(arm)[3] = IF arm \in {"B-cap", "B3", "B3+"} THEN "1" ELSE "0"
         /\ E5Bitmask(arm)[5] = IF arm \in {"B3", "B3+"} THEN "1" ELSE "0"
         /\ E5Bitmask(arm)[4] = IF arm \in {"B3", "B3+"} THEN "1"
                                ELSE IF arm = "B2-exchange-task-DPoP" THEN "dpop-cnf" ELSE "0"
BY DEF E5Bitmask, Arms

(* An increment of one mechanism differs in one column. *)
LEMMA OneColumn ==
  ASSUME NEW t \in Arms, NEW b \in Arms, E5BitDifference(t, b) = "mechanism-increment"
  PROVE  /\ t # "B1" /\ b # "B1" /\ (PerformsAsExchange(t) <=> PerformsAsExchange(b))
         /\ \A i, j \in 1 .. 10 : i # j => \/ E5Bitmask(t)[i] = E5Bitmask(b)[i]
                                           \/ E5Bitmask(t)[j] = E5Bitmask(b)[j]
<1> DEFINE bits == DifferingBits(t, b)
<1>1. /\ "B1" \notin {t, b} /\ Cardinality(bits) = 1
      /\ PerformsAsExchange(t) = PerformsAsExchange(b)
  BY DEF E5BitDifference
<1>2. IsFiniteSet(bits)
  <2> DEFINE places == {j \in 1 .. 10 : E5Bitmask(t)[j] # E5Bitmask(b)[j]}
             column == [j \in places |-> E5Columns[j]]
  <2>1. bits = {E5Columns[j] : j \in places}
    BY ColumnFacts DEF DifferingBits
  <2>2. column \in Surjection(places, bits)
    BY <2>1 DEF Surjection
  <2>3. IsFiniteSet(places)
    <3>1. 1 \in Int /\ 10 \in Int
      OBVIOUS
    <3>2. IsFiniteSet(1 .. 10)
      BY <3>1, FS_Interval
    <3> QED BY <3>2, FS_Subset
  <2> QED BY <2>2, <2>3, FS_Surjection
<1>3. PICK x : bits = {x}
  BY <1>1, <1>2, FS_Singleton
<1>4. ASSUME NEW i \in 1 .. 10, NEW j \in 1 .. 10,
             E5Bitmask(t)[i] # E5Bitmask(b)[i], E5Bitmask(t)[j] # E5Bitmask(b)[j]
      PROVE  i = j
  <2>1. E5Columns[i] \in bits /\ E5Columns[j] \in bits
    BY <1>4, ColumnFacts DEF DifferingBits
  <2>2. E5Columns[i] = E5Columns[j]
    BY <1>3, <2>1
  <2> QED BY <2>2, ColumnFacts
<1>5. PerformsAsExchange(t) <=> PerformsAsExchange(b)
  BY <1>1
<1> QED BY <1>1, <1>4, <1>5

(* There are three such increments. *)
LEMMA ThreeIncrements ==
  ASSUME NEW t \in Arms, NEW b \in Arms, t # b, E5BitDifference(t, b) = "mechanism-increment"
  PROVE  \/ {t, b} = {"B2-exchange-broad", "B2-exchange-task"}
         \/ {t, b} = {"B2-exchange-task", "B2-exchange-task-DPoP"}
         \/ {t, b} = {"B3", "B3+"}
<1>1. /\ t # "B1" /\ b # "B1"
      /\ PerformsAsExchange(t) <=> PerformsAsExchange(b)
      /\ \A i, j \in 1 .. 10 : i # j => \/ E5Bitmask(t)[i] = E5Bitmask(b)[i]
                                        \/ E5Bitmask(t)[j] = E5Bitmask(b)[j]
  BY OneColumn
<1>2. /\ E5Bitmask(t)[1] = E5Bitmask(b)[1] \/ E5Bitmask(t)[10] = E5Bitmask(b)[10]
      /\ E5Bitmask(t)[2] = E5Bitmask(b)[2] \/ E5Bitmask(t)[3] = E5Bitmask(b)[3]
      /\ E5Bitmask(t)[4] = E5Bitmask(b)[4] \/ E5Bitmask(t)[6] = E5Bitmask(b)[6]
      /\ E5Bitmask(t)[4] = E5Bitmask(b)[4] \/ E5Bitmask(t)[5] = E5Bitmask(b)[5]
  BY <1>1
<1>3. t \in {"B2-exchange-broad", "B2-exchange-task", "B2-exchange-task-DPoP"} <=>
      b \in {"B2-exchange-broad", "B2-exchange-task", "B2-exchange-task-DPoP"}
  BY <1>1 DEF PerformsAsExchange
<1>4. t = "B0" <=> b = "B0"
  BY <1>1, <1>2, BitmaskFacts
<1>5. t \in {"B-cap", "B3", "B3+"} <=> b \in {"B-cap", "B3", "B3+"}
  BY <1>1, <1>2, BitmaskFacts
<1>6. CASE t \in {"B-cap", "B3", "B3+"}
  <2>1. t \in {"B3", "B3+"} <=> b \in {"B3", "B3+"}
    BY <1>1, <1>2, <1>5, <1>6, BitmaskFacts
  <2> QED BY <1>5, <1>6, <2>1
<1>7. CASE t \in {"B2-exchange-broad", "B2-exchange-task", "B2-exchange-task-DPoP"}
  <2>1. ASSUME NEW arm \in {"B2-exchange-broad", "B2-exchange-task", "B2-exchange-task-DPoP"}
        PROVE  /\ E5Bitmask(arm)[4] = IF arm = "B2-exchange-task-DPoP" THEN "dpop-cnf" ELSE "0"
               /\ E5Bitmask(arm)[6] = IF arm = "B2-exchange-broad" THEN "0" ELSE "(scope in token)"
    BY DEF E5Bitmask
  <2>2. E5Bitmask(t)[4] = E5Bitmask(b)[4] => (t = "B2-exchange-task-DPoP" <=> b = "B2-exchange-task-DPoP")
    BY <1>3, <1>7, <2>1
  <2>3. E5Bitmask(t)[6] = E5Bitmask(b)[6] => (t = "B2-exchange-broad" <=> b = "B2-exchange-broad")
    BY <1>3, <1>7, <2>1
  <2>4. \/ t = "B2-exchange-task-DPoP" <=> b = "B2-exchange-task-DPoP"
        \/ t = "B2-exchange-broad" <=> b = "B2-exchange-broad"
    BY <1>2, <2>2, <2>3
  <2> QED BY <1>3, <1>7, <2>4
<1> QED BY <1>1, <1>3, <1>4, <1>5, <1>6, <1>7 DEF Arms

(* Which decisions these increments can move. *)
LEMMA IncrementDecisions ==
  ASSUME NEW s \in DOMAIN Corpus, NEW c
  PROVE  /\ \/ Decide("B2-exchange-broad", s, FaultOf(s, c), c) <=>
                 Decide("B2-exchange-task", s, FaultOf(s, c), c)
            \/ Corpus[s].amplifies
         /\ \/ Decide("B2-exchange-task", s, FaultOf(s, c), c) <=>
                 Decide("B2-exchange-task-DPoP", s, FaultOf(s, c), c)
            \/ Corpus[s].fault \in {"wrong_registered_holder", "stolen_AT_key_substitution"}
         /\ Decide("B3", s, FaultOf(s, c), c) <=> Decide("B3+", s, FaultOf(s, c), c)
<1> DEFINE exchange == {"B2-exchange-broad", "B2-exchange-task", "B2-exchange-task-DPoP"}
<1>1. Corpus[s].fault \in Faults /\ FaultOf(s, c) \in {Corpus[s].fault, "none"}
  BY CampaignTableAssumption DEF FaultOf
<1>2. \A arm \in exchange : RefusesForPolicy(arm, s, c) <=> RefusesForPolicy("B2-exchange-task", s, c)
  BY DEF RefusesForPolicy, ConsultsMonitor, ArmBitmask, Arms
<1>3. RefusesForPolicy("B3", s, c) <=> RefusesForPolicy("B3+", s, c)
  BY DEF RefusesForPolicy, ConsultsMonitor, ArmBitmask, Arms
<1>4. ASSUME NEW f \in Faults
      PROVE  /\ RefusesFault("B2-exchange-broad", f) <=> RefusesFault("B2-exchange-task", f)
             /\ (RefusesFault("B2-exchange-task", f) <=> RefusesFault("B2-exchange-task-DPoP", f))
                  \/ f \in {"wrong_registered_holder", "stolen_AT_key_substitution"}
             /\ RefusesFault("B3", f) <=> RefusesFault("B3+", f)
  BY DEF RefusesFault, ArmBitmask, Arms, Faults
<1>5. FaultOf(s, c) \in Faults
  BY <1>1 DEF Faults
<1>6. "B2-exchange-task" \in ArmBitmask.contain /\ "B2-exchange-task-DPoP" \in ArmBitmask.contain
      /\ "B3" \in ArmBitmask.contain /\ "B3+" \in ArmBitmask.contain
  BY DEF ArmBitmask
<1> QED BY <1>1, <1>2, <1>3, <1>4, <1>5, <1>6 DEF Decide

(* What the analysis would call an increment of one mechanism is between arms *)
(* whose decisions part only where that mechanism is at stake. *)
THEOREM TableIncrementMovesOnlyItsMechanism == Spec => []IncrementMovesOnlyItsMechanism
<1>1. ASSUME TableInv PROVE IncrementMovesOnlyItsMechanism
  <2> SUFFICES ASSUME NEW k \in DOMAIN passes,
                      NEW c \in DOMAIN passes[k].cells, NEW d \in DOMAIN passes[k].cells,
                      c[1] = d[1], c[2] # d[2], Undisturbed(k, c), Undisturbed(k, d),
                      E5BitDifference(c[2], d[2]) = "mechanism-increment",
                      Forwarded(k, c) # Forwarded(k, d)
               PROVE  \E bit \in DifferingBits(c[2], d[2]) : c[1] \in AtStake(bit)
    BY DEF IncrementMovesOnlyItsMechanism
  <2> DEFINE s == c[1]
             config == passes[k].config
  <2>1. /\ s \in DOMAIN Corpus /\ c[2] \in Arms /\ d[2] \in Arms
        /\ ScoredFrom(c, passes[k].cells[c], config) /\ ScoredFrom(d, passes[k].cells[d], config)
        /\ passes[k].cells[c] \in CellVerdicts /\ passes[k].cells[d] \in CellVerdicts
    BY <1>1, CellFacts
  <2>2. ~(Decide(c[2], s, FaultOf(s, config), config) <=> Decide(d[2], s, FaultOf(s, config), config))
    <3>1. /\ Forwarded(k, c) <=> Decide(c[2], s, FaultOf(s, config), config)
          /\ Forwarded(k, d) <=> Decide(d[2], s, FaultOf(s, config), config)
      BY <2>1, VerdictFacts DEF Forwarded, Undisturbed
    <3>2. Forwarded(k, c) \in BOOLEAN /\ Forwarded(k, d) \in BOOLEAN
      BY <2>1 DEF Forwarded, CellVerdicts
    <3> QED BY <3>1, <3>2
  <2>3. \/ {c[2], d[2]} = {"B2-exchange-broad", "B2-exchange-task"}
        \/ {c[2], d[2]} = {"B2-exchange-task", "B2-exchange-task-DPoP"}
        \/ {c[2], d[2]} = {"B3", "B3+"}
    BY <2>1, ThreeIncrements
  <2>4. CASE {c[2], d[2]} = {"B2-exchange-broad", "B2-exchange-task"}
    <3>1. Corpus[s].amplifies
      BY <2>1, <2>2, <2>4, IncrementDecisions
    <3>2. "contain" \in DifferingBits(c[2], d[2])
      <4>1. E5Bitmask("B2-exchange-broad")[6] # E5Bitmask("B2-exchange-task")[6]
        BY DEF E5Bitmask
      <4>2. E5Bitmask(c[2])[6] # E5Bitmask(d[2])[6]
        BY <2>4, <4>1
      <4> QED BY <4>2, ColumnFacts DEF DifferingBits
    <3> QED BY <2>1, <3>1, <3>2 DEF AtStake
  <2>5. CASE {c[2], d[2]} = {"B2-exchange-task", "B2-exchange-task-DPoP"}
    <3>1. Corpus[s].fault \in {"wrong_registered_holder", "stolen_AT_key_substitution"}
      BY <2>1, <2>2, <2>5, IncrementDecisions
    <3>2. "htc/holder" \in DifferingBits(c[2], d[2])
      <4>1. E5Bitmask("B2-exchange-task")[4] # E5Bitmask("B2-exchange-task-DPoP")[4]
        BY DEF E5Bitmask
      <4>2. E5Bitmask(c[2])[4] # E5Bitmask(d[2])[4]
        BY <2>5, <4>1
      <4> QED BY <4>2, ColumnFacts DEF DifferingBits
    <3> QED BY <2>1, <3>1, <3>2 DEF AtStake
  <2>6. CASE {c[2], d[2]} = {"B3", "B3+"}
    BY <2>1, <2>2, <2>6, IncrementDecisions
  <2> QED BY <2>3, <2>4, <2>5, <2>6
<1> QED BY <1>1, TableInvariant, PTL

-----------------------------------------------------------------------------
(* The latency analysis.  What follows is of any samples whatever: nothing   *)
(* is known of `handed` but that it is a set.                               *)

(* The segment of a benign series that is not refused is of the runs that    *)
(* have both of its spans. *)
LEMMA SegmentIsOfWholeRuns ==
  ASSUME NEW samples, NEW arm, NEW warmth, ~SegmentRefused(samples, arm, warmth)
  PROVE  SegmentValues(samples, arm, warmth) = WholeRuns(samples, arm, warmth)
<1> DEFINE rows == SegmentRows(samples, arm, warmth)
<1>1. \A span \in MeasuredSegmentSpans : Carrying(rows, span) = Repetitions(rows)
  BY DEF SegmentRefused
<1>2. \A x : x \in rows <=> /\ x \in samples /\ x.arm = arm /\ x.phase = warmth
                            /\ x.span \in MeasuredSegmentSpans
  BY DEF SegmentRows, RowsOf
<1> HIDE DEF rows
<1>3. ASSUME NEW r \in Repetitions(rows) PROVE r \in WholeRuns(samples, arm, warmth)
  <2>1. r \in Repetitions(samples)
    BY <1>2 DEF Repetitions
  <2>2. ASSUME NEW span \in MeasuredSegmentSpans
        PROVE  \E x \in samples : x.arm = arm /\ x.phase = warmth /\ x.span = span /\ Repetition(x) = r
    <3>1. r \in Carrying(rows, span)
      BY <1>1
    <3>2. \E x \in rows : x.span = span /\ Repetition(x) = r
      BY <3>1 DEF Carrying, Repetitions
    <3> QED BY <1>2, <3>2
  <2> QED BY <2>1, <2>2 DEF WholeRuns
<1>4. ASSUME NEW r \in WholeRuns(samples, arm, warmth) PROVE r \in Repetitions(rows)
  <2>1. "presentation" \in MeasuredSegmentSpans
    BY DEF MeasuredSegmentSpans
  <2>2. \E x \in samples :
          x.arm = arm /\ x.phase = warmth /\ x.span = "presentation" /\ Repetition(x) = r
    BY <2>1 DEF WholeRuns
  <2> QED BY <1>2, <2>1, <2>2 DEF Repetitions
<1> QED BY <1>3, <1>4 DEF SegmentValues, rows

(* A report that is not refused has every span of every run it is made of;    *)
(* with none of the refusal path, the benign one is made of all of them, and  *)
(* the segment leaves none of them out. *)
LEMMA ReportIsOfEveryRun ==
  ASSUME NEW samples, NEW perBatch, NEW arm, NEW warmth \in Phases,
         arm \in ArmsOf(DiscardWarmup(samples, perBatch)),
         ~DescriptivesRefused(samples, perBatch),
         OnRefusalPath(DiscardWarmup(samples, perBatch)) = {}
  PROVE  LET kept == DiscardWarmup(samples, perBatch)
         IN  /\ SegmentValues(kept, arm, warmth) = RunsOf(kept, arm, warmth)
             /\ \A span \in Rq4Spans :
                  SpanValues(ReportRows(kept, arm, warmth, "benign"), arm, warmth, span)
                    = RunsOf(kept, arm, warmth)
<1> DEFINE kept == DiscardWarmup(samples, perBatch)
           rows == ReportRows(kept, arm, warmth, "benign")
<1>1. ASSUME NEW span \in Rq4Spans PROVE ~SpanValuesRefused(rows, arm, warmth, span)
  BY DEF DescriptivesRefused, SeriesNames
<1>2. OnRefusalPath(kept) = {}
  OBVIOUS
<1> HIDE DEF kept
<1>3. rows = RowsOf(kept, arm, warmth)
  BY <1>2 DEF ReportRows, InSeries
<1>4. RowsOf(rows, arm, warmth) = rows /\ Repetitions(rows) = RunsOf(kept, arm, warmth)
  BY <1>3 DEF RowsOf, Repetitions, RunsOf
<1> HIDE DEF rows
<1>5. ASSUME NEW span \in Rq4Spans
      PROVE  /\ SpanValues(rows, arm, warmth, span) = RunsOf(kept, arm, warmth)
             /\ Carrying(rows, span) = RunsOf(kept, arm, warmth)
  BY <1>1, <1>4 DEF SpanValuesRefused, SpanValues
<1>6. /\ SegmentRows(kept, arm, warmth) \subseteq rows
      /\ {x \in rows : x.span = "presentation"} \subseteq SegmentRows(kept, arm, warmth)
  BY <1>3 DEF SegmentRows, MeasuredSegmentSpans
<1>7. /\ SegmentValues(kept, arm, warmth) \subseteq Repetitions(rows)
      /\ Carrying(rows, "presentation") \subseteq SegmentValues(kept, arm, warmth)
  BY <1>6 DEF SegmentValues, Carrying, Repetitions
<1>8. "presentation" \in Rq4Spans
  BY DEF Rq4Spans
<1>9. SegmentValues(kept, arm, warmth) = RunsOf(kept, arm, warmth)
  BY <1>4, <1>5, <1>7, <1>8
<1> QED BY <1>5, <1>9 DEF kept, rows

(* Row 1's figure is taken over the runs that have the whole segment, and     *)
(* what it leaves out unseen does not get past the report: whatever the       *)
(* caller hands over, and however often and to how many batches. *)
THEOREM MeasurementFiguresAreWhole == MeasurementSpec => []RowOneIsTakenOverWholeRuns
<1>1. RowOneIsTakenOverWholeRuns
  <2> SUFFICES ASSUME NEW warmup \in {0, 1}, ~LightweightRefused(DiscardWarmup(handed, warmup)),
                      NEW arm \in RowOneArms
               PROVE  LET kept == DiscardWarmup(handed, warmup)
                          figure == SegmentValues(kept, arm, "warm")
                      IN  /\ figure = WholeRuns(kept, arm, "warm")
                          /\ figure # RunsOf(kept, arm, "warm") => DescriptivesRefused(handed, warmup)
                          /\ ~DescriptivesRefused(handed, warmup) =>
                               \A r \in SpanDescriptives(handed, warmup) :
                                 r.arm = arm /\ r.phase = "warm" /\ r.series = "benign" =>
                                   r.n = Cardinality(figure)
                          /\ \A span \in MeasuredSegmentSpans :
                               ~ArmPairDeltaRefused(kept, "B3", "B0", span, "warm") =>
                                 SpanValues(kept, arm, "warm", span) = figure
    BY DEF RowOneIsTakenOverWholeRuns
  <2> DEFINE kept == DiscardWarmup(handed, warmup)
             figure == SegmentValues(kept, arm, "warm")
  <2>1. /\ OnRefusalPath(kept) = {} /\ ~SegmentRefused(kept, arm, "warm") /\ figure # {}
    BY DEF LightweightRefused, BenignSeriesRefused, RowOneArms
  <2>2. figure = WholeRuns(kept, arm, "warm")
    BY <2>1, SegmentIsOfWholeRuns
  <2>3. arm \in ArmsOf(kept) /\ "warm" \in Phases
    <3> HIDE DEF kept
    <3>1. \E x \in kept : x.arm = arm
      BY <2>1 DEF SegmentValues, Repetitions, SegmentRows, RowsOf
    <3> QED BY <3>1 DEF ArmsOf, Phases
  <2>4. ASSUME ~DescriptivesRefused(handed, warmup)
        PROVE  /\ figure = RunsOf(kept, arm, "warm")
               /\ \A span \in Rq4Spans :
                    SpanValues(ReportRows(kept, arm, "warm", "benign"), arm, "warm", span) = figure
    BY <2>1, <2>3, <2>4, ReportIsOfEveryRun
  <2>5. ASSUME ~DescriptivesRefused(handed, warmup), NEW r \in SpanDescriptives(handed, warmup),
               r.arm = arm, r.phase = "warm", r.series = "benign"
        PROVE  r.n = Cardinality(figure)
    <3> DEFINE size(t) == Cardinality(SpanValues(ReportRows(kept, t[1][1], t[1][2], t[1][3]),
                                                 t[1][1], t[1][2], t[2]))
    <3>1. \E t \in (ArmsOf(kept) \X Phases \X SeriesNames) \X Rq4Spans :
            r = [arm |-> t[1][1], phase |-> t[1][2], series |-> t[1][3], span |-> t[2], n |-> size(t)]
      BY <2>5 DEF SpanDescriptives
    <3>2. PICK t \in (ArmsOf(kept) \X Phases \X SeriesNames) \X Rq4Spans :
            r = [arm |-> t[1][1], phase |-> t[1][2], series |-> t[1][3], span |-> t[2], n |-> size(t)]
      BY <3>1
    <3> HIDE DEF kept, figure
    <3>3. /\ r.arm = t[1][1] /\ r.phase = t[1][2] /\ r.series = t[1][3] /\ r.n = size(t)
          /\ t[2] \in Rq4Spans
      BY <3>2
    <3>4. size(t) = Cardinality(SpanValues(ReportRows(kept, arm, "warm", "benign"), arm, "warm", t[2]))
      BY <2>5, <3>3
    <3> QED BY <2>4, <2>5, <3>3, <3>4
  <2>6. ASSUME NEW span \in MeasuredSegmentSpans,
               ~ArmPairDeltaRefused(kept, "B3", "B0", span, "warm")
        PROVE  SpanValues(kept, arm, "warm", span) = figure
    <3> HIDE DEF kept
    <3>1. span # "measured_segment"
      BY DEF MeasuredSegmentSpans
    <3>2. ~SpanValuesRefused(kept, arm, "warm", span)
      BY <2>6, <3>1 DEF ArmPairDeltaRefused, RowOneArms
    <3> DEFINE rows == RowsOf(kept, arm, "warm")
    <3>3. Repetitions(rows) = Carrying(rows, span) /\ SpanValues(kept, arm, "warm", span) = Carrying(rows, span)
      BY <3>2 DEF SpanValuesRefused, SpanValues
    <3>4. figure \subseteq Repetitions(rows) /\ Carrying(rows, span) \subseteq figure
      BY DEF SegmentValues, SegmentRows, Repetitions, Carrying
    <3> QED BY <3>3, <3>4
  <2> QED BY <2>2, <2>4, <2>5, <2>6
<1> QED BY <1>1, PTL

=============================================================================
