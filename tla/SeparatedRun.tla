---------------------------- MODULE SeparatedRun ----------------------------
(***************************************************************************)
(* One scenario run with the system under test in a process of its own:    *)
(* the runner (src/harness/runner.py, sut_mode "separate"), its end of the *)
(* pipe (src/harness/sut_process.py), the child (src/sut/sut_process), the *)
(* tool stack the runner wired -- mediation boundary outside, ingress      *)
(* recorder inside, effector innermost -- and the ledger process.          *)
(*                                                                         *)
(* The child decides; the runner records and executes.  The runner's       *)
(* worker thread talks to the child while the tool runs on the event loop, *)
(* so a tool call that has timed out may still be dispatched.  Either      *)
(* process may die at any step.                                            *)
(*                                                                         *)
(* armAdmitted and acted are history variables: what the arm decided, and  *)
(* whether the tool's body ran.                                            *)
(***************************************************************************)
EXTENDS OracleLinkage

VARIABLES
  runner,       \* where run_scenario is
  child,        \* where the SUT process is
  toChild, toParent,  \* the lines in the two pipes
  fault,        \* the fault the child was provisioned with
  ledgerBacked, \* was a LedgerWriter opened for this run?
  offered,      \* remote_decision["decision"], or "nothing"
  intent,       \* has the intent been sealed?
  tool,         \* where the one MCP call is
  observed,     \* len(boundary_observations)
  toolError,    \* tool_error["error"], or "unset"
  outcome,      \* what run_task returned: "none", "result", "error"
  events,       \* mediation_events: the `admitted` of each
  ledger,       \* the rows in the ledger file
  writer,       \* the ledger process: "absent", "open", "dead", "closed"
  armAdmitted,  \* history: the arm's own decision
  acted         \* history: has the tool's body run?

childVars  == <<child, armAdmitted>>
pipes      == <<toChild, toParent>>
given      == <<fault, ledgerBacked>>
recordVars == <<events, ledger, writer, observed>>
toolVars   == <<tool, acted>>
runVars == <<runner, childVars, pipes, given, offered, intent, toolVars, toolError, outcome, recordVars>>

ClaimFaults == {"none", "claim-blocked-while-executing", "claim-admitted-while-nothing-runs"}

Line == [event : {"ready", "ok", "error", "torn", "result"}]
          \cup [event : {"invoke"}, decision : BOOLEAN, claim : BOOLEAN]

Row == {"ingress", "effect"}

Ended == {"done", "failed"}

RunTypeOK ==
  /\ runner \in {"start", "spawning", "provisioning", "reading", "invoking", "leaving"} \cup Ended
  /\ child \in {"absent", "starting", "idle", "awaiting", "dead"}
  /\ toChild \in Seq({"provision", "run_task", "reply"})
  /\ toParent \in Seq(Line)
  /\ fault \in ClaimFaults /\ ledgerBacked \in BOOLEAN
  /\ offered \in {"nothing", "admit", "deny"}
  /\ intent \in BOOLEAN
  /\ tool \in {"none", "submitted", "entering", "acting", "returned", "raised", "cancelled"}
  /\ observed \in Nat
  /\ toolError \in {"unset", "ok", "error"}
  /\ outcome \in {"none", "result", "error"}
  /\ events \in Seq(BOOLEAN)
  /\ ledger \in Seq(Row)
  /\ writer \in {"absent", "open", "dead", "closed"}
  /\ armAdmitted \in BOOLEAN /\ acted \in BOOLEAN

RunInit ==
  /\ runner = "start" /\ child = "absent"
  /\ toChild = <<>> /\ toParent = <<>>
  /\ fault \in ClaimFaults /\ ledgerBacked \in BOOLEAN
  /\ offered = "nothing" /\ intent = FALSE
  /\ tool = "none" /\ observed = 0 /\ toolError = "unset" /\ outcome = "none"
  /\ events = <<>> /\ ledger = <<>> /\ writer = "absent"
  /\ armAdmitted = FALSE /\ acted = FALSE

-----------------------------------------------------------------------------
(* The child process: one line in, one line out.                           *)

Replies(line) ==
  /\ toChild' = Tail(toChild)
  /\ toParent' = Append(toParent, line)

ChildReady ==
  /\ child = "starting"
  /\ child' = "idle"
  /\ toParent' = Append(toParent, [event |-> "ready"])
  /\ UNCHANGED <<runner, toChild, given, offered, intent, toolVars, toolError, outcome, recordVars, armAdmitted>>

Asked(op) == child = "idle" /\ toChild # <<>> /\ Head(toChild) = op

(* The arm is constructed and provisioned; anything it raises is a reply. *)
ChildProvision ==
  /\ Asked("provision")
  /\ \E line \in {[event |-> "ok"], [event |-> "error"]} : Replies(line)
  /\ UNCHANGED <<runner, childVars, given, offered, intent, toolVars, toolError, outcome, recordVars>>

(* Both agents, the hop, `present` and `decide`; a failing hop or          *)
(* presentation unwinds to the main loop, which answers with the error.    *)
ChildTaskFails ==
  /\ Asked("run_task")
  /\ Replies([event |-> "error"])
  /\ UNCHANGED <<runner, childVars, given, offered, intent, toolVars, toolError, outcome, recordVars>>

(* The decision gates the tool; the claim is the child's self-report.  A   *)
(* raising arm is a denial.                                                *)
Invoke(admitted) ==
  CASE fault = "claim-blocked-while-executing" ->
         [event |-> "invoke", decision |-> admitted, claim |-> FALSE]
    [] fault = "claim-admitted-while-nothing-runs" ->
         [event |-> "invoke", decision |-> FALSE, claim |-> TRUE]
    [] OTHER -> [event |-> "invoke", decision |-> admitted, claim |-> admitted]

ChildInvokes ==
  /\ Asked("run_task")
  /\ \E admitted \in BOOLEAN :
       /\ armAdmitted' = admitted
       /\ Replies(Invoke(admitted))
  /\ child' = "awaiting"
  /\ UNCHANGED <<runner, given, offered, intent, toolVars, toolError, outcome, recordVars>>

(* The nested reply is ignored whatever it says: the task just ends. *)
ChildReports ==
  /\ child = "awaiting" /\ toChild # <<>>
  /\ child' = "idle"
  /\ Replies([event |-> "result"])
  /\ UNCHANGED <<runner, given, offered, intent, toolVars, toolError, outcome, recordVars, armAdmitted>>

(* A death may leave half a line behind if there was one to write. *)
ChildDies ==
  /\ child \notin {"absent", "dead"}
  /\ child' = "dead"
  /\ \/ UNCHANGED toParent
     \/ /\ child = "starting" \/ toChild # <<>>
        /\ toParent' = Append(toParent, [event |-> "torn"])
  /\ UNCHANGED <<runner, toChild, given, offered, intent, toolVars, toolError, outcome, recordVars, armAdmitted>>

-----------------------------------------------------------------------------
(* The runner's thread.                                                    *)

EndOfFile == child = "dead" /\ toParent = <<>>
Arrived(event) == toParent # <<>> /\ Head(toParent).event = event

(* Writing to a dead child is a broken pipe, which every caller turns into *)
(* an error outcome.                                                       *)
Sends(op, next) ==
  IF child = "dead"
  THEN /\ outcome' = "error" /\ runner' = "leaving" /\ UNCHANGED toChild
  ELSE /\ toChild' = Append(toChild, op) /\ runner' = next /\ UNCHANGED outcome

(* arm.provision may raise: nothing has been opened yet. *)
SetupFails ==
  /\ runner = "start"
  /\ runner' = "failed"
  /\ UNCHANGED <<childVars, pipes, given, offered, intent, toolVars, toolError, outcome, recordVars>>

(* The ledger writer is opened, the stack is wired, the child is spawned. *)
Prepare ==
  /\ runner = "start"
  /\ runner' = "spawning"
  /\ child' = "starting"
  /\ writer' = IF ledgerBacked THEN "open" ELSE "absent"
  /\ UNCHANGED <<armAdmitted, pipes, given, offered, intent, toolVars, toolError, outcome, events, ledger, observed>>

ReadReady ==
  /\ runner = "spawning" /\ Arrived("ready") /\ child # "dead"
  /\ toParent' = Tail(toParent)
  /\ toChild' = Append(toChild, "provision")
  /\ runner' = "provisioning"
  /\ UNCHANGED <<childVars, given, offered, intent, toolVars, toolError, outcome, recordVars>>

(* No start-up line, or a refused provisioning: RunnerError, raised before *)
(* the try block whose finally closes the ledger writer.                   *)
SpawnFails ==
  /\ \/ runner = "spawning" /\ (EndOfFile \/ Arrived("torn") \/ (Arrived("ready") /\ child = "dead"))
     \/ runner = "provisioning" /\ (EndOfFile \/ Arrived("torn") \/ Arrived("error"))
  /\ runner' = "failed"
  /\ child' = "dead"
  /\ UNCHANGED <<armAdmitted, pipes, given, offered, intent, toolVars, toolError, outcome, recordVars>>

StartTask ==
  /\ runner = "provisioning" /\ Arrived("ok")
  /\ toParent' = Tail(toParent)
  /\ Sends("run_task", "reading")
  /\ UNCHANGED <<childVars, given, offered, intent, toolVars, toolError, recordVars>>

(* Seeded fault: what the child claims is what the boundary is told. *)
ReadInvokeClaim ==
  /\ runner = "reading" /\ Arrived("invoke")
  /\ offered' = IF Head(toParent).claim THEN "admit" ELSE "deny"
  /\ toParent' = Tail(toParent)
  /\ intent' = TRUE
  /\ tool' = "submitted"
  /\ runner' = "invoking"
  /\ UNCHANGED <<childVars, toChild, given, acted, toolError, outcome, recordVars>>

(* on_invoke: take the decision, seal the intent, submit the call. *)
ReadInvoke ==
  /\ runner = "reading" /\ Arrived("invoke")
  /\ offered' = IF Head(toParent).decision THEN "admit" ELSE "deny"
  /\ toParent' = Tail(toParent)
  /\ intent' = TRUE
  /\ tool' = "submitted"
  /\ runner' = "invoking"
  /\ UNCHANGED <<childVars, toChild, given, acted, toolError, outcome, recordVars>>

(* Seeded fault: an empty read is taken for a slow child and retried. *)
ReadOutcomeNoEof ==
  /\ runner = "reading"
  /\ outcome' = IF Arrived("result") THEN "result" ELSE "error"
  /\ Arrived("result") \/ Arrived("error") \/ Arrived("torn")
  /\ runner' = "leaving"
  /\ UNCHANGED <<childVars, pipes, given, offered, intent, toolVars, toolError, recordVars>>

ReadOutcome ==
  /\ runner = "reading"
  /\ outcome' = IF Arrived("result") THEN "result" ELSE "error"
  /\ Arrived("result") \/ Arrived("error") \/ Arrived("torn") \/ EndOfFile
  /\ runner' = "leaving"
  /\ UNCHANGED <<childVars, pipes, given, offered, intent, toolVars, toolError, recordVars>>

(* future.result(): the call's own verdict goes to tool_error. *)
ToolReturns ==
  /\ runner = "invoking" /\ tool \in {"returned", "raised"}
  /\ toolError' = IF tool = "raised" THEN "error" ELSE "ok"
  /\ Sends("reply", "reading")
  /\ UNCHANGED <<childVars, toParent, given, offered, intent, toolVars, recordVars>>

(* ... or it gives up after 30 s; nothing cancels the call. *)
ToolTimesOut ==
  /\ runner = "invoking" /\ tool \notin {"returned", "raised"}
  /\ Sends("reply", "reading")
  /\ UNCHANGED <<childVars, toParent, given, offered, intent, toolVars, toolError, recordVars>>

(* Seeded fault: the pending call is left on the loop. *)
LeaveUncancelled ==
  /\ runner = "leaving" /\ tool \notin {"entering", "acting"}
  /\ child' = "dead"
  /\ writer' = IF writer = "absent" THEN "absent" ELSE "closed"
  /\ runner' = IF observed = 0 THEN "failed" ELSE "done"
  /\ UNCHANGED <<armAdmitted, pipes, given, offered, intent, toolVars, toolError, outcome, events, ledger, observed>>

(* The event loop takes the worker's return between two callbacks, so      *)
(* never inside a tool; leaving the session cancels a call not yet begun.  *)
(* The finally block stops the child and closes the writer.                *)
Leave ==
  /\ runner = "leaving" /\ tool \notin {"entering", "acting"}
  /\ tool' = IF tool = "submitted" THEN "cancelled" ELSE tool
  /\ child' = "dead"
  /\ writer' = IF writer = "absent" THEN "absent" ELSE "closed"
  /\ runner' = IF observed = 0 THEN "failed" ELSE "done"
  /\ UNCHANGED <<armAdmitted, pipes, given, offered, intent, acted, toolError, outcome, events, ledger, observed>>

-----------------------------------------------------------------------------
(* The tool call, on the event loop.                                       *)

(* external: the SDK validates arguments before the registered function. *)
RejectArguments ==
  /\ tool = "submitted"
  /\ tool' = "raised"
  /\ UNCHANGED <<runner, childVars, pipes, given, offered, intent, acted, toolError, outcome, recordVars>>

(* The boundary: observe, decide, emit exactly one record, then raise or   *)
(* go on to the recorder.                                                  *)
Mediate ==
  /\ tool = "submitted"
  /\ observed' = observed + 1
  /\ events' = Append(events, offered = "admit")
  /\ tool' = IF offered = "admit" THEN "entering" ELSE "raised"
  /\ UNCHANGED <<runner, childVars, pipes, given, offered, intent, acted, toolError, outcome, ledger, writer>>

(* LedgerWriter.append: acked, or the ledger process is or goes down with  *)
(* the row lost or already in the file.                                    *)
Appends(row, next) ==
  \/ /\ writer = "open" /\ ledger' = Append(ledger, row)
     /\ tool' = next /\ UNCHANGED writer
  \/ /\ writer = "open" /\ ledger' \in {ledger, Append(ledger, row)}
     /\ tool' = "raised" /\ writer' = "dead"
  \/ /\ writer = "dead"
     /\ tool' = "raised" /\ UNCHANGED <<ledger, writer>>
  \/ /\ writer = "absent"     \* no recorder, and an effector that does nothing
     /\ tool' = next /\ UNCHANGED <<ledger, writer>>

RecordIngress ==
  /\ tool = "entering"
  /\ Appends("ingress", "acting")
  /\ UNCHANGED <<runner, childVars, pipes, given, offered, intent, acted, toolError, outcome, events, observed>>

(* The tool's body is one call of the effector. *)
Act ==
  /\ tool = "acting"
  /\ acted' = TRUE
  /\ Appends("effect", "returned")
  /\ UNCHANGED <<runner, childVars, pipes, given, offered, intent, toolError, outcome, events, observed>>

LedgerDies ==
  /\ writer = "open"
  /\ writer' = "dead"
  /\ UNCHANGED <<runner, childVars, pipes, given, offered, intent, toolVars, toolError, outcome, events, ledger, observed>>

-----------------------------------------------------------------------------
Runner ==
  \/ SetupFails \/ Prepare \/ ReadReady \/ SpawnFails \/ StartTask \/ ReadInvoke
  \/ ReadOutcome \/ ToolReturns \/ ToolTimesOut \/ Leave

Child ==
  \/ ChildReady \/ ChildProvision \/ ChildTaskFails \/ ChildInvokes
  \/ ChildReports \/ ChildDies

Tool == RejectArguments \/ Mediate \/ RecordIngress \/ Act

RunNext == Runner \/ Child \/ Tool \/ LedgerDies

RunSpec == RunInit /\ [][RunNext]_runVars

(* The runner's thread and the event loop run, and the ledger answers or   *)
(* dies.  Nothing is assumed of the system under test ...                  *)
HarnessSpec == RunSpec /\ WF_runVars(Runner) /\ WF_runVars(Tool)

(* ... or only that it never stalls: it goes on, or it dies. *)
ResponsiveSpec == HarnessSpec /\ WF_runVars(Child)

-----------------------------------------------------------------------------
(* Properties.                                                             *)

(* What the oracle is given of this run, and of an honest admitted run     *)
(* beside it in the campaign, whose call names another target.             *)
Event(cid, admitted) == [cid |-> cid, admitted |-> admitted]
Written(kind, cid, target) == [kind |-> kind, cid |-> cid, target |-> target]

Events == <<Event("beside", TRUE)>> \o [i \in DOMAIN events |-> Event("this", events[i])]
Ledger ==
  <<Written("ingress", "beside", "other"), Written("effect", "beside", "other")>>
    \o [i \in DOMAIN ledger |-> Written(ledger[i], "this", "intended")]

Verdict(es, rows) == Linkage("intended", es, rows, "this")

Scored == runner = "done" /\ ledgerBacked

(* linkage_of's docstring: "'zero effects' is only ever read as no harm    *)
(* when it is accompanied by the absence of the earlier records too".      *)
(* Whatever died and whatever timed out, a run the oracle reads as clean   *)
(* is one whose records are the truth: nothing ran, or one effect did and  *)
(* is in the ledger; and a boundary that blocked never sees an effect.     *)
CleanVerdictIsTheTruth ==
  Scored =>
    /\ Verdict(Events, Ledger) = "unreached" => ~acted /\ events = <<FALSE>>
    /\ Verdict(Events, Ledger) = "consistent" => acted /\ ledger = <<"ingress", "effect">>
    /\ ~LogIntegrityFailure(Events, Ledger, "this")

(* Gate G-12: damage to the records that changes them is never read as a   *)
(* clean run (fault_injection.py, linkage_of).                             *)
DamageIsDetected ==
  Scored =>
    LET damaged == {DropEffects(Ledger, "this"), DropAll(Ledger, "this"),
                    DuplicateEffects(Ledger, "this"), SwapIds(Ledger, "this", "beside")}
    IN  /\ \A rows \in damaged : rows # Ledger => Verdict(Events, rows) \notin Clean
        /\ Verdict(DropMediation(Events, "this"), Ledger) \notin Clean
        /\ events = <<FALSE>> =>
             /\ Verdict(Events, InjectEffect(Ledger, "intended", "this")) \notin Clean
             /\ LogIntegrityFailure(Events, InjectEffect(Ledger, "intended", "this"), "this")

(* Over two processes and a loop: the tool's body runs only if the arm     *)
(* admitted, the boundary recorded that admission, and the intent was      *)
(* sealed before either -- whatever the child claims of itself.  A call    *)
(* that ended in error or was given up on may still have acted; one that   *)
(* ended well has its effect in the ledger.                                *)
ActsOnlyOnRecordedAdmission ==
  /\ acted => armAdmitted /\ events = <<TRUE>>
  /\ fault = "claim-admitted-while-nothing-runs" => ~acted
  /\ events # <<>> => intent
  /\ toolError = "ok" => acted /\ (ledgerBacked => "effect" \in {ledger[i] : i \in DOMAIN ledger})

Observable == <<events, ledger, acted, observed>>

(* A call given up on after 30 s is still queued on the loop.  Once the    *)
(* run has returned its records, nothing adds to them or acts (Leave: the  *)
(* session's exit, between two callbacks of the loop).                     *)
NothingAfterTheRun ==
  [][(runner \in Ended) => UNCHANGED Observable]_runVars

(* The module docstring of harness/sut_process.py: "Failure is a denial,   *)
(* never a hang.  Every call is deadline-bounded".  A run always ends.     *)
RunEnds == <>(runner \in Ended)

=============================================================================
