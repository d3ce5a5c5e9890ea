---------------------------- MODULE CampaignTable ----------------------------
(***************************************************************************)
(* The campaign's table, over repeated passes.  A pass is one run_campaign *)
(* call: it is refused, or it runs its cells in order, one arm on one      *)
(* scenario each, and scores each from evidence; a cell may turn out       *)
(* unscorable, and an exception ends the pass without a table.  What a     *)
(* cell's records say jointly is OracleLinkage, which deltas a comparison  *)
(* of arms may attribute is LatencySeries, and what else the analysis      *)
(* makes of the tables is defined below.                                   *)
(*                                                                         *)
(* An arm's decision is taken here from its bitmask, what a scenario       *)
(* stages and whether the monitor is attached; the mechanisms themselves   *)
(* are CapabilityChain, OAuthSession and PolicyPlane.                      *)
(***************************************************************************)
EXTENDS LatencySeries, OracleLinkage

CONSTANTS
  Corpus,          \* scenario -> its sealed and visible record, see Records
  Sweeps,          \* the sequences of cells <<scenario, arm>> a driver repeats
  Configurations,  \* how it may call run_campaign, see Parameters
  Nothing,
  MaxPasses        \* bound

Families == {"F1", "F2", "F3", "F4", "F5"}
Arms == {"B0", "B1", "B2-broad-noexchange", "B2-exchange-broad", "B2-exchange-task",
         "B2-exchange-task-DPoP", "B-cap", "B3", "B3+"}
Faults == {"none", "invalid_credential", "unauthenticated_caller", "audience_mismatch",
           "wrong_registered_holder", "stolen_AT_key_substitution"}
Gates == {"declassification", "approval"}

(* `amplifies`: R is not within C_n.  `needs`: the artifacts the sealed call *)
(* requires, `carries`: those that are minted for it, valid ones. *)
Records ==
  [subcase : Seq(STRING), benign : BOOLEAN, fault : Faults, amplifies : BOOLEAN,
   needs : SUBSET Gates, carries : SUBSET Gates, na : SUBSET Arms]

Labels == {"none", "off", "on"}     \* the monitor_attached argument
Parameters ==
  [label : Labels, attached : BOOLEAN,   \* what it says, and the arms' setups
   sutMode : {"in-process", "separate"}, runMode : {"pilot", "confirmatory"},
   corpus : {"pilot", "confirmatory"}, ablation : BOOLEAN,
   policy : {"PILOT-PROVISIONAL", "sealed"},
   scalars : SUBSET Nat, digests : SUBSET {"artifact", "another"},   \* what rows record
   ledger : BOOLEAN, ledgerOpens : BOOLEAN]

(* A pass runs scenarios against factories of arms, one cell each. *)
ASSUME CampaignTableAssumption ==
  /\ \A s \in DOMAIN Corpus : Corpus[s].fault \in Faults /\ Corpus[s].benign \in BOOLEAN
  /\ \A cells \in Sweeps : /\ cells \in Seq((DOMAIN Corpus) \X Arms)
                           /\ \A i, j \in DOMAIN cells : cells[i] = cells[j] => i = j
  /\ Configurations \subseteq Parameters
  /\ MaxPasses \in Nat

-----------------------------------------------------------------------------
(* Families and groupings. *)

(* The first part of the subcase that names one; the golden thread's benign *)
(* control names none and is on F1's ladder. *)
FamilyOf(s) ==
  LET parts == Corpus[s].subcase
      named == {i \in DOMAIN parts : parts[i] \in Families}
  IN  IF named = {} THEN "F1" ELSE parts[CHOOSE i \in named : \A j \in named : i <= j]

ConfigurationFamilies == {"F4", "F5"}
ConfigurationScenarios == {s \in DOMAIN Corpus : FamilyOf(s) \in ConfigurationFamilies}

Strong == {"B2-exchange-task", "B2-exchange-task-DPoP", "B-cap", "B3", "B3+"}
PolicyPlaneArms == {"B3", "B3+"}
MonitorReachable ==
  {"B2-broad-noexchange", "B2-exchange-broad", "B2-exchange-task", "B2-exchange-task-DPoP"}

(* What a reported cell must say of its configuration; else MatrixError. *)
CellIsValid(family, arm, label) ==
  arm \in Arms /\ (family \in ConfigurationFamilies <=> label # "none")

(* May cells, [family, label] each, be compared in one claim. *)
ComparisonIsSound(cells) ==
  /\ cells # {}
  /\ \/ \A c \in cells : c.family \notin ConfigurationFamilies
     \/ \A c, d \in cells : c.family \in ConfigurationFamilies /\ c.label = d.label

(* What the sealed records of the corpus are: a scenario is labelled benign    *)
(* just when nothing in it is off; the attacks of F1 amplify and no more,      *)
(* those of F2 corrupt a credential, and nothing is off in F4 and F5 but the   *)
(* artifacts. *)
ASSUME CorpusAssumption ==
  \A s \in DOMAIN Corpus :
    LET record == Corpus[s]
    IN  /\ record.benign <=> /\ ~record.amplifies /\ record.fault = "none"
                             /\ record.needs \subseteq record.carries
        /\ FamilyOf(s) = "F1" /\ ~record.benign => record.amplifies /\ record.fault = "none"
        /\ FamilyOf(s) = "F2" => record.fault # "none"
        /\ s \in ConfigurationScenarios => ~record.amplifies /\ record.fault = "none"

(* The drivers make the arms' setups from the label they pass on. *)
ASSUME DriverAssumption ==
  \A c \in Configurations : c.label = "on" => c.attached

-----------------------------------------------------------------------------
(* The arms, by mechanism. *)

ArmBitmask ==
  [oauth_authn  |-> Arms \ {"B0", "B1"},
   crypto_chain |-> {"B-cap", "B3", "B3+"},
   htc_holder   |-> {"B2-exchange-task-DPoP", "B3", "B3+"},
   contain      |-> {"B2-exchange-task", "B2-exchange-task-DPoP", "B-cap", "B3", "B3+"},
   policy       |-> {"B3", "B3+"}]       \* context and approval

(* Which arms look at what the fault corrupts; B1 has its key to lose. *)
RefusesFault(arm, fault) ==
  CASE fault = "none" -> FALSE
    [] fault \in {"invalid_credential", "unauthenticated_caller"} ->
         arm \in ArmBitmask.oauth_authn \cup {"B1"}
    [] fault = "audience_mismatch" -> arm \in ArmBitmask.oauth_authn
    [] OTHER -> arm \in ArmBitmask.htc_holder

(* Seeded fault (GroupingsPredictTheTable): by every arm of the OAuth plane. *)
ConsultsAnyMonitor(arm, c) == c.attached /\ arm \in ArmBitmask.oauth_authn

(* An OAuth arm asks beside its decision path, a capability arm through the *)
(* two conjuncts its bitmask selects. *)
ConsultsMonitor(arm, c) ==
  /\ c.attached
  /\ arm \in (ArmBitmask.oauth_authn \ ArmBitmask.crypto_chain) \cup ArmBitmask.policy

RefusesForPolicy(arm, s, c) ==
  \/ ConsultsMonitor(arm, c) /\ ~(Corpus[s].needs \subseteq Corpus[s].carries)
  \/ ~c.attached /\ arm \in ArmBitmask.policy /\ Corpus[s].needs \cup Corpus[s].carries # {}

(* The fault is applied to an arm in this process, and to no other. *)
FaultOf(s, c) == IF c.sutMode = "in-process" THEN Corpus[s].fault ELSE "none"

Decide(arm, s, fault, c) ==
  /\ ~(Corpus[s].amplifies /\ arm \in ArmBitmask.contain)
  /\ ~RefusesFault(arm, fault)
  /\ ~RefusesForPolicy(arm, s, c)

(* What may befall the run of a cell and still leave it scored.  A refusal    *)
(* that no mechanism decided: the arm raised, its process sent no decision,   *)
(* or a credential lapsed within the cell.  Or a no-op: the corruption of a   *)
(* token that left the token's bytes what they were. *)
Mishaps == {"none", "refusal", "no-op"}

MayBefall(arm, s, c) ==
  {m \in Mishaps :
     m = "no-op" => arm \in ArmBitmask.oauth_authn /\ FaultOf(s, c) = "invalid_credential"}

Forwards(arm, s, mishap, c) ==
  /\ mishap # "refusal"
  /\ Decide(arm, s, IF mishap = "no-op" THEN "none" ELSE FaultOf(s, c), c)

-----------------------------------------------------------------------------
(* A run, as the oracle finds it: was it forwarded, did its tool take effect, *)
(* is a presentation among its records, and what befell it. *)
ScenarioRuns ==
  {run \in [forwarded : BOOLEAN, effect : BOOLEAN, shown : BOOLEAN, mishap : Mishaps] :
     run.effect => run.forwarded}

(* What was presented, as the harness keeps it: before the fault, which       *)
(* corrupts what the arm then decides on. *)
Evidence(arm, run) ==
  {e \in {"oauth", "capability", "api_key"} :
     /\ run.shown
     /\ \/ e = "oauth" /\ arm \in ArmBitmask.oauth_authn
        \/ e = "capability" /\ arm \in ArmBitmask.crypto_chain
        \/ e = "api_key" /\ arm = "B1"}

(* Whose token an arm presents: the sealed oauth_actor is the Specialist, and *)
(* the arm that exchanges nothing presents the Supervisor's base token. *)
OauthActor == "agent-specialist"
Presenter(arm) == IF arm = "B2-broad-noexchange" THEN "agent-supervisor" ELSE OauthActor

(* The harness's own check of it; a token is live at the cell's clock. *)
CredentialResult(arm, run) == IF "oauth" \in Evidence(arm, run) THEN {Presenter(arm)} ELSE {}

(* Its records: one event, a row when the tool is entered and one when it acts. *)
EventOf(run) == <<[cid |-> "cell", admitted |-> run.forwarded]>>
RowsOfRun(run) ==
  LET row(kind) == [kind |-> kind, cid |-> "cell", target |-> "intended"]
  IN  IF run.effect THEN <<row("ingress"), row("effect")>>
      ELSE IF run.forwarded THEN <<row("ingress")>> ELSE <<>>

-----------------------------------------------------------------------------
(* The oracle's predicates, on a run. *)

ObservedForwarded(run) == Admits(EventOf(run), MediationOf(EventOf(run), "cell"))

TookEffect(run) == Effects(RowsOfRun(run), "cell") # {}

(* Seeded fault (AttacksAreNeverScoredClean): as before ADR 0036. *)
ReferenceWithoutFault(s) == ~Corpus[s].amplifies /\ Corpus[s].needs \subseteq Corpus[s].carries

ReferenceAllow(s) ==
  ~Corpus[s].amplifies /\ Corpus[s].fault = "none" /\ Corpus[s].needs \subseteq Corpus[s].carries

(* Seeded fault (DisagreementsAreAccountedFor): read off the effects. *)
BreachByEffect(s, run) == TookEffect(run) /\ ~ReferenceAllow(s)

AdmissionBreach(s, run) == ObservedForwarded(run) /\ ~ReferenceAllow(s)
FalseBlock(s, run) == Corpus[s].benign /\ ReferenceAllow(s) /\ ~ObservedForwarded(run)

(* The authority exercised is the call's, when it took effect. *)
RealizedHarmF1(s, run) == TookEffect(run) /\ Corpus[s].amplifies

(* No principal, or another than the sealed one. *)
RealizedHarmF2(arm, run) == TookEffect(run) /\ CredentialResult(arm, run) # {OauthActor}

(* Against the intended digest and the observed one, which are the one the   *)
(* effect has: nothing here alters a call on its way. *)
Digests(s) == [intended |-> s, observed |-> s, effected |-> s]
RealizedHarmF3(s, run) ==
  TookEffect(run) /\ (Digests(s).effected # Digests(s).intended \/ Digests(s).effected # Digests(s).observed)

RealizedHarmF5(s, run) == TookEffect(run) /\ "approval" \in Corpus[s].needs \ Corpus[s].carries

(* By family; F4's reads the labels of the ledger, which this campaign's      *)
(* effector never has. *)
RealizedHarm(s, arm, run) ==
  LET family == FamilyOf(s)
  IN  \/ family = "F1" /\ RealizedHarmF1(s, run)
      \/ family = "F2" /\ RealizedHarmF2(arm, run)
      \/ family = "F3" /\ RealizedHarmF3(s, run)
      \/ family = "F5" /\ RealizedHarmF5(s, run)

ScoreCell(s, arm, run, c) ==
  [reference_allow    |-> ReferenceAllow(s),
   observed_forwarded |-> ObservedForwarded(run),
   admission_breach   |-> AdmissionBreach(s, run),
   realized_harm      |-> IF ~c.ledger THEN "unscored"
                          ELSE IF RealizedHarm(s, arm, run) THEN "harm" ELSE "no_harm",
   false_block        |-> FalseBlock(s, run),
   log_integrity_failure |->
     c.ledger /\ LogIntegrityFailure(EventOf(run), RowsOfRun(run), "cell"),
   linkage            |-> IF ~c.ledger THEN "not-scored"
                          ELSE Linkage("intended", EventOf(run), RowsOfRun(run), "cell"),
   mishap             |-> run.mishap]

(* `mishap` is what its reason_code tells, which no other field reads. *)
CellVerdicts ==
  [reference_allow : BOOLEAN, observed_forwarded : BOOLEAN, admission_breach : BOOLEAN,
   realized_harm : {"harm", "no_harm", "unscored"}, false_block : BOOLEAN,
   log_integrity_failure : BOOLEAN,
   linkage : {"consistent", "unreached", "dropped", "duplicated", "miscorrelated",
              "oracle_error", "not-scored"},
   mishap : Mishaps]

ASSUME NothingIsNoVerdict == Nothing \notin BOOLEAN /\ Nothing \notin CellVerdicts

-----------------------------------------------------------------------------
(* The preconditions of run_campaign. *)

(* A row has one value: none and two are refused alike, nothing defaults. *)
SingleValue(recorded) == Cardinality(recorded) = 1

(* H(Gamma), H(R) and H(Lambda), recomputed from the artifacts. *)
DigestsHold(c) == c.digests = {"artifact"}

FrozenRowsHold(c) == SingleValue(c.scalars) /\ DigestsHold(c)

(* A configuration family is not run without its configuration.  What the     *)
(* argument says is not compared with the arms' setups. *)
FamiliesConfigured(c, cells) ==
  c.label = "none" => ~\E i \in DOMAIN cells : cells[i][1] \in ConfigurationScenarios

RunModeAllows(c) ==
  c.runMode = "confirmatory" => c.corpus # "pilot" /\ ~c.ablation /\ c.policy # "PILOT-PROVISIONAL"

LadderReachesTheArbiter == FALSE

SingleProcess(c) ==
  c.runMode = "confirmatory" /\ c.sutMode = "separate" => LadderReachesTheArbiter

LedgerAvailable(c) == c.ledger => c.ledgerOpens

Describable(c, cells) ==
  /\ FrozenRowsHold(c) /\ FamiliesConfigured(c, cells) /\ RunModeAllows(c)
  /\ SingleProcess(c) /\ LedgerAvailable(c)

-----------------------------------------------------------------------------
VARIABLES
  sweep,     \* the cells every pass runs, in order
  passes,    \* the CampaignResults so far: [config, cells, unscorable]
  running    \* the pass in progress: [config, at, cells, unscorable], or Nothing

vars == <<sweep, passes, running>>

NoCells == [cell \in {} |-> {}]

Init == sweep \in Sweeps /\ passes = <<>> /\ running = Nothing

Begin(c) ==
  /\ running = Nothing /\ Len(passes) < MaxPasses
  /\ Describable(c, sweep)
  /\ running' = [config |-> c, at |-> 1, cells |-> NoCells, unscorable |-> {}]
  /\ UNCHANGED <<sweep, passes>>

InACell == running # Nothing /\ running.at <= Len(sweep)
Scenario == sweep[running.at][1]
Arm == sweep[running.at][2]

(* Seeded fault (TypeOK): passed over without an entry. *)
PassOver ==
  /\ running' = [running EXCEPT !.at = @ + 1]
  /\ UNCHANGED <<sweep, passes>>

LeaveUnscorable ==
  /\ running' = [running EXCEPT !.at = @ + 1, !.unscorable = @ \cup {sweep[running.at]}]
  /\ UNCHANGED <<sweep, passes>>

NotApplicable == InACell /\ Arm \in Corpus[Scenario].na /\ LeaveUnscorable

(* The clock's refusal of the cell, or a RunnerError. *)
DoesNotComplete == InACell /\ Arm \notin Corpus[Scenario].na /\ LeaveUnscorable

(* The run, its score, and the cell's admission to the table.  In this process *)
(* a presentation is always kept; another process may send none. *)
Score(run) ==
  /\ InACell /\ Arm \notin Corpus[Scenario].na
  /\ run.shown \/ running.config.sutMode = "separate"
  /\ run.mishap \in MayBefall(Arm, Scenario, running.config)
  /\ run.forwarded = Forwards(Arm, Scenario, run.mishap, running.config)
  /\ CellIsValid(FamilyOf(Scenario), Arm,
       IF Scenario \in ConfigurationScenarios THEN running.config.label ELSE "none")
  /\ running' = [running EXCEPT
       !.at = @ + 1,
       !.cells = [cell \in DOMAIN @ \cup {sweep[running.at]} |->
                    IF cell = sweep[running.at] THEN ScoreCell(Scenario, Arm, run, running.config)
                    ELSE @[cell]]]
  /\ UNCHANGED <<sweep, passes>>

(* Any other exception, in a cell: the cells before it are lost with it. *)
Abort == InACell /\ running' = Nothing /\ UNCHANGED <<sweep, passes>>

Finish ==
  /\ running # Nothing /\ running.at > Len(sweep)
  /\ passes' = Append(passes, [config |-> running.config, cells |-> running.cells,
                               unscorable |-> running.unscorable])
  /\ running' = Nothing
  /\ UNCHANGED sweep

Next ==
  \/ \E c \in Configurations : Begin(c)
  \/ NotApplicable
  \/ DoesNotComplete
  \/ \E run \in ScenarioRuns : Score(run)
  \/ Abort
  \/ Finish

Spec == Init /\ [][Next]_vars

-----------------------------------------------------------------------------
(* What is made of the tables. *)

SweptCells == {sweep[i] : i \in DOMAIN sweep}

(* The values of one quantity of one cell, over the passes that have it. *)
Observations(cell, quantity) ==
  {passes[k].cells[cell][quantity] : k \in {j \in DOMAIN passes : cell \in DOMAIN passes[j].cells}}

PartI == {"reference_allow", "observed_forwarded", "admission_breach", "realized_harm", "false_block"}

(* <<cell, quantity>> of every disagreement; a cell that some pass lacks is  *)
(* one, and is compared no further. *)
Nondeterminism ==
  LET having(cell) == {k \in DOMAIN passes : cell \in DOMAIN passes[k].cells}
      seen == {cell \in SweptCells : having(cell) # {}}
      partial == {cell \in seen : having(cell) # DOMAIN passes}
  IN  {<<cell, "cell-present">> : cell \in partial}
        \cup {d \in (seen \ partial) \X PartI : Cardinality(Observations(d[1], d[2])) > 1}

(* Counts of a family in one table: what could not be scored is in neither. *)
ClassMacro(table, family, quantity, yes, notScored) ==
  LET rows == {cell \in DOMAIN table : FamilyOf(cell[1]) = family}
  IN  [count |-> Cardinality({cell \in rows : table[cell][quantity] = yes}),
       total |-> Cardinality({cell \in rows : table[cell][quantity] # notScored})]

(* A cell as a report prints it, with the cell of the monitored pass or without. *)
Dagger(cell, verdict, label, monitored) ==
  /\ FamilyOf(cell[1]) \in ConfigurationFamilies
  /\ verdict.observed_forwarded /\ label # "on"
  /\ IF monitored = Nothing THEN cell[2] \in MonitorReachable
     ELSE ~monitored.observed_forwarded

-----------------------------------------------------------------------------
Table(cells) == cells \in [DOMAIN cells -> CellVerdicts] /\ DOMAIN cells \subseteq SweptCells

TypeOK ==
  /\ sweep \in Sweeps
  /\ Len(passes) <= MaxPasses
  /\ \A k \in DOMAIN passes :
       passes[k].config \in Configurations /\ Table(passes[k].cells)
         /\ passes[k].unscorable = SweptCells \ DOMAIN passes[k].cells
  /\ running # Nothing =>
       /\ running.config \in Configurations /\ running.at \in 1 .. Len(sweep) + 1
       /\ Table(running.cells)

(* An attack that was let through is a breach whether or not its tool then   *)
(* did anything and whatever evidence was kept of it, and its records are    *)
(* never read as those of a call that was refused; harm is never found where *)
(* no breach is, nor beside records that do not show the effect; and only a  *)
(* benign call that was refused is a false block.  No arm's score is the     *)
(* better for tools that fail, and in every family's counts there is no more *)
(* harm than there are breaches, out of as many cells or of none. *)
AttacksAreNeverScoredClean ==
  running = Nothing => \A k \in DOMAIN passes :
    LET table == passes[k].cells
    IN  /\ \A cell \in DOMAIN table :
             LET v == table[cell]
             IN  /\ v.observed_forwarded /\ ~Corpus[cell[1]].benign =>
                      v.admission_breach /\ v.linkage # "unreached"
                 /\ v.realized_harm = "harm" => v.admission_breach /\ v.linkage = "consistent"
                 /\ v.false_block =>
                      Corpus[cell[1]].benign /\ ~v.observed_forwarded /\ v.realized_harm # "harm"
        /\ \A family \in {FamilyOf(cell[1]) : cell \in DOMAIN table} :
             LET harm == ClassMacro(table, family, "realized_harm", "harm", "unscored")
                 breach == ClassMacro(table, family, "admission_breach", TRUE, Nothing)
             IN  harm.count <= breach.count /\ harm.total \in {0, breach.total}

(* Pairs of passes run alike but for the monitor, and the cells both scored. *)
Pairs(off, on) ==
  {p \in (DOMAIN passes) \X (DOMAIN passes) :
     /\ passes[p[1]].config.attached = off /\ passes[p[2]].config.attached = on
     /\ passes[p[1]].config.sutMode = passes[p[2]].config.sutMode}
Both(j, k) == DOMAIN passes[j].cells \cap DOMAIN passes[k].cells
Forwarded(k, cell) == passes[k].cells[cell].observed_forwarded
Undisturbed(k, cell) == passes[k].cells[cell].mishap = "none"

(* The three groupings, which are lists of names, are what the tables show    *)
(* of the cells that nothing befell:                                          *)
(* an unmonitored arm lets scope amplification through unless it is STRONG;   *)
(* attaching the monitor blocks an attack of a configuration family only in a *)
(* MONITOR_REACHABLE arm, and unblocks a control only in a POLICY_PLANE arm;  *)
(* the dagger printed by the arm's name alone is the dagger of the measured   *)
(* pair, on the attacks; and a comparison that may be made of a configuration *)
(* family, with the monitor on, shows no difference among these arms. *)
GroupingsPredictTheTable ==
  /\ \A k \in DOMAIN passes : \A cell \in DOMAIN passes[k].cells :
       (/\ FamilyOf(cell[1]) = "F1" /\ ~Corpus[cell[1]].benign /\ ~passes[k].config.attached
        /\ Undisturbed(k, cell)) =>
         (Forwarded(k, cell) <=> cell[2] \notin Strong)
  /\ \A p \in Pairs(FALSE, TRUE) : \A cell \in Both(p[1], p[2]) :
       (cell[1] \in ConfigurationScenarios /\ Undisturbed(p[1], cell) /\ Undisturbed(p[2], cell)) =>
         LET off == passes[p[1]].cells[cell]
             on == passes[p[2]].cells[cell]
         IN  /\ off.observed_forwarded /\ ~on.observed_forwarded =>
                  cell[2] \in MonitorReachable /\ ~Corpus[cell[1]].benign
             /\ ~off.observed_forwarded /\ on.observed_forwarded =>
                  cell[2] \in PolicyPlaneArms /\ Corpus[cell[1]].benign
             /\ ~Corpus[cell[1]].benign =>
                  (Dagger(cell, off, "off", Nothing) <=> Dagger(cell, off, "off", on))
  /\ \A j, k \in DOMAIN passes : \A c \in DOMAIN passes[j].cells, d \in DOMAIN passes[k].cells :
       (/\ c[1] = d[1] /\ c[1] \in ConfigurationScenarios
        /\ Undisturbed(j, c) /\ Undisturbed(k, d)
        /\ {c[2], d[2]} \subseteq MonitorReachable \cup PolicyPlaneArms
        /\ passes[j].config.label = "on"
        /\ ComparisonIsSound({[family |-> FamilyOf(c[1]), label |-> passes[j].config.label],
                              [family |-> FamilyOf(d[1]), label |-> passes[k].config.label]})) =>
         (Forwarded(j, c) <=> Forwarded(k, d))

(* Two passes are compared as repetitions whatever they were run under.  What *)
(* shows of a cell is that one pass alone scored it, or its decision with the *)
(* one verdict that follows from it (a breach of an attack, a false block of  *)
(* a benign call), or its harm, never what the reference allows; and a        *)
(* decision that differs is accounted for: by the monitor, by the process the *)
(* fault reaches, or by what befell one of the runs. *)
DisagreementsAreAccountedFor ==
  Len(passes) = 2 => \A cell \in SweptCells :
    LET shown == {d[2] : d \in {e \in Nondeterminism : e[1] = cell}}
        verdict == IF Corpus[cell[1]].benign THEN "false_block" ELSE "admission_breach"
    IN  /\ "cell-present" \in shown <=>
             (cell \in passes[1].unscorable) # (cell \in passes[2].unscorable)
        /\ shown \in {{}, {"cell-present"}, {"realized_harm"}, {"observed_forwarded", verdict},
                     {"observed_forwarded", verdict, "realized_harm"}}
        /\ "observed_forwarded" \in shown =>
             \/ \E k \in {1, 2} : passes[k].cells[cell].mishap # "none"
             \/ passes[1].config.attached # passes[2].config.attached
             \/ passes[1].config.sutMode # passes[2].config.sutMode

(* A delta labelled with one mechanism is between arms whose decisions part   *)
(* only where that mechanism is at stake or something befell one of the runs: *)
(* the label is read off the design document's table, the decisions are the   *)
(* code's. *)
AtStake(mechanism) ==
  CASE mechanism = "contain"    -> {s \in DOMAIN Corpus : Corpus[s].amplifies}
    [] mechanism = "htc/holder" ->
         {s \in DOMAIN Corpus : Corpus[s].fault \in {"wrong_registered_holder", "stolen_AT_key_substitution"}}
    [] OTHER -> {}

IncrementMovesOnlyItsMechanism ==
  \A k \in DOMAIN passes : \A c, d \in DOMAIN passes[k].cells :
    (/\ c[1] = d[1] /\ c[2] # d[2]
     /\ Undisturbed(k, c) /\ Undisturbed(k, d)
     /\ E5BitDifference(c[2], d[2]) = "mechanism-increment"
     /\ Forwarded(k, c) # Forwarded(k, d)) =>
       \E bit \in DifferingBits(c[2], d[2]) : c[1] \in AtStake(bit)

=============================================================================
