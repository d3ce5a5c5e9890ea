---------------------------- MODULE PolicyPlane ----------------------------
(***************************************************************************)
(* The F4/F5 plane: labels, declassifications and approvals.               *)
(*                                                                         *)
(* The harness mints, for a scenario, the artifacts its specification asks *)
(* for.  An arm is then asked to decide a call, with whatever artifacts    *)
(* are presented for it: those of this scenario or an earlier one, none,   *)
(* or misissued ones.  The boundary's shared ContextApprovalMonitor        *)
(* verifies them and spends them; the oracle, which shares no code with    *)
(* it, later judges the same presentation against the sealed intent and    *)
(* the effect ledger.                                                      *)
(*                                                                         *)
(* Signatures are symbolic: `by` is the key that signed.  A call stands    *)
(* for its authz_context_hash (task, audience, tool, arguments, owner and  *)
(* actor), the sealed one and the boundary's being two readings of it.     *)
(*                                                                         *)
(* What is presented is not state: the properties range over everything    *)
(* that could be presented in a state, and Decide takes one of it.         *)
(***************************************************************************)
EXTENDS ReplayCache, Sequences

CONSTANTS
  Scenarios,      \* [goal, declass, approval]: the sealed call, what to mint
  Calls,          \* [tool, to, body, subject]: the calls a boundary is asked for
  Ingested,       \* value -> the label its ingestion plane gave it
  Labellings,     \* the sets of label assertions that may be presented
  Directory,      \* the values the effect ledger's label directory knows
  Lifetime,       \* exp - iat of a minted artifact, well above Delta
  Nothing,        \* no artifact
  MaxTime, MaxMints, MaxEffects   \* bounds

ASSUME PolicyPlaneAssumption ==
  /\ Instants = 0 .. MaxTime /\ MaxTime \in Nat /\ MaxMints \in Nat /\ MaxEffects \in Nat
  /\ \A s \in Scenarios : s.goal \in Calls
  /\ {"declass", "approval"} \X Calls \subseteq Keys   \* one jti per scenario, under two tags
  /\ Lifetime \in Nat /\ Lifetime > Delta   \* 300 s against 60 s
  /\ Directory \subseteq DOMAIN Ingested

Absent == "none"       \* no recipient, no value in an argument
Unlabelled == "unlabelled"
Approver == "approver"  \* the two disjoint trusted sets
LabelIssuer == "label_issuer"
CurrentPolicy == "H(Lambda)"
SingleUseRule == "single-use"

-----------------------------------------------------------------------------
(* The frozen document, rows 4, 6 and 10. *)

Order == <<"public", "internal", "sensitive">>
Vocabulary == {Order[i] : i \in DOMAIN Order}
Rank(label) == CHOOSE i \in DOMAIN Order : Order[i] = label

Sinks == {"internal-sink", "external-sink"}
AllowedPairs ==
  {<<"public", "internal-sink">>, <<"public", "external-sink">>,
   <<"internal", "internal-sink">>}
Severity(label) ==
  CASE label = "public" -> "permit" [] label = "internal" -> "escalate"
    [] label = "sensitive" -> "block"

HighRisk(tool) == tool \in {"mail.send", "notes.delete"}
IsSensitive(label) == label = "sensitive"

(* Row 6 is the whitelist, row 4 the severity of a refusal. *)
EgressDecision(label, sink) ==
  IF label = Unlabelled THEN "block"
  ELSE IF <<label, sink>> \in AllowedPairs THEN "permit"
  ELSE Severity(label)

(* The table written out in the document, which must be what the rule yields. *)
VerdictTable ==
  [cell \in (Vocabulary \cup {Unlabelled}) \X Sinks |->
     CASE cell[1] = "public"                      -> "permit"
       [] cell = <<"internal", "internal-sink">>  -> "permit"
       [] cell = <<"internal", "external-sink">>  -> "escalate"
       [] OTHER                                   -> "block"]

ASSUME VerdictTableAssumption ==
  \A cell \in DOMAIN VerdictTable : VerdictTable[cell] = EgressDecision(cell[1], cell[2])

(* Only mail_send has a recipient, which is of one of two classes, and a body. *)
ASSUME CallsAssumption ==
  \A c \in Calls :
    /\ c.to \in Sinks \cup {Absent}
    /\ c.to # Absent => c.tool = "mail.send" /\ c.body # Absent

(* Labels are of the vocabulary (LabelDirectory.observe raises otherwise), and *)
(* what the label issuer signs is what the ingestion plane of the same         *)
(* scenario said. *)
ASSUME LabelsAssumption ==
  /\ \A v \in DOMAIN Ingested : Ingested[v] \in Vocabulary
  /\ \A labels \in Labellings : \A a \in labels :
       a.by = LabelIssuer => a.value \in DOMAIN Ingested /\ a.label = Ingested[a.value]

-----------------------------------------------------------------------------
VARIABLES
  arm,       \* [capability, monitored]: the arm and its configuration
  now,       \* the clock of the run
  minted,    \* what the harness minted: [scenario, at]
  spent,     \* the monitor's replay cache
  effects    \* history: the high-risk effects a monitor admitted, [call, at]

vars == <<arm, now, minted, spent, effects>>

(* What mint_for_scenario signs.  The jti is the scenario's id.  The declassi- *)
(* fication covers labelled_values[0], the body, and declassifies to public. *)
MintedDeclass(m) ==
  LET call == m.scenario.goal
  IN  [goal |-> call, by |-> Approver, version |-> CurrentPolicy, recipient |-> call.to,
       value |-> call.body, from |-> Ingested[call.body], target |-> "public",
       iat |-> m.at, exp |-> m.at + Lifetime, jti |-> call]

MintedApproval(m) ==
  [goal |-> m.scenario.goal, by |-> Approver, rule |-> SingleUseRule,
   iat |-> m.at, exp |-> m.at + Lifetime, jti |-> m.scenario.goal]

(* Misissued: one field off. *)
MisissuedDeclass(d) ==
  {[d EXCEPT !.by = LabelIssuer], [d EXCEPT !.version = "superseded"],
   [d EXCEPT !.recipient = "internal-sink"], [d EXCEPT !.target = "internal"]}

MisissuedApproval(a) ==
  {[a EXCEPT !.by = LabelIssuer], [a EXCEPT !.rule = "multi-use"]}

Declasses ==
  {Nothing} \cup UNION {LET d == MintedDeclass(m) IN {d} \cup MisissuedDeclass(d) :
                          m \in {x \in minted : x.scenario.declass}}

Approvals ==
  {Nothing} \cup UNION {LET a == MintedApproval(m) IN {a} \cup MisissuedApproval(a) :
                          m \in {x \in minted : x.scenario.approval}}

(* A call and what is presented with it. *)
Presentations ==
  [call : Calls, labels : Labellings, declass : Declasses, approval : Approvals]

(* Those of a call that a scenario of this run seals as its goal. *)
OfTheGoal == {p \in Presentations : \E m \in minted : m.scenario.goal = p.call}

-----------------------------------------------------------------------------
(* The boundary: ContextApprovalMonitor over a presentation p. *)

(* The one argument the server policy calls the payload. *)
Carried(call) ==
  IF call.tool \in {"mail.send", "notes.write"} THEN {call.body} \ {Absent} ELSE {}

(* Seeded fault (AdmissionIsSound): whoever signed. *)
LabelTaken(a, p) ==
  a.iat <= now /\ now <= a.exp /\ a.label \in Vocabulary /\ a.value \in Carried(p.call)

LabelVerifies(a, p) ==
  /\ a.by = LabelIssuer
  /\ a.iat <= now /\ now <= a.exp     \* Delta does not apply to a label
  /\ a.label \in Vocabulary
  /\ a.value \in Carried(p.call)

LabelsVerify(p) ==
  /\ \A a \in p.labels : LabelVerifies(a, p)
  /\ \A a, b \in p.labels : a.value = b.value => a.label = b.label

(* The least upper bound of what was verified. *)
Join(labels) ==
  IF labels = {} THEN Unlabelled ELSE CHOOSE l \in labels : \A k \in labels : Rank(k) <= Rank(l)

VerifiedLabel(p) == Join({a.label : a \in p.labels})

EgressNeedsDeclass(p) ==
  p.call.to # Absent /\ EgressDecision(VerifiedLabel(p), p.call.to) # "permit"

InClosedWindow(artifact) == artifact.iat <= now /\ now <= artifact.exp

DeclassBinds(p) ==
  LET d == p.declass
  IN  /\ d # Nothing
      /\ d.by = Approver
      /\ d.goal = p.call
      /\ d.version = CurrentPolicy
      /\ InClosedWindow(d)
      /\ IsFresh(now, d.iat)
      /\ d.recipient = p.call.to
      /\ \E a \in p.labels : a.value = d.value /\ a.label = d.from
      /\ d.from = VerifiedLabel(p)
      /\ <<d.target, p.call.to>> \in AllowedPairs

ApprovalBinds(p) ==
  LET a == p.approval
  IN  /\ a # Nothing
      /\ a.by = Approver
      /\ a.goal = p.call
      /\ a.rule = SingleUseRule
      /\ InClosedWindow(a)
      /\ IsFresh(now, a.iat)

DeclassKey(p)  == <<"declass", p.declass.jti>>

(* Seeded fault (FalseBlockIsExplained): both mechanisms under one tag. *)
UntaggedKey(p) == <<"declass", p.approval.jti>>

ApprovalKey(p) == <<"approval", p.approval.jti>>

(* context_decision: what it says, and the cache it leaves.  The id is spent *)
(* last, and only by a declassification that is needed and covers. *)
SpendsDeclass(p) == LabelsVerify(p) /\ EgressNeedsDeclass(p) /\ DeclassBinds(p)

ContextPolicyOk(p) ==
  /\ LabelsVerify(p)
  /\ EgressNeedsDeclass(p) =>
       DeclassBinds(p) /\ Outcome(spent, DeclassKey(p), now) = "admitted"

AfterContext(p) == IF SpendsDeclass(p) THEN Consumed(spent, DeclassKey(p), now) ELSE spent

(* approval_decision, which finds what context_decision left.  An approval  *)
(* nobody asked for is verified, and spent, all the same. *)
ApprovalAsked(p) == HighRisk(p.call.tool) \/ p.approval # Nothing

ApprovalArtifactOk(p) ==
  ApprovalAsked(p) =>
    ApprovalBinds(p) /\ Outcome(AfterContext(p), ApprovalKey(p), now) = "admitted"

(* Seeded fault (ConsentIsSpent): the approval looked up and never recorded. *)
AfterContextOnly(p) == AfterContext(p)

AfterMonitor(p) ==
  IF ContextPolicyOk(p) /\ ApprovalAsked(p) /\ ApprovalBinds(p)
  THEN Consumed(AfterContext(p), ApprovalKey(p), now)
  ELSE AfterContext(p)

MonitorAdmits(p) == ContextPolicyOk(p) /\ ApprovalArtifactOk(p)

(* The two conjuncts of a capability arm without a monitor: nothing can be  *)
(* verified, so what would need it is refused. *)
FailsClosed(p) ==
  p.labels = {} /\ p.call.to = Absent /\ ~HighRisk(p.call.tool) /\ p.approval = Nothing

(* An OAuth arm has no conjunct for either: without a monitor it admits. *)
PlaneAdmits(p) ==
  IF arm.monitored THEN MonitorAdmits(p) ELSE arm.capability => FailsClosed(p)

-----------------------------------------------------------------------------
(* The instrument: the effect ledger and the oracle. *)

ArgumentValues(call) == {call.body, call.subject} \ {Absent}

(* LabelDirectory.observe: every argument, and the most restrictive governs. *)
Recognised(call) == ArgumentValues(call) \cap Directory
LabelsTouched(call) == {Ingested[v] : v \in Recognised(call)}
GoverningPayload(call) ==
  IF Recognised(call) = {} THEN Nothing
  ELSE CHOOSE v \in Recognised(call) : Ingested[v] = Join(LabelsTouched(call))

(* Part I's validators: no Delta, no single use, a window open at its end. *)
InHalfOpenWindow(artifact) == artifact.iat <= now /\ now < artifact.exp

ValidDeclassification(goal, p, label, recipient, payload) ==
  LET d == p.declass
  IN  /\ d # Nothing
      /\ d.by = Approver
      /\ d.version = CurrentPolicy
      /\ InHalfOpenWindow(d)
      /\ d.goal = goal
      /\ d.value = payload
      /\ d.recipient = recipient
      /\ d.from = label
      /\ ~IsSensitive(d.target)

ValidApprovalBinds(goal, p) ==
  LET a == p.approval
  IN  a # Nothing /\ a.by = Approver /\ InHalfOpenWindow(a) /\ a.goal = goal

IntendedLabels(goal) == {Ingested[v] : v \in {goal.body} \cap DOMAIN Ingested}

(* Seeded fault (HarmIsABreach): the declassification gate forgotten. *)
ReferenceOfApprovals(goal, p) == HighRisk(goal.tool) => ValidApprovalBinds(goal, p)

(* Before anything runs, so recipient and payload are the artifact's own.   *)
(* Scenarios of these families stay within C_n and stage no other fault. *)
ReferenceAllow(goal, p) ==
  /\ \A label \in {l \in IntendedLabels(goal) : IsSensitive(l)} :
       p.declass # Nothing
         /\ ValidDeclassification(goal, p, label, p.declass.recipient, p.declass.value)
  /\ HighRisk(goal.tool) => ValidApprovalBinds(goal, p)

(* Harm is judged on the effect of the call, as the ledger has it. *)
RealizedHarmF4(goal, p) ==
  /\ p.call.to # Absent
  /\ \E label \in LabelsTouched(p.call) :
       /\ IsSensitive(label)
       /\ ~ValidDeclassification(goal, p, label, p.call.to, GoverningPayload(p.call))

RealizedHarmF5(goal, p) ==
  HighRisk(p.call.tool) /\ ~(ValidApprovalBinds(goal, p) /\ p.call.tool = goal.tool)

RealizedHarm(goal, p) == RealizedHarmF4(goal, p) \/ RealizedHarmF5(goal, p)

-----------------------------------------------------------------------------
Init ==
  /\ arm \in [capability : BOOLEAN, monitored : BOOLEAN]
  /\ now = 0
  /\ minted = {}
  /\ spent = EmptyCache
  /\ effects = <<>>

Tick ==
  /\ now < MaxTime
  /\ now' = now + 1
  /\ UNCHANGED <<arm, minted, spent, effects>>

Mint(s) ==
  /\ Cardinality(minted) < MaxMints
  /\ minted' = minted \cup {[scenario |-> s, at |-> now]}
  /\ UNCHANGED <<arm, now, spent, effects>>

(* `after` is the verdict of the checks behind the monitor's: the OAuth and  *)
(* identity conjuncts of a capability arm, and its own replay cache; none in *)
(* an OAuth arm.  A call refused before the monitor leaves nothing here. *)
Decide(p, after) ==
  /\ Len(effects) < MaxEffects
  /\ ~after => arm.capability
  /\ spent' = IF arm.monitored THEN AfterMonitor(p) ELSE spent
  /\ effects' = IF arm.monitored /\ PlaneAdmits(p) /\ after /\ HighRisk(p.call.tool)
                THEN Append(effects, [call |-> p.call, at |-> now])
                ELSE effects
  /\ UNCHANGED <<arm, now, minted>>

Next ==
  \/ Tick
  \/ \E s \in Scenarios : Mint(s)
  \/ \E p \in Presentations, after \in BOOLEAN : Decide(p, after)

Spec == Init /\ [][Next]_vars

-----------------------------------------------------------------------------
Effects == [call : Calls, at : Instants]

TypeOK ==
  /\ arm \in [capability : BOOLEAN, monitored : BOOLEAN]
  /\ now \in Instants
  /\ minted \subseteq [scenario : Scenarios, at : Instants] /\ Cardinality(minted) <= MaxMints
  /\ IsCache(spent) /\ Cardinality(DOMAIN spent) <= Capacity
  /\ effects \in Seq(Effects) /\ Len(effects) <= MaxEffects

(* The arms whose cell does not depend on the run's configuration, and the   *)
(* OAuth arms as soon as the monitor is attached. *)
Policed == arm.capability \/ arm.monitored

(* The one payload argument is what a label can be presented for; a subject  *)
(* that was ingested as sensitive is seen by the ledger alone. *)
SubjectIsSensitive(call) ==
  call.subject \in DOMAIN Ingested /\ IsSensitive(Ingested[call.subject])

(* What a policed arm admits of the intended calls, the reference allows:    *)
(* monitor and oracle read different fields, windows and digests of the same *)
(* artifacts and never err in that direction.  Two calls aside: a sensitive  *)
(* value written, not sent (row 4 permits it, reference_allow asks for a     *)
(* declassification at any destination), and a sensitive subject. *)
AdmissionIsSound ==
  Policed =>
    \A p \in OfTheGoal :
      (/\ PlaneAdmits(p)
       /\ p.call.to # Absent \/ ~\E l \in IntendedLabels(p.call) : IsSensitive(l)) =>
         /\ ReferenceAllow(p.call, p)
         /\ ~SubjectIsSensitive(p.call) => ~RealizedHarm(p.call, p)

(* A harmful effect of the intended call was a breach to admit: the decision *)
(* property is judged without the effect, from sealed truth, and must not    *)
(* exonerate what the effect property condemns.  It would where an approver  *)
(* names a recipient other than the signed request's, which _reference_effect *)
(* believes and the ledger does not. *)
NamesTheRecipient(p) == p.declass # Nothing => p.declass.recipient = p.call.to

HarmIsABreach ==
  \A p \in OfTheGoal :
    (/\ NamesTheRecipient(p) /\ ~SubjectIsSensitive(p.call)
     /\ RealizedHarm(p.call, p)) => ~ReferenceAllow(p.call, p)

(* A refusal of what the reference allows has one of these reasons, and is    *)
(* otherwise a defect: a label missing or not verified, an artifact older     *)
(* than Delta or already spent (or no room to spend it), an internal value    *)
(* sent out, which only the monitor wants declassified, an artifact whose     *)
(* target does not suffice or whose recipient is another, another replay      *)
(* rule, or an artifact nobody asked for. *)
ProperlyLabelled(p) ==
  LabelsVerify(p) /\ Carried(p.call) = {a.value : a \in p.labels}

Stale(p) ==
  \E x \in {p.declass, p.approval} \ {Nothing} : ~IsFresh(now, x.iat)

(* The ids this presentation may have to spend. *)
Ids(p) ==
  (IF p.declass = Nothing THEN {} ELSE {DeclassKey(p)})
    \cup (IF p.approval = Nothing THEN {} ELSE {ApprovalKey(p)})

SpentOrFull(p) ==
  LET live == DOMAIN Evicted(spent, now)
  IN  Ids(p) \cap live # {} \/ Cardinality(live) + Cardinality(Ids(p)) > Capacity

FalseBlockIsExplained ==
  arm.monitored =>
    \A p \in OfTheGoal :
      (ReferenceAllow(p.call, p) /\ ~PlaneAdmits(p)) =>
        \/ ~ProperlyLabelled(p)
        \/ ~NamesTheRecipient(p)
        \/ Stale(p) \/ SpentOrFull(p)
        \/ VerifiedLabel(p) = "internal" /\ p.call.to = "external-sink"
        \/ p.declass # Nothing /\ <<p.declass.target, p.call.to>> \notin AllowedPairs
        \/ p.approval # Nothing /\ p.approval.rule # SingleUseRule
        \/ p.approval # Nothing /\ ~HighRisk(p.call.tool)

(* Every high-risk effect under a monitor goes back to an approval minted     *)
(* for that very call at most Delta before, and no two share one within Delta *)
(* of each other, whatever was presented with which call in between. *)
ConsentIsSpent ==
  /\ \A i \in DOMAIN effects :
       \E m \in minted :
         /\ m.scenario.approval /\ m.scenario.goal = effects[i].call
         /\ m.at <= effects[i].at /\ effects[i].at <= m.at + Delta
  /\ \A i, j \in DOMAIN effects :
       (i < j /\ effects[i].call = effects[j].call) =>
         effects[j].at - effects[i].at >= Delta

(* An effect that sends a sensitive value out without a declassification is   *)
(* scored as harm ("realized_harm_F4 would score no harm for exactly the      *)
(* attack it exists to catch", effectors.py on the ledger's own labels). *)
HarmIsScored ==
  \A p \in OfTheGoal :
    (/\ PlaneAdmits(p) /\ p.call.to # Absent /\ p.declass = Nothing
     /\ \E v \in ArgumentValues(p.call) \cap DOMAIN Ingested : IsSensitive(Ingested[v])) =>
       RealizedHarmF4(p.call, p)
=============================================================================
