----------------------------- MODULE MCCampaign -----------------------------
(***************************************************************************)
(* The three parts of the campaign side that run without one another: a    *)
(* pass against the clocks (CampaignClock), the tables of two passes       *)
(* (CampaignTable), and a measurement (LatencyMeasurement).  They share no *)
(* state; a behaviour is one of one part, with the others where they start.*)
(***************************************************************************)
EXTENDS CampaignClock, CampaignTable, LatencyMeasurement, TLC

-----------------------------------------------------------------------------
(* One cell of each kind of arm and one that does not apply, the OAuth and *)
(* capability ones with artifacts.  The start-up token lives for four      *)
(* instants of a pass that may take five; freshness lasts two.             *)

MCCell(kind, artifacts) == [kind |-> kind, artifacts |-> artifacts, applicable |-> TRUE]

MCCells ==
  <<MCCell("plain", FALSE), [MCCell("bearer", FALSE) EXCEPT !.applicable = FALSE],
    MCCell("bearer", TRUE), MCCell("capability", TRUE), MCCell("forwards", FALSE),
    MCCell("exchanges", TRUE), MCCell("dpop", FALSE)>>

MCPins == {None, 0}

-----------------------------------------------------------------------------
(* The pilot corpus, the arms and the pairs of them a reader would         *)
(* compare, and calls of run_campaign that its preconditions accept or     *)
(* refuse.  Two passes run one scenario over one arm or over a pair that a *)
(* monitor divides; one pass runs it over a pair a mechanism divides.      *)

Attack(subcase, fault, amplifies, na) ==
  [subcase |-> subcase, benign |-> FALSE, fault |-> fault, amplifies |-> amplifies,
   needs |-> {}, carries |-> {}, na |-> na]

Gated(subcase, benign, needs, carries) ==
  [subcase |-> subcase, benign |-> benign, fault |-> "none", amplifies |-> FALSE,
   needs |-> needs, carries |-> carries, na |-> {}]

NoChain == {"B0", "B1", "B2-broad-noexchange", "B2-exchange-broad"}
NoHolder == NoChain \cup {"B2-exchange-task", "B-cap"}

MCCorpus ==
  ("gt-benign" :> Gated(<<"benign", "golden-thread">>, TRUE, {}, {})) @@
  ("gt-f1-root" :> [Attack(<<"F1", "root">>, "none", TRUE, {}) EXCEPT !.needs = {"approval"}]) @@
  ("gt-f1-terminal" :> Attack(<<"F1", "terminal">>, "none", TRUE, {})) @@
  ("gt-f1-chain-tamper" :>
     [Attack(<<"F1", "chain-tamper">>, "none", TRUE, NoChain) EXCEPT !.needs = {"approval"}]) @@
  ("gt-f2-invalid-credential" :> Attack(<<"F2", "invalid">>, "invalid_credential", FALSE, {})) @@
  ("gt-f2-unauthenticated-caller" :>
     Attack(<<"F2", "unauthenticated">>, "unauthenticated_caller", FALSE, {})) @@
  ("gt-f2-wrong-holder-proof" :>
     Attack(<<"F2", "wrong_holder">>, "wrong_registered_holder", FALSE, NoHolder)) @@
  ("gt-f3-audience-mismatch" :> Attack(<<"F3", "audience">>, "audience_mismatch", FALSE, {})) @@
  ("gt-f3-stolen-at-key-substitution" :>
     Attack(<<"F3", "stolen-AT">>, "stolen_AT_key_substitution", FALSE, {})) @@
  ("gt-f4-declassified" :> Gated(<<"benign", "F4", "declassified">>, TRUE, Gates, Gates)) @@
  ("gt-f4-sensitive-egress" :> Gated(<<"F4", "egress">>, FALSE, Gates, {"approval"})) @@
  ("gt-f5-approved" :> Gated(<<"benign", "F5", "approved">>, TRUE, {"approval"}, {"approval"})) @@
  ("gt-f5-unapproved-high-risk" :> Gated(<<"F5", "forgery">>, FALSE, {"approval"}, {}))

Single(a) == {<<<<s, a>>>> : s \in DOMAIN MCCorpus}
PairOn(scenarios, a, b) == {<<<<s, a>>, <<s, b>>>> : s \in scenarios}
Pair(a, b) == PairOn(DOMAIN MCCorpus, a, b)

Gate == {s \in DOMAIN MCCorpus : MCCorpus[s].fault = "none" /\ ~MCCorpus[s].amplifies}
Holder ==
  {s \in DOMAIN MCCorpus : MCCorpus[s].fault \in {"wrong_registered_holder", "stolen_AT_key_substitution"}}

(* Every arm on every scenario, and the pairs whose cells some claim compares. *)
RepeatedSweeps ==
  UNION {Single(a) : a \in Arms} \cup PairOn(Gate, "B3", "B2-exchange-task-DPoP")
MCSweeps ==
  RepeatedSweeps \cup Pair("B2-exchange-broad", "B2-exchange-task")
    \cup Pair("B2-exchange-task", "B2-exchange-task-DPoP")
    \cup PairOn(Holder, "B2-exchange-broad", "B2-exchange-task-DPoP")
    \cup Pair("B3", "B3+")

Pilot ==
  [label |-> "on", attached |-> TRUE, sutMode |-> "in-process", runMode |-> "pilot",
   corpus |-> "pilot", ablation |-> FALSE, policy |-> "PILOT-PROVISIONAL",
   scalars |-> {60}, digests |-> {"artifact"}, ledger |-> TRUE, ledgerOpens |-> TRUE]

Confirmatory ==
  [Pilot EXCEPT !.runMode = "confirmatory", !.corpus = "confirmatory", !.policy = "sealed"]

MCConfigurations ==
  {Pilot,
   [Pilot EXCEPT !.label = "off", !.attached = FALSE],
   [Pilot EXCEPT !.ledger = FALSE, !.ledgerOpens = FALSE],
   [Pilot EXCEPT !.sutMode = "separate"],
   [Confirmatory EXCEPT !.label = "none", !.attached = FALSE],
   \* refused: a row unset or set twice, drift, a pilot corpus, an ablation or a provisional
   \* policy under the seal, two processes under it, a ledger that does not open
   [Pilot EXCEPT !.scalars = {}], [Pilot EXCEPT !.scalars = {60, 61}],
   [Pilot EXCEPT !.digests = {"another"}], [Pilot EXCEPT !.digests = {"artifact", "another"}],
   [Confirmatory EXCEPT !.corpus = "pilot"],
   [Confirmatory EXCEPT !.ablation = TRUE],
   [Confirmatory EXCEPT !.policy = "PILOT-PROVISIONAL"],
   [Confirmatory EXCEPT !.sutMode = "separate"],
   [Pilot EXCEPT !.ledgerOpens = FALSE]}

-----------------------------------------------------------------------------
VARIABLE part    \* which of them the behaviour is one of

campaignVars == <<part, clockVars, vars, handed>>

CampaignInit ==
  /\ part \in {"clock", "table", "measurement"}
  /\ ClockInit /\ Init /\ MeasurementInit
  /\ part # "clock" => pinned = None
  /\ part # "table" => sweep = CHOOSE cellsOfASweep \in MCSweeps : TRUE

CampaignNext ==
  \/ part = "clock" /\ ClockNext /\ UNCHANGED <<part, vars, handed>>
  \/ /\ part = "table" /\ (passes = <<>> \/ sweep \in RepeatedSweeps)
     /\ Next /\ UNCHANGED <<part, clockVars, handed>>
  \/ part = "measurement" /\ MeasurementNext /\ UNCHANGED <<part, clockVars, vars>>

CampaignSpec == CampaignInit /\ [][CampaignNext]_campaignVars
=============================================================================
