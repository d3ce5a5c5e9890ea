---------------------------- MODULE LatencySeries ----------------------------
(***************************************************************************)
(* The series of the pre-registered latency analysis: which samples a      *)
(* figure is taken over, what makes the analysis refuse, and what a delta  *)
(* between two arms may be attributed to.  No duration is modelled: a      *)
(* series is the set of repetitions it is taken over, and a sample has an  *)
(* arm, a scenario, a phase, a batch, a repetition and a span.             *)
(***************************************************************************)
EXTENDS Integers, Sequences, FiniteSets

Phases == {"cold", "warm"}
Rq4Spans == {"setup", "delegation", "presentation", "boundary_verification", "end_to_end"}
MeasuredSegmentSpans == {"presentation", "boundary_verification"}
RefusalPath == "gt-f1-chain-tamper"

(* A repetition of one arm in one phase. *)
Repetition(x) == <<x.scenario, x.batch, x.repetition>>
SameGroup(x, y) ==
  x.arm = y.arm /\ x.scenario = y.scenario /\ x.phase = y.phase /\ x.batch = y.batch

(* The first perBatch repetitions of a group, by index among those present. *)
DiscardWarmup(samples, perBatch) ==
  {x \in samples :
     Cardinality({y.repetition : y \in {z \in samples : SameGroup(x, z) /\ z.repetition < x.repetition}})
       >= perBatch}

(* Seeded fault (RowOneIsTakenOverWholeRuns): cold and warm in one pool. *)
RowsOfAnyPhase(samples, arm, phase) == {x \in samples : x.arm = arm}

RowsOf(samples, arm, phase) == {x \in samples : x.arm = arm /\ x.phase = phase}

Repetitions(samples) == {Repetition(x) : x \in samples}
Carrying(samples, span) == Repetitions({x \in samples : x.span = span})

-----------------------------------------------------------------------------
(* One span: every repetition that carries any span must carry this one. *)
SpanValuesRefused(samples, arm, phase, span) ==
  Repetitions(RowsOf(samples, arm, phase)) # Carrying(RowsOf(samples, arm, phase), span)

SpanValues(samples, arm, phase, span) == Carrying(RowsOf(samples, arm, phase), span)

(* The measured segment: a repetition with one of its two spans and not the *)
(* other is refused; one with neither is not seen. *)
SegmentRows(samples, arm, phase) ==
  {x \in RowsOf(samples, arm, phase) : x.span \in MeasuredSegmentSpans}

SegmentRefused(samples, arm, phase) ==
  \E span \in MeasuredSegmentSpans :
    Carrying(SegmentRows(samples, arm, phase), span) # Repetitions(SegmentRows(samples, arm, phase))

SegmentValues(samples, arm, phase) == Repetitions(SegmentRows(samples, arm, phase))

OnRefusalPath(samples) == {x \in samples : x.scenario = RefusalPath}

BenignSeriesRefused(samples, arm, phase) ==
  OnRefusalPath(samples) # {} \/ SegmentRefused(samples, arm, phase)

(* Row 1: median(B3) - median(B0), warm.  Which repetitions it is taken over, *)
(* and when there is no such figure. *)
LightweightRefused(samples) ==
  \E arm \in {"B3", "B0"} :
    BenignSeriesRefused(samples, arm, "warm") \/ SegmentValues(samples, arm, "warm") = {}

-----------------------------------------------------------------------------
(* RQ4's decomposition. *)

SeriesNames == {"benign", "refusal_path"}
InSeries(samples, name) ==
  IF name = "refusal_path" THEN OnRefusalPath(samples) ELSE samples \ OnRefusalPath(samples)

(* The rows of one report, once the warm-up is discarded. *)
ReportRows(kept, arm, phase, name) == RowsOf(InSeries(kept, name), arm, phase)

(* The arms of a report are those of its samples. *)
ArmsOf(samples) == {x.arm : x \in samples}

(* One span missing of one repetition refuses the whole report. *)
DescriptivesRefused(samples, perBatch) ==
  LET kept == DiscardWarmup(samples, perBatch)
  IN  \E arm \in ArmsOf(kept), phase \in Phases, name \in SeriesNames :
        LET rows == ReportRows(kept, arm, phase, name)
        IN  \E span \in Rq4Spans : SpanValuesRefused(rows, arm, phase, span)

SpanDescriptives(samples, perBatch) ==
  LET kept == DiscardWarmup(samples, perBatch)
      present == {t \in ArmsOf(kept) \X Phases \X SeriesNames : ReportRows(kept, t[1], t[2], t[3]) # {}}
  IN  {[arm |-> t[1][1], phase |-> t[1][2], series |-> t[1][3], span |-> t[2],
        n |-> Cardinality(SpanValues(ReportRows(kept, t[1][1], t[1][2], t[1][3]),
                                     t[1][1], t[1][2], t[2]))] : t \in present \X Rq4Spans}

-----------------------------------------------------------------------------
(* The bitmask of the design document, its cells opaque tokens. *)

E5Columns == <<"oauth", "crypto_chain", "authorizer", "htc/holder", "invoke",
               "contain", "context", "approval", "jti", "audit">>

E5Bitmask(arm) ==
  CASE arm = "B0" -> <<"0", "0", "0", "0", "0", "0", "0", "0", "0", "0">>
    [] arm = "B1" -> <<"0", "0", "0", "0", "0", "0", "0", "0", "0", "1">>
    [] arm \in {"B2-broad-noexchange", "B2-exchange-broad"} ->
         <<"1", "0", "0", "0", "0", "0", "0", "0", "0", "1">>
    [] arm = "B2-exchange-task" ->
         <<"1", "0", "0", "0", "0", "(scope in token)", "0", "0", "0", "1">>
    [] arm = "B2-exchange-task-DPoP" ->
         <<"1", "0", "0", "dpop-cnf", "0", "(scope in token)", "0", "0", "0", "1">>
    [] arm = "B-cap" -> <<"1", "1", "1", "0", "0", "1", "0", "0", "0", "1">>
    [] arm = "B3"    -> <<"1", "1", "1", "1", "1", "1", "1", "1", "0", "1">>
    [] arm = "B3+"   -> <<"1", "1", "1", "1", "1", "1", "1", "1", "1", "1">>

PerformsAsExchange(arm) ==
  arm \in {"B2-exchange-broad", "B2-exchange-task", "B2-exchange-task-DPoP"}

(* Seeded fault (IncrementMovesOnlyItsMechanism): read as 0 or 1, dpop-cnf    *)
(* being 0 because it selects no conjunct. *)
DifferingBitsAsNumbers(treatment, control) ==
  LET bit(token) == token \notin {"0", "dpop-cnf"}
  IN  {E5Columns[i] : i \in {j \in DOMAIN E5Columns :
         bit(E5Bitmask(treatment)[j]) # bit(E5Bitmask(control)[j])}}

DifferingBits(treatment, control) ==
  {E5Columns[i] : i \in {j \in DOMAIN E5Columns : E5Bitmask(treatment)[j] # E5Bitmask(control)[j]}}

(* What a delta may be called. *)
E5BitDifference(treatment, control) ==
  LET bits == DifferingBits(treatment, control)
  IN  IF "B1" \in {treatment, control} \/ bits = {} THEN "refused"
      ELSE IF Cardinality(bits) = 1 /\ PerformsAsExchange(treatment) = PerformsAsExchange(control)
      THEN "mechanism-increment"
      ELSE "composite-delta"

(* A delta is refused with its pair before its samples are looked at; each arm *)
(* then needs the span of every repetition, of at least one, and none of the  *)
(* refusal path. *)
ArmPairDeltaRefused(samples, treatment, control, span, phase) ==
  \/ E5BitDifference(treatment, control) = "refused"
  \/ OnRefusalPath(samples) # {}
  \/ \E arm \in {treatment, control} :
       IF span = "measured_segment"
       THEN SegmentRefused(samples, arm, phase) \/ SegmentValues(samples, arm, phase) = {}
       ELSE SpanValuesRefused(samples, arm, phase, span) \/ SpanValues(samples, arm, phase, span) = {}
=============================================================================
