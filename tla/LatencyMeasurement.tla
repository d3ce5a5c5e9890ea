-------------------------- MODULE LatencyMeasurement --------------------------
(***************************************************************************)
(* The latency analysis over the samples of a measurement.  The measuring  *)
(* is external: analysis/latency.py takes its samples from a caller, which *)
(* is not in the repository, and has to hold for what any caller hands it. *)
(* Here one repetition after another is handed over, with the spans its    *)
(* kind of run records (harness/runner.py, TimingSeams) or short of one.   *)
(***************************************************************************)
EXTENDS LatencySeries

CONSTANTS
  MeasuredArms,
  MeasuredScenarios,
  Batches,
  Lossy,           \* the spans that may be missing of what is handed over
  MaxRepetitions   \* bound

ASSUME MeasurementAssumption == Lossy \subseteq Rq4Spans /\ MaxRepetitions \in Nat

(* The spans of a run; a decision out of process is not timed here. *)
Recorded(sutMode) == IF sutMode = "in-process" THEN Rq4Spans ELSE {"setup", "end_to_end"}

-----------------------------------------------------------------------------
VARIABLE handed    \* the samples handed over so far

MeasurementInit == handed = {}

(* The repetitions of one group, numbered from 1. *)
Taken(arm, scenario, warmth, batch) ==
  {x.repetition : x \in {y \in handed : /\ y.arm = arm /\ y.scenario = scenario
                                        /\ y.phase = warmth /\ y.batch = batch}}

HandOver(arm, scenario, warmth, batch, spans) ==
  /\ Cardinality({<<x.arm, x.phase, Repetition(x)>> : x \in handed}) < MaxRepetitions
  /\ handed' = handed \cup
       {[arm |-> arm, scenario |-> scenario, phase |-> warmth, batch |-> batch, span |-> span,
         repetition |-> Cardinality(Taken(arm, scenario, warmth, batch)) + 1] : span \in spans}

MeasurementNext ==
  \E arm \in MeasuredArms, scenario \in MeasuredScenarios, warmth \in Phases, batch \in Batches,
     sutMode \in {"in-process", "separate"} :
    \/ HandOver(arm, scenario, warmth, batch, Recorded(sutMode))
    \/ \E lost \in Recorded(sutMode) \cap Lossy :
         HandOver(arm, scenario, warmth, batch, Recorded(sutMode) \ {lost})

MeasurementSpec == MeasurementInit /\ [][MeasurementNext]_handed

-----------------------------------------------------------------------------
(* The repetitions of an arm in a phase that have both spans of the segment. *)
WholeRuns(samples, arm, warmth) ==
  {r \in Repetitions(samples) : \A span \in MeasuredSegmentSpans :
     \E x \in samples :
       x.arm = arm /\ x.phase = warmth /\ x.span = span /\ Repetition(x) = r}

RunsOf(samples, arm, warmth) ==
  {Repetition(x) : x \in {y \in samples : y.arm = arm /\ y.phase = warmth}}

RowOneArms == {"B3", "B0"}

(* Row 1's figure, when there is one, is taken over exactly the warm runs of  *)
(* its arms that have both spans of the measured segment, past the warm-up:   *)
(* no half of a cold run is paired with a half of a warm one.  A run that the *)
(* figure leaves out unseen, for having neither span, refuses the report made *)
(* of the same samples; and where there is a report, each of its spans is     *)
(* taken over as many runs as the figure, as is the delta of its two arms by  *)
(* a span of the segment, where it is not refused. *)
RowOneIsTakenOverWholeRuns ==
  \A warmup \in {0, 1} :
    LET kept == DiscardWarmup(handed, warmup)
    IN  ~LightweightRefused(kept) =>
          \A arm \in RowOneArms :
            LET figure == SegmentValues(kept, arm, "warm")
            IN  /\ figure = WholeRuns(kept, arm, "warm")
                /\ figure # RunsOf(kept, arm, "warm") => DescriptivesRefused(handed, warmup)
                /\ ~DescriptivesRefused(handed, warmup) =>
                     \A r \in SpanDescriptives(handed, warmup) :
                       r.arm = arm /\ r.phase = "warm" /\ r.series = "benign" =>
                         r.n = Cardinality(figure)
                /\ \A span \in MeasuredSegmentSpans :
                     ~ArmPairDeltaRefused(kept, "B3", "B0", span, "warm") =>
                       SpanValues(kept, arm, "warm", span) = figure

=============================================================================
