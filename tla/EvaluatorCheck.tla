---------------------------- MODULE EvaluatorCheck ----------------------------
(***************************************************************************)
(* The evaluator over every small input: sample sets that grow a sample at *)
(* a time under decision bounds that a spec author may tighten.            *)
(***************************************************************************)
EXTENDS Evaluator

CONSTANTS
    Samples,        \* the samples a measurement may yield
    Bounds,         \* the decision bounds
    MaxSet          \* bound: samples in a set

ASSUME CheckAssumption ==
    /\ Samples \subseteq MetricSample
    /\ Bounds \subseteq DecisionBounds
    /\ MaxSet \in Nat

VARIABLES baseline, candidate, bounds

checkVars == <<baseline, candidate, bounds>>

CheckInit == baseline = << >> /\ candidate = << >> /\ bounds \in Bounds

MeasureBaseline(s) ==
    /\ Len(baseline) < MaxSet
    /\ baseline' = Append(baseline, s)
    /\ UNCHANGED <<candidate, bounds>>

MeasureCandidate(s) ==
    /\ Len(candidate) < MaxSet
    /\ candidate' = Append(candidate, s)
    /\ UNCHANGED <<baseline, bounds>>

Tighten ==
    /\ bounds' \in {b \in Bounds : b # bounds /\ Tighter(b, bounds)}
    /\ UNCHANGED <<baseline, candidate>>

CheckNext ==
    \/ \E s \in Samples : MeasureBaseline(s) \/ MeasureCandidate(s)
    \/ Tighten

CheckSpec == CheckInit /\ [][CheckNext]_checkVars

Promoted == Evaluate(baseline, candidate, bounds).decision = "promote"

-----------------------------------------------------------------------------
\* A promotion rests on enough samples of both kinds, every one of which is
\* inside the limits on its own: no single hot or faulty sample is averaged or
\* overflowed away (summarize's worst values and saturating total).
PromotionIsInside ==
    Promoted =>
        /\ Len(baseline) >= bounds.min_samples /\ Len(candidate) >= bounds.min_samples
        /\ \A i \in DOMAIN candidate :
              /\ candidate[i].temp <= bounds.max_temp
              /\ candidate[i].power <= bounds.max_power
              /\ candidate[i].errors <= bounds.max_errors

\* Tightening the bounds never turns a rejection into a promotion (evaluate).
TightensOnly == bounds' # bounds => (Promoted' => Promoted)

TighteningNeverPromotes == [][TightensOnly]_checkVars
=============================================================================
