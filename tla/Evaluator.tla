------------------------------ MODULE Evaluator -------------------------------
(***************************************************************************)
(* The experiment runner's immutable evaluator and the deterministic model *)
(* it is fed from, as operators.  A sample is [fps, temp, power, errors];  *)
(* temperatures are in half degrees, so that every number is an integer,   *)
(* and the mean FPS is kept as a sum and a count.                          *)
(***************************************************************************)
EXTENDS Integers, Sequences

CONSTANT MaxCount       \* the largest value of the error counter (u64::MAX)

ASSUME CountAssumption == MaxCount \in Nat

\* What the contracts decode; only a spec's own gates bound it further.
MetricSample == [fps : Int, temp : Int, power : Int, errors : 0..MaxCount]

DecisionBounds ==
    [min_samples : Nat \ {0}, min_gain : Int, max_temp : Int, max_power : Int,
     max_errors : 0..MaxCount]

\* a asks for no less than b in every field.
Tighter(a, b) ==
    /\ a.min_samples >= b.min_samples /\ a.min_gain >= b.min_gain
    /\ a.max_temp <= b.max_temp /\ a.max_power <= b.max_power
    /\ a.max_errors <= b.max_errors

\* Mutant: the error total wraps around.
MutAddErrors(a, b) == (a + b) % (MaxCount + 1)

\* u64::saturating_add
AddErrors(a, b) == IF a + b > MaxCount THEN MaxCount ELSE a + b

Larger(a, b) == IF a > b THEN a ELSE b

\* One iteration of summarize's loop.  The maxima start at minus infinity: the
\* first sample replaces them.
Observe(summary, sample) ==
    [samples |-> summary.samples + 1,
     fps     |-> summary.fps + sample.fps,
     temp    |-> IF summary.samples = 0 THEN sample.temp ELSE Larger(summary.temp, sample.temp),
     power   |-> IF summary.samples = 0 THEN sample.power ELSE Larger(summary.power, sample.power),
     errors  |-> AddErrors(summary.errors, sample.errors)]

Summarize(samples) ==
    LET after[i \in 0..Len(samples)] ==
            IF i = 0 THEN [samples |-> 0, fps |-> 0, temp |-> 0, power |-> 0, errors |-> 0]
            ELSE Observe(after[i - 1], samples[i])
    IN  after[Len(samples)]

\* Mutant: the comparison is the wrong way round.
MutImproves(baseline, candidate, gain) ==
    LET n == Larger(baseline.samples, 1)
        m == Larger(candidate.samples, 1)
    IN  candidate.fps * n - baseline.fps * m <= gain * n * m

\* mean_fps of the candidate minus mean_fps of the baseline is at least gain;
\* the mean of an empty set is 0.
Improves(baseline, candidate, gain) ==
    LET n == Larger(baseline.samples, 1)
        m == Larger(candidate.samples, 1)
    IN  candidate.fps * n - baseline.fps * m >= gain * n * m

\* The rule, from the two summaries; the first condition that is met names the
\* reason.
Reason(b, c, bounds) ==
    IF b.samples < bounds.min_samples \/ c.samples < bounds.min_samples
    THEN "insufficient-samples"
    ELSE IF c.temp > bounds.max_temp THEN "temperature-exceeded"
    ELSE IF c.power > bounds.max_power THEN "power-exceeded"
    ELSE IF c.errors > bounds.max_errors THEN "errors-exceeded"
    ELSE IF Improves(b, c, bounds.min_gain) THEN "promoted"
    ELSE "insufficient-improvement"

Evaluate(baseline, candidate, bounds) ==
    LET b == Summarize(baseline)
        c == Summarize(candidate)
    IN  [reason    |-> Reason(b, c, bounds),
         decision  |-> IF Reason(b, c, bounds) = "promoted" THEN "promote" ELSE "reject",
         baseline  |-> b,
         candidate |-> c]

-----------------------------------------------------------------------------
\* The measurement model of the mock knob (ERROR_ONSET is 90).

SampleAt(value, warming) ==
    [fps    |-> IF warming THEN 60 ELSE 60 + value,
     temp   |-> 100 + value,
     power  |-> 100 + value,
     errors |-> IF value > 90 THEN value - 90 ELSE 0]

\* The warm-up samples are generated and dropped, counted ones are kept.
Measure(value, warmup, counted) ==
    SubSeq([i \in 1..(warmup + counted) |-> SampleAt(value, i <= warmup)],
           warmup + 1, warmup + counted)
=============================================================================
