--------------------------- MODULE EvaluatorProofs ---------------------------
(***************************************************************************)
(* What summarize and evaluate compute, for every sample set and all       *)
(* decision bounds.  The loop of summarize is a recursive function; what   *)
(* it returns is shown by the least number of samples for which it would   *)
(* not.                                                                    *)
(***************************************************************************)
EXTENDS Evaluator, WellFoundedInduction, TLAPS

\* What summarize starts from.
NothingSeen == [samples |-> 0, fps |-> 0, temp |-> 0, power |-> 0, errors |-> 0]

MetricSummary == [samples : Nat, fps : Int, temp : Int, power : Int, errors : 0..MaxCount]

\* A set of natural numbers that is not empty has a least one.
LEMMA SmallestOf ==
    ASSUME NEW T, T \subseteq Nat, T # {}
    PROVE  \E x \in T : \A y \in T : x <= y
  <1>1. PICK x \in T : \A y \in T : ~(<<y, x>> \in OpToRel(<, Nat))
    BY NatLessThanWellFounded, WFMin
  <1>2. ASSUME NEW y \in T PROVE x <= y
    <2>1. x \in Nat /\ y \in Nat
      OBVIOUS
    <2>2. ~(y < x)
      BY <1>1, <2>1 DEF OpToRel
    <2> QED BY <2>1, <2>2
  <1> QED BY <1>2

\* The states of summarize's loop over the samples, one per iteration.
LoopStates(samples, f) ==
    f = [i \in 0..Len(samples) |->
            IF i = 0 THEN NothingSeen ELSE Observe(f[i - 1], samples[i])]

\* The loop over the first n samples is defined: it starts, and every iteration
\* has the state that the one before it left (summarize).
LEMMA LoopPrefix ==
    ASSUME NEW samples
    PROVE  \A n \in Nat : \E f : f = [i \in 0..n |->
              IF i = 0 THEN NothingSeen ELSE Observe(f[i - 1], samples[i])]
  <1> DEFINE Defined(n) == \E f : f = [i \in 0..n |->
                 IF i = 0 THEN NothingSeen ELSE Observe(f[i - 1], samples[i])]
             T == {n \in Nat : ~Defined(n)}
  <1> SUFFICES T = {}
    OBVIOUS
  <1> SUFFICES ASSUME T # {} PROVE FALSE
    OBVIOUS
  <1>1. PICK n \in T : \A m \in T : n <= m
    BY SmallestOf
  <1>2. n # 0
    <2> DEFINE g == [i \in 0..0 |-> NothingSeen]
    <2>1. g = [i \in 0..0 |-> IF i = 0 THEN NothingSeen ELSE Observe(g[i - 1], samples[i])]
      OBVIOUS
    <2>2. Defined(0)
      BY <2>1
    <2> QED BY <1>1, <2>2
  <1>3. n - 1 \in Nat /\ n - 1 \notin T
    BY <1>1, <1>2
  <1>4. PICK f : f = [i \in 0..(n - 1) |->
                 IF i = 0 THEN NothingSeen ELSE Observe(f[i - 1], samples[i])]
    BY <1>3
  <1> DEFINE g == [i \in 0..n |-> IF i = n THEN Observe(f[n - 1], samples[n]) ELSE f[i]]
  <1>5. ASSUME NEW i \in 0..n
        PROVE  g[i] = IF i = 0 THEN NothingSeen ELSE Observe(g[i - 1], samples[i])
    <2>1. CASE i = n
      <3>1. g[i] = Observe(f[n - 1], samples[n]) /\ g[i - 1] = f[n - 1]
        BY <1>1, <1>2, <2>1
      <3> QED BY <1>2, <2>1, <3>1
    <2>2. CASE i # n
      <3>1. i \in 0..(n - 1) /\ g[i] = f[i]
        BY <1>1, <2>2
      <3>2. f[i] = IF i = 0 THEN NothingSeen ELSE Observe(f[i - 1], samples[i])
        BY <1>4, <3>1
      <3>3. i # 0 => g[i - 1] = f[i - 1]
        BY <1>1, <3>1
      <3> QED BY <3>1, <3>2, <3>3
    <2> QED BY <2>1, <2>2
  <1>6. g = [i \in 0..n |-> IF i = 0 THEN NothingSeen ELSE Observe(g[i - 1], samples[i])]
    BY <1>5
  <1>7. Defined(n)
    BY <1>6
  <1> QED BY <1>1, <1>7

\* The summary is the state after the last iteration of a loop that starts with
\* nothing seen and observes one sample after the other (summarize).
LEMMA SummarizeLoop ==
    ASSUME NEW S, NEW samples \in Seq(S)
    PROVE  \E f : LoopStates(samples, f) /\ Summarize(samples) = f[Len(samples)]
  <1>1. \E f : LoopStates(samples, f)
    <2>1. Len(samples) \in Nat
      OBVIOUS
    <2>2. \E f : f = [i \in 0..Len(samples) |->
                      IF i = 0 THEN NothingSeen ELSE Observe(f[i - 1], samples[i])]
      BY <2>1, LoopPrefix
    <2> QED BY <2>2 DEF LoopStates
  <1>2. LoopStates(samples, CHOOSE f : LoopStates(samples, f))
    BY <1>1
  <1>3. Summarize(samples) = (CHOOSE f : LoopStates(samples, f))[Len(samples)]
    BY DEF Summarize, LoopStates, NothingSeen
  <1> QED BY <1>2, <1>3

\* What the loop keeps of the samples seen so far: their number, and values that
\* none of them exceeds.
Covers(summary, samples, n) ==
    /\ summary \in MetricSummary /\ summary.samples = n
    /\ \A i \in 1..n : /\ samples[i].temp <= summary.temp
                       /\ samples[i].power <= summary.power
                       /\ samples[i].errors <= summary.errors

\* One iteration of summarize's loop: the maxima and the saturating total cover
\* the new sample and all earlier ones.
LEMMA ObserveCovers ==
    ASSUME NEW samples \in Seq(MetricSample), NEW n \in 1..Len(samples), NEW summary,
           Covers(summary, samples, n - 1)
    PROVE  Covers(Observe(summary, samples[n]), samples, n)
  <1> DEFINE s == samples[n]
             t == Observe(summary, s)
  <1>1. s \in MetricSample
    OBVIOUS
  <1>2. s.fps \in Int /\ s.temp \in Int /\ s.power \in Int /\ s.errors \in 0..MaxCount
    BY <1>1 DEF MetricSample
  <1>3. /\ summary.samples = n - 1 /\ summary.fps \in Int /\ summary.temp \in Int
        /\ summary.power \in Int /\ summary.errors \in 0..MaxCount
    BY DEF Covers, MetricSummary
  <1>4. /\ t.samples = n /\ t.fps = summary.fps + s.fps
        /\ t.temp = IF n = 1 THEN s.temp ELSE Larger(summary.temp, s.temp)
        /\ t.power = IF n = 1 THEN s.power ELSE Larger(summary.power, s.power)
        /\ t.errors = AddErrors(summary.errors, s.errors)
        /\ t = [samples |-> t.samples, fps |-> t.fps, temp |-> t.temp, power |-> t.power,
                errors |-> t.errors]
    BY <1>3 DEF Observe
  <1> HIDE DEF s, t
  <1>5. /\ t.temp \in Int /\ s.temp <= t.temp /\ (n # 1 => summary.temp <= t.temp)
        /\ t.power \in Int /\ s.power <= t.power /\ (n # 1 => summary.power <= t.power)
    BY <1>2, <1>3, <1>4 DEF Larger
  <1>6. t.errors \in 0..MaxCount /\ s.errors <= t.errors /\ summary.errors <= t.errors
    BY <1>2, <1>3, <1>4, CountAssumption DEF AddErrors
  <1>7. t \in MetricSummary
    BY <1>2, <1>3, <1>4, <1>5, <1>6 DEF MetricSummary
  <1>8. ASSUME NEW i \in 1..n
        PROVE  /\ samples[i].temp <= t.temp /\ samples[i].power <= t.power
               /\ samples[i].errors <= t.errors
    <2>1. CASE i = n
      BY <1>5, <1>6, <2>1 DEF s
    <2>2. CASE i # n
      <3>1. i \in 1..(n - 1) /\ n # 1
        BY <2>2
      <3>2. /\ samples[i].temp <= summary.temp /\ samples[i].power <= summary.power
            /\ samples[i].errors <= summary.errors
        BY <3>1 DEF Covers
      <3>0. DOMAIN samples = 1..Len(samples) /\ Len(samples) \in Nat
        OBVIOUS
      <3>3. i \in DOMAIN samples /\ samples[i] \in MetricSample
        BY <3>0, <3>1
      <3>4. samples[i].temp \in Int /\ samples[i].power \in Int /\ samples[i].errors \in Int
        BY <3>3, CountAssumption DEF MetricSample
      <3>5. summary.errors \in Int /\ t.errors \in Int
        BY <1>3, <1>6, CountAssumption
      <3> QED BY <1>3, <1>5, <1>6, <3>1, <3>2, <3>4, <3>5, SMTT(30)
    <2> QED BY <2>1, <2>2
  <1>9. Covers(t, samples, n)
    BY <1>4, <1>7, <1>8 DEF Covers
  <1> QED BY <1>9 DEF s, t

\* The summary of any sample set counts every sample, and neither its maxima nor
\* its saturated error total is below any single one (summarize).
LEMMA SummarizeCovers ==
    ASSUME NEW samples \in Seq(MetricSample)
    PROVE  Covers(Summarize(samples), samples, Len(samples))
  <1>1. PICK f : LoopStates(samples, f) /\ Summarize(samples) = f[Len(samples)]
    BY SummarizeLoop
  <1> DEFINE T == {n \in 0..Len(samples) : ~Covers(f[n], samples, n)}
  <1>0. Len(samples) \in Nat
    OBVIOUS
  <1>2. T = {}
    <2> SUFFICES ASSUME T # {} PROVE FALSE
      OBVIOUS
    <2>1. T \subseteq Nat
      BY <1>0
    <2>2. PICK n \in T : \A m \in T : n <= m
      BY <2>1, SmallestOf
    <2>3. f[n] = IF n = 0 THEN NothingSeen ELSE Observe(f[n - 1], samples[n])
      BY <1>1, <2>2 DEF LoopStates
    <2>4. n # 0
      BY <2>2, <2>3, CountAssumption DEF Covers, NothingSeen, MetricSummary
    <2>5. n \in 1..Len(samples) /\ n - 1 \in 0..Len(samples) /\ n - 1 \notin T
      BY <1>0, <2>2, <2>4
    <2>6. Covers(f[n - 1], samples, n - 1)
      BY <2>5
    <2>7. Covers(Observe(f[n - 1], samples[n]), samples, n)
      BY <2>5, <2>6, ObserveCovers
    <2> QED BY <2>2, <2>3, <2>4, <2>7
  <1>3. Covers(f[Len(samples)], samples, Len(samples))
    BY <1>0, <1>2
  <1> QED BY <1>1, <1>3

-----------------------------------------------------------------------------
\* The decision

\* The decision is one of two, and is taken by the reason (evaluate).
LEMMA DecidedByReason ==
    ASSUME NEW b, NEW c, NEW d
    PROVE  /\ Evaluate(b, c, d).decision \in {"promote", "reject"}
           /\ Evaluate(b, c, d).decision = "promote"
                 <=> Reason(Summarize(b), Summarize(c), d) = "promoted"
  BY DEF Evaluate

\* A promotion met every bound (evaluate's rule).
LEMMA PromotedMeets ==
    ASSUME NEW b \in MetricSummary, NEW c \in MetricSummary, NEW d \in DecisionBounds
    PROVE  Reason(b, c, d) = "promoted" <=>
              /\ b.samples >= d.min_samples /\ c.samples >= d.min_samples
              /\ c.temp <= d.max_temp /\ c.power <= d.max_power /\ c.errors <= d.max_errors
              /\ Improves(b, c, d.min_gain)
  <1>1. /\ b.samples \in Nat /\ c.samples \in Nat /\ c.temp \in Int /\ c.power \in Int
        /\ c.errors \in Int
    BY CountAssumption DEF MetricSummary
  <1>2. /\ d.min_samples \in Nat /\ d.max_temp \in Int /\ d.max_power \in Int
        /\ d.max_errors \in Nat
    BY DEF DecisionBounds
  <1> QED BY <1>1, <1>2 DEF Reason

\* A promotion rests on enough samples of both kinds, and every single candidate
\* sample is inside the limits, for sample sets of every size and samples of
\* every value: nothing is averaged or overflowed away (summarize, evaluate).
LEMMA PromotedIsInside ==
    ASSUME NEW b \in Seq(MetricSample), NEW c \in Seq(MetricSample), NEW d \in DecisionBounds,
           Evaluate(b, c, d).decision = "promote"
    PROVE  /\ Len(b) >= d.min_samples /\ Len(c) >= d.min_samples
           /\ \A i \in DOMAIN c : /\ c[i].temp <= d.max_temp
                                  /\ c[i].power <= d.max_power
                                  /\ c[i].errors <= d.max_errors
  <1>1. Covers(Summarize(b), b, Len(b)) /\ Covers(Summarize(c), c, Len(c))
    BY SummarizeCovers
  <1> DEFINE sb == Summarize(b)
             sc == Summarize(c)
  <1>2. /\ sb \in MetricSummary /\ sc \in MetricSummary /\ sb.samples = Len(b) /\ sc.samples = Len(c)
    BY <1>1 DEF Covers
  <1>3. Reason(sb, sc, d) = "promoted"
    BY DecidedByReason
  <1> HIDE DEF sb, sc
  <1>4. /\ sb.samples >= d.min_samples /\ sc.samples >= d.min_samples
        /\ sc.temp <= d.max_temp /\ sc.power <= d.max_power /\ sc.errors <= d.max_errors
    BY <1>2, <1>3, PromotedMeets
  <1>5. ASSUME NEW i \in DOMAIN c
        PROVE  c[i].temp <= d.max_temp /\ c[i].power <= d.max_power /\ c[i].errors <= d.max_errors
    <2>1. i \in 1..Len(c) /\ c[i] \in MetricSample
      OBVIOUS
    <2>2. c[i].temp <= sc.temp /\ c[i].power <= sc.power /\ c[i].errors <= sc.errors
      BY <1>1, <2>1 DEF Covers, sc
    <2>3. /\ c[i].temp \in Int /\ c[i].power \in Int /\ c[i].errors \in Int
      BY <2>1, CountAssumption DEF MetricSample
    <2>4. sc.temp \in Int /\ sc.power \in Int /\ sc.errors \in Int
      BY <1>2, CountAssumption DEF MetricSummary
    <2>5. d.max_temp \in Int /\ d.max_power \in Int /\ d.max_errors \in Int
      BY DEF DecisionBounds
    <2> QED BY <1>4, <2>2, <2>3, <2>4, <2>5, SMTT(30)
  <1> QED BY <1>2, <1>4, <1>5

\* A product does not shrink when one factor grows.
LEMMA TimesMonotone ==
    ASSUME NEW x \in Int, NEW y \in Int, NEW k \in Nat, x <= y
    PROVE  x * k <= y * k
  OBVIOUS

\* A candidate that gains enough gains any smaller amount (evaluate's comparison
\* of the mean rates).
LEMMA ImprovesMonotone ==
    ASSUME NEW b \in MetricSummary, NEW c \in MetricSummary,
           NEW x \in Int, NEW y \in Int, x <= y, Improves(b, c, y)
    PROVE  Improves(b, c, x)
  <1> DEFINE n == Larger(b.samples, 1)
             m == Larger(c.samples, 1)
             gain == c.fps * n - b.fps * m
  <1>1. n \in Nat /\ m \in Nat /\ b.fps \in Int /\ c.fps \in Int
    BY DEF MetricSummary, Larger
  <1>2. gain >= y * n * m
    BY DEF Improves
  <1> HIDE DEF n, m
  <1>3. x * n <= y * n /\ x * n \in Int /\ y * n \in Int
    BY <1>1, TimesMonotone
  <1>4. (x * n) * m <= (y * n) * m
    BY <1>1, <1>3, TimesMonotone
  <1>5. gain \in Int /\ (x * n) * m \in Int /\ (y * n) * m \in Int
    BY <1>1, <1>3
  <1> HIDE DEF gain
  <1>6. gain >= x * n * m
    BY <1>2, <1>4, <1>5
  <1> QED BY <1>6 DEF Improves, n, m, gain

\* What tighter bounds promote, wider ones promote as well (evaluate).
LEMMA TighterPromotesLess ==
    ASSUME NEW b \in Seq(MetricSample), NEW c \in Seq(MetricSample),
           NEW d \in DecisionBounds, NEW e \in DecisionBounds, Tighter(d, e),
           Evaluate(b, c, d).decision = "promote"
    PROVE  Evaluate(b, c, e).decision = "promote"
  <1> DEFINE sb == Summarize(b)
             sc == Summarize(c)
  <1>1. sb \in MetricSummary /\ sc \in MetricSummary
    BY SummarizeCovers DEF Covers
  <1>2. Reason(sb, sc, d) = "promoted"
    BY DecidedByReason
  <1> HIDE DEF sb, sc
  <1>3. /\ sb.samples >= d.min_samples /\ sc.samples >= d.min_samples
        /\ sc.temp <= d.max_temp /\ sc.power <= d.max_power /\ sc.errors <= d.max_errors
        /\ Improves(sb, sc, d.min_gain)
    BY <1>1, <1>2, PromotedMeets
  <1>4. /\ sb.samples \in Int /\ sc.samples \in Int /\ sc.temp \in Int /\ sc.power \in Int
        /\ sc.errors \in Int
    BY <1>1, CountAssumption DEF MetricSummary
  <1>5. \A x \in DecisionBounds :
           /\ x.min_samples \in Int /\ x.min_gain \in Int /\ x.max_temp \in Int
           /\ x.max_power \in Int /\ x.max_errors \in Int
    BY CountAssumption DEF DecisionBounds
  <1>6. e.min_gain <= d.min_gain
    <2>1. d.min_gain \in Int /\ e.min_gain \in Int
      BY <1>5
    <2> QED BY <2>1 DEF Tighter
  <1>7. Improves(sb, sc, e.min_gain)
    BY <1>1, <1>3, <1>5, <1>6, ImprovesMonotone
  <1>8. /\ sb.samples >= e.min_samples /\ sc.samples >= e.min_samples
        /\ sc.temp <= e.max_temp /\ sc.power <= e.max_power /\ sc.errors <= e.max_errors
    <2>1. /\ d.min_samples \in Int /\ d.max_temp \in Int /\ d.max_power \in Int
          /\ d.max_errors \in Int
      BY <1>5
    <2>2. /\ e.min_samples \in Int /\ e.max_temp \in Int /\ e.max_power \in Int
          /\ e.max_errors \in Int
      BY <1>5
    <2>3. /\ d.min_samples >= e.min_samples /\ d.max_temp <= e.max_temp
          /\ d.max_power <= e.max_power /\ d.max_errors <= e.max_errors
      BY DEF Tighter
    <2>4. sb.samples >= e.min_samples /\ sc.samples >= e.min_samples
      BY <1>3, <1>4, <2>1, <2>2, <2>3, SMTT(30)
    <2>5. sc.temp <= e.max_temp /\ sc.power <= e.max_power /\ sc.errors <= e.max_errors
      BY <1>3, <1>4, <2>1, <2>2, <2>3, SMTT(30)
    <2> QED BY <2>4, <2>5
  <1>9. Reason(sb, sc, e) = "promoted"
    BY <1>1, <1>7, <1>8, PromotedMeets
  <1> QED BY <1>9, DecidedByReason DEF sb, sc

=============================================================================
