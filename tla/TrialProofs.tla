----------------------------- MODULE TrialProofs ------------------------------
(***************************************************************************)
(* run_trial and replay_trial, for any number of runners, any specs and    *)
(* any policy: only a promoted candidate inside the envelope is applied,   *)
(* what is recorded replays, and an answer names its own record.           *)
(***************************************************************************)
EXTENDS Trial, EvaluatorProofs

-----------------------------------------------------------------------------
\* The inductive invariant

Outcomes == {"none", "ok", "unknown-capability", "policy-denied"} \cup LifecycleErrors

RunnerErrors == {"none", "unknown-capability", "invalid-spec", "invalid-target",
                 "control-plane", "invalid-baseline", "baseline-out-of-policy",
                 "lifecycle-failed", "trial-not-journaled"}

Answers == [error : RunnerErrors, id : Nat, lifecycle : BOOLEAN]

\* What a snapshot may read, and what a lifecycle reports.
Readings == Nat \cup {Missing}

Results == [verified : BOOLEAN, rolled_back : BOOLEAN]

RunnerStates ==
    [pc : {"idle", "decide", "lifecycle", "applied", "record", "answer"},
     spec : Specs \cup {NoSpec}, base : Nat, snap : Readings, outcome : Outcomes,
     result : Results, rowid : Nat, answer : Answers]

\* The rows are a sequence; what is in them is up to ReplayAccepts.
Rowed(rows) == rows \in Seq({rows[i] : i \in DOMAIN rows})

TrialTypes ==
    /\ Rowed(trials)
    /\ knob \in Readings
    /\ runners \in [Runners -> RunnerStates]

\* The verdict that a runner in this state would compute.
VerdictOf(me) ==
    Evaluate(Measure(me.base, me.spec.warmup, me.spec.nbase),
             Measure(me.spec.value, me.spec.warmup, me.spec.ncand), me.spec.bounds)

\* Row id is runner r's.
WroteRow(r, id, rows) == id \in DOMAIN rows /\ rows[id].runner = r

\* A trial that is under way passed its gate; it goes on to a lifecycle only if
\* its candidate is promoted, and has an outcome exactly then; an outcome that is ok
\* saw its change and its restore; the row it remembers is its own.
Sound(r, me, rows) ==
    /\ me.pc # "idle" => /\ me.spec \in Specs /\ Validate(me.spec) = "none"
                         /\ me.base <= MaxMockValue /\ me.answer.id = 0
    /\ me.pc \in {"lifecycle", "applied"} => VerdictOf(me).decision = "promote"
    /\ me.pc \in {"decide", "lifecycle", "applied"} => me.outcome = "none"
    /\ me.pc \in {"record", "answer"} =>
          (me.outcome = "none" <=> VerdictOf(me).decision = "reject")
    /\ me.outcome = "ok" => me.result.verified /\ me.result.rolled_back
    /\ me.rowid # 0 => me.pc = "answer" /\ WroteRow(r, me.rowid, rows)
    /\ me.answer.id # 0 => WroteRow(r, me.answer.id, rows)

RunnersInv == \A r \in Runners : Sound(r, runners[r], trials)

TrialInv == TrialTypes /\ RunnersInv /\ ReplayAccepts

-----------------------------------------------------------------------------
\* Lemmas about the operators

\* What appending a row changes (record_trial).
LEMMA RowAppended ==
    ASSUME NEW s, Rowed(s), NEW e
    PROVE  /\ DOMAIN s = 1..Len(s) /\ Len(s) \in Nat
           /\ Rowed(Append(s, e)) /\ DOMAIN Append(s, e) = 1..(Len(s) + 1)
           /\ \A i \in DOMAIN s : Append(s, e)[i] = s[i]
           /\ Append(s, e)[Len(s) + 1] = e
  <1> DEFINE S == {s[i] : i \in DOMAIN s}
             t == Append(s, e)
  <1>1. s \in Seq(S)
    BY DEF Rowed
  <1> HIDE DEF S
  <1>2. DOMAIN s = 1..Len(s) /\ Len(s) \in Nat /\ \A i \in 1..Len(s) : s[i] \in S
    BY <1>1
  <1>3. s \in Seq(S \cup {e})
    BY <1>1
  <1>4. /\ t \in Seq(S \cup {e}) /\ DOMAIN t = 1..(Len(s) + 1) /\ Len(t) = Len(s) + 1
        /\ \A i \in 1..Len(s) : t[i] = s[i]
        /\ t[Len(s) + 1] = e
    BY <1>3
  <1> HIDE DEF t
  <1>5. t \in Seq({t[i] : i \in DOMAIN t})
    BY <1>4
  <1> QED BY <1>2, <1>4, <1>5 DEF Rowed, t

\* Rows already written stay where they are.
LEMMA SoundGrows ==
    ASSUME NEW s, Rowed(s), NEW e, NEW r, NEW me, Sound(r, me, s)
    PROVE  Sound(r, me, Append(s, e))
  <1>1. \A id \in DOMAIN s : id \in DOMAIN Append(s, e) /\ Append(s, e)[id] = s[id]
    BY RowAppended
  <1>2. \A id : WroteRow(r, id, s) => WroteRow(r, id, Append(s, e))
    BY <1>1 DEF WroteRow
  <1> QED BY <1>2 DEF Sound

\* A spec that passed the gate stays inside the policy, bounds included, and is
\* one that the control plane admits (validate, validate_spec, validate_bounds).
LEMMA GateHolds ==
    ASSUME NEW spec \in Specs, Validate(spec) = "none"
    PROVE  /\ ValidateSpec(spec) = "none" /\ spec.advertised
           /\ spec.value \in 0..MaxMockValue /\ spec.lease <= MaxLease
           /\ spec.warmup \in Nat /\ spec.nbase \in Nat \ {0} /\ spec.ncand \in Nat \ {0}
           /\ spec.bounds \in DecisionBounds
           /\ spec.bounds.max_temp <= MaxTemperature
           /\ spec.bounds.max_power <= MaxPower
           /\ spec.bounds.max_errors <= MaxErrors
  <1>1. /\ spec.value \in Nat \cup {Missing} /\ spec.lease \in Nat
        /\ spec.warmup \in Nat /\ spec.nbase \in Nat \ {0} /\ spec.ncand \in Nat \ {0}
        /\ spec.bounds \in DecisionBounds
    BY TrialAssumption DEF ExperimentSpec
  <1>2. ValidateSpec(spec) = "none" /\ spec.advertised
    BY DEF Validate
  <1>3. /\ ValidateBounds(spec.bounds) /\ spec.value # Missing
        /\ ~(spec.value > MaxMockValue) /\ ~(spec.lease > MaxLease)
    BY <1>2 DEF ValidateSpec
  <1>4. spec.value \in 0..MaxMockValue /\ spec.lease <= MaxLease
    BY <1>1, <1>3, TrialAssumption
  <1>5. /\ spec.bounds.max_temp <= MaxTemperature /\ spec.bounds.max_power <= MaxPower
        /\ spec.bounds.max_errors <= MaxErrors
    BY <1>3 DEF ValidateBounds
  <1> QED BY <1>1, <1>2, <1>4, <1>5

\* A measurement has the counted samples and no warm-up, each of them a sample of
\* the contracts (measure, sample_at).
LEMMA MeasureCounts ==
    ASSUME NEW value \in 0..MaxMockValue, NEW warmup \in Nat, NEW counted \in Nat
    PROVE  /\ Measure(value, warmup, counted) \in Seq(MetricSample)
           /\ Len(Measure(value, warmup, counted)) = counted
  <1> DEFINE all == [i \in 1..(warmup + counted) |-> SampleAt(value, i <= warmup)]
  <1>1. \A w \in BOOLEAN : SampleAt(value, w) \in MetricSample
    <2>1. value \in Nat /\ value <= MaxCount
      BY TrialAssumption, CountAssumption
    <2>2. (IF value > 90 THEN value - 90 ELSE 0) \in 0..MaxCount
      BY <2>1, CountAssumption
    <2> QED BY <2>1, <2>2 DEF SampleAt, MetricSample
  <1>2. all \in Seq(MetricSample) /\ Len(all) = warmup + counted
    <2>1. \A i \in 1..(warmup + counted) : (i <= warmup) \in BOOLEAN
      OBVIOUS
    <2>2. \A i \in 1..(warmup + counted) : SampleAt(value, i <= warmup) \in MetricSample
      BY <1>1, <2>1
    <2>3. all \in [1..(warmup + counted) -> MetricSample]
      BY <2>2
    <2>4. warmup + counted \in Nat
      OBVIOUS
    <2> HIDE DEF all
    <2> QED BY <2>3, <2>4
  <1> HIDE DEF all
  <1>3. /\ SubSeq(all, warmup + 1, warmup + counted) \in Seq(MetricSample)
        /\ Len(SubSeq(all, warmup + 1, warmup + counted)) = counted
    BY <1>2
  <1> QED BY <1>3 DEF Measure, all

\* A runner's verdict is that of its state, which is a decision.
LEMMA VerdictIs ==
    /\ \A r \in Runners : Verdict(r) = VerdictOf(runners[r])
    /\ \A me : VerdictOf(me).decision \in {"promote", "reject"}
  BY DecidedByReason DEF Verdict, VerdictOf, BaselineSamples, CandidateSamples

-----------------------------------------------------------------------------
\* The steps

\* A step of one runner preserves the invariant if it leaves that runner sound
\* and the table is as before.
LEMMA RunnerMoves ==
    ASSUME TrialInv, NEW r \in Runners, NEW me \in RunnerStates,
           runners' = [runners EXCEPT ![r] = me], trials' = trials, knob' \in Readings,
           Sound(r, me, trials)
    PROVE  TrialInv'
  <1>1. TrialTypes'
    BY DEF TrialInv, TrialTypes
  <1>2. \A d \in Runners : runners'[d] = IF d = r THEN me ELSE runners[d]
    BY DEF TrialInv, TrialTypes
  <1>3. RunnersInv'
    BY <1>2 DEF TrialInv, RunnersInv
  <1>4. ReplayAccepts'
    BY DEF TrialInv, ReplayAccepts
  <1> QED BY <1>1, <1>3, <1>4 DEF TrialInv

\* A runner that returns an answer without an identifier, or with its own row, is
\* sound.
LEMMA IdleSound ==
    ASSUME NEW r, NEW rows, NEW answer \in Answers,
           answer.id # 0 => WroteRow(r, answer.id, rows)
    PROVE  /\ Sound(r, Idle(answer), rows)
           /\ Idle(answer) \in RunnerStates
  BY DEF Idle, Sound, RunnerStates, Outcomes, NoSpec, NoResult, Readings, Results

\* The state of a runner whose program counter alone has moved.
LEMMA StateFields ==
    ASSUME NEW me \in RunnerStates
    PROVE  /\ me.spec \in Specs \cup {NoSpec} /\ me.base \in Nat /\ me.snap \in Readings
           /\ me.outcome \in Outcomes /\ me.rowid \in Nat /\ me.answer \in Answers
           /\ me.answer.id \in Nat
  BY DEF RunnerStates, Answers

\* The initial state satisfies the invariant.
LEMMA TrialInit == Init => TrialInv
  <1> SUFFICES ASSUME Init PROVE TrialInv
    OBVIOUS
  <1>1. Answer("none", 0, FALSE) \in Answers /\ Answer("none", 0, FALSE).id = 0
    BY DEF Answer, Answers, RunnerErrors
  <1>2. \A r \in Runners : runners[r] = Idle(Answer("none", 0, FALSE))
    BY DEF Init
  <1>3. RunnersInv
    BY <1>1, <1>2, IdleSound DEF RunnersInv
  <1>4. runners \in [Runners -> RunnerStates]
    BY <1>1, IdleSound DEF Init
  <1>5. Rowed(trials) /\ DOMAIN trials = {}
    BY DEF Init, Rowed
  <1>6. knob \in Readings
    BY TrialAssumption DEF Init, Readings
  <1> QED BY <1>3, <1>4, <1>5, <1>6 DEF TrialInv, TrialTypes, ReplayAccepts

\* The gate admits a trial or answers (run_trial).
LEMMA RunTrialStep ==
    ASSUME TrialInv, NEW r \in Runners, NEW spec \in Specs, RunTrial(r, spec)
    PROVE  TrialInv'
  <1>0. knob \in Readings
    BY DEF TrialInv, TrialTypes
  <1>1. trials' = trials /\ knob' = knob /\ knob' \in Readings
    BY <1>0 DEF RunTrial
  <1>2. ASSUME NEW answer \in Answers, answer.id = 0, Return(r, answer) PROVE TrialInv'
    <2>1. Sound(r, Idle(answer), trials) /\ Idle(answer) \in RunnerStates
      BY <1>2, IdleSound
    <2> QED BY <1>1, <1>2, <2>1, RunnerMoves DEF Return
  <1>3. \A e \in RunnerErrors : Answer(e, 0, FALSE) \in Answers /\ Answer(e, 0, FALSE).id = 0
    BY DEF Answer, Answers
  <1>4. Validate(spec) \in RunnerErrors
    BY DEF Validate, ValidateSpec, RunnerErrors
  <1>5. "control-plane" \in RunnerErrors /\ "invalid-baseline" \in RunnerErrors
        /\ "baseline-out-of-policy" \in RunnerErrors
        /\ "none" \in RunnerErrors
    BY DEF RunnerErrors
  <1>6. CASE \/ Return(r, Answer(Validate(spec), 0, FALSE))
             \/ \E error \in BaselineErrors : Return(r, Answer(error, 0, FALSE))
    <2>1. BaselineErrors \subseteq RunnerErrors
      BY <1>5 DEF BaselineErrors
    <2> QED BY <1>2, <1>3, <1>4, <1>6, <2>1
  <1> DEFINE me == [Idle(Answer("none", 0, FALSE)) EXCEPT
                       !.pc = "decide", !.spec = spec, !.base = knob]
  <1>7. CASE /\ Validate(spec) = "none" /\ knob # Missing /\ knob <= MaxMockValue
             /\ runners' = [runners EXCEPT ![r] = me]
    <2>1. Answer("none", 0, FALSE) \in Answers /\ Answer("none", 0, FALSE).id = 0
      BY <1>3, <1>5
    <2>2. /\ me.pc = "decide" /\ me.spec = spec /\ me.base = knob /\ me.outcome = "none"
          /\ me.rowid = 0 /\ me.answer = Answer("none", 0, FALSE)
      BY DEF Idle
    <2>3. me \in RunnerStates
      BY <1>0, <1>7, <2>1 DEF Idle, RunnerStates, Outcomes, NoResult, Readings, Results
    <2> HIDE DEF me
    <2>4. Sound(r, me, trials)
      BY <1>7, <2>1, <2>2 DEF Sound
    <2> QED BY <1>1, <1>7, <2>3, <2>4, RunnerMoves
  <1> QED BY <1>6, <1>7 DEF RunTrial

\* Only a promotion goes to the lifecycle (run_trial).
LEMMA DecideStep ==
    ASSUME TrialInv, NEW r \in Runners, Decide(r)
    PROVE  TrialInv'
  <1> DEFINE old == runners[r]
             pc == IF Verdict(r).decision = "promote" THEN "lifecycle" ELSE "record"
             me == [old EXCEPT !.pc = pc]
  <1>1. old \in RunnerStates /\ knob \in Readings /\ Sound(r, old, trials) /\ old.pc = "decide"
    BY DEF TrialInv, TrialTypes, RunnersInv, Decide
  <1>2. /\ me \in RunnerStates /\ me.pc = pc /\ me.spec = old.spec /\ me.base = old.base
        /\ me.outcome = old.outcome /\ me.result = old.result /\ me.rowid = old.rowid /\ me.answer = old.answer
    BY <1>1 DEF RunnerStates
  <1>3. /\ runners' = [runners EXCEPT ![r] = me] /\ trials' = trials /\ knob' = knob
    BY <1>1 DEF Decide, Goto, TrialInv, TrialTypes
  <1>4. VerdictOf(old) = Verdict(r) /\ Verdict(r).decision \in {"promote", "reject"}
    BY VerdictIs
  <1>5. VerdictOf(me) = VerdictOf(old)
    BY <1>2 DEF VerdictOf
  <1>6. pc = IF VerdictOf(me).decision = "promote" THEN "lifecycle" ELSE "record"
    BY <1>4, <1>5
  <1>7. VerdictOf(me).decision \in {"promote", "reject"}
    BY VerdictIs
  <1> HIDE DEF me, pc, old
  <1>8. Sound(r, me, trials)
    BY <1>1, <1>2, <1>6, <1>7 DEF Sound
  <1> QED BY <1>1, <1>2, <1>3, <1>8, RunnerMoves

\* A lifecycle of a promoted candidate ends in an outcome (run_lifecycle).
LEMMA LifecycleStep ==
    ASSUME TrialInv, NEW r \in Runners, BeginLifecycle(r) \/ EndLifecycle(r)
    PROVE  TrialInv'
  <1> DEFINE old == runners[r]
  <1>1. old \in RunnerStates /\ knob \in Readings /\ Sound(r, old, trials)
    BY DEF TrialInv, TrialTypes, RunnersInv
  <1>2. old.spec \in Specs /\ Validate(old.spec) = "none" /\ old.pc \in {"lifecycle", "applied"}
    BY <1>1 DEF BeginLifecycle, EndLifecycle, Sound
  <1>3. old.spec.value \in Nat /\ old.snap \in Readings
    <2>1. old.spec.value \in 0..MaxMockValue
      BY <1>2, GateHolds
    <2> QED BY <1>1, <2>1, StateFields, TrialAssumption
  <1>4. trials' = trials
    BY DEF BeginLifecycle, EndLifecycle
  <1>5. knob' \in Readings
    BY <1>1, <1>3 DEF BeginLifecycle, EndLifecycle, Readings
  <1>6. VerdictOf(old).decision = "promote" /\ old.outcome = "none" /\ old.rowid = 0
    BY <1>1, <1>2 DEF Sound
  <1>7. CASE old.pc = "lifecycle" /\ runners' = [runners EXCEPT ![r].pc = "applied", ![r].snap = knob]
    <2> DEFINE me == [old EXCEPT !.pc = "applied", !.snap = knob]
    <2>1. /\ me \in RunnerStates /\ me.pc = "applied" /\ me.spec = old.spec /\ me.base = old.base
          /\ me.outcome = old.outcome /\ me.result = old.result /\ me.rowid = old.rowid /\ me.answer = old.answer
      BY <1>1 DEF RunnerStates
    <2>2. runners' = [runners EXCEPT ![r] = me]
      BY <1>1, <1>7 DEF TrialInv, TrialTypes
    <2>3. VerdictOf(me) = VerdictOf(old)
      BY <2>1 DEF VerdictOf
    <2> HIDE DEF me, old
    <2>4. Sound(r, me, trials)
      BY <1>1, <1>2, <1>6, <2>1, <2>3 DEF Sound
    <2> QED BY <1>4, <1>5, <2>1, <2>2, <2>4, RunnerMoves
  <1>8. ASSUME NEW outcome \in Outcomes \ {"none"}, NEW result \in Results,
               outcome = "ok" => result.verified /\ result.rolled_back,
               runners' = [runners EXCEPT ![r] = [old EXCEPT
                              !.pc = "record", !.outcome = outcome, !.result = result]]
        PROVE  TrialInv'
    <2> DEFINE me == [old EXCEPT !.pc = "record", !.outcome = outcome, !.result = result]
    <2>1. /\ me \in RunnerStates /\ me.pc = "record" /\ me.spec = old.spec /\ me.base = old.base
          /\ me.outcome = outcome /\ me.result = result /\ me.rowid = old.rowid /\ me.answer = old.answer
      BY <1>1 DEF RunnerStates
    <2>2. runners' = [runners EXCEPT ![r] = me]
      BY <1>1, <1>8 DEF TrialInv, TrialTypes
    <2>3. VerdictOf(me) = VerdictOf(old)
      BY <2>1 DEF VerdictOf
    <2> HIDE DEF me, old
    <2>4. Sound(r, me, trials)
      BY <1>1, <1>2, <1>6, <1>8, <2>1, <2>3 DEF Sound
    <2> QED BY <1>4, <1>5, <2>1, <2>2, <2>4, RunnerMoves
  <1>9. /\ "ok" \in Outcomes \ {"none"} /\ LifecycleErrors \subseteq Outcomes \ {"none", "ok"}
        /\ PlaneValidate(old.spec) # "ok" => PlaneValidate(old.spec) \in Outcomes \ {"none", "ok"}
    BY DEF Outcomes, LifecycleErrors, PlaneValidate
  <1>10. runners[r] = old /\ old.result \in Results /\ runners \in [Runners -> RunnerStates]
    BY <1>1 DEF RunnerStates, TrialInv, TrialTypes
  <1>11. ASSUME NEW outcome,
                runners' = [runners EXCEPT ![r].pc = "record", ![r].outcome = outcome],
                outcome \in Outcomes \ {"none", "ok"}
         PROVE  TrialInv'
    <2>1. [old EXCEPT !.pc = "record", !.outcome = outcome]
             = [old EXCEPT !.pc = "record", !.outcome = outcome, !.result = old.result]
      BY <1>1 DEF RunnerStates
    <2>2. runners' = [runners EXCEPT ![r] = [old EXCEPT
                         !.pc = "record", !.outcome = outcome, !.result = old.result]]
      BY <1>11, <2>1
    <2> HIDE DEF old
    <2> QED BY <1>8, <1>10, <1>11, <2>2
  <1>12. CASE BeginLifecycle(r)
    <2>1. /\ old.pc = "lifecycle"
          /\ \/ runners' = [runners EXCEPT ![r].pc = "applied", ![r].snap = knob]
             \/ \E error \in IF PlaneValidate(old.spec) = "ok" THEN {"provider", "journal"}
                             ELSE {PlaneValidate(old.spec)} :
                   runners' = [runners EXCEPT ![r].pc = "record", ![r].outcome = error]
      BY <1>12 DEF BeginLifecycle
    <2>2. {"provider", "journal"} \subseteq Outcomes \ {"none", "ok"}
      BY DEF Outcomes, LifecycleErrors
    <2> HIDE DEF old
    <2> QED BY <1>7, <1>9, <1>11, <2>1, <2>2
  <1>13. CASE EndLifecycle(r)
    <2>1. CASE \E error \in LifecycleErrors :
                  runners' = [runners EXCEPT ![r].pc = "record", ![r].outcome = error]
      BY <1>9, <1>11, <2>1
    <2>2. CASE /\ LifecycleResult(r).verified /\ LifecycleResult(r).rolled_back
               /\ runners' = [runners EXCEPT ![r].pc = "record", ![r].outcome = "ok",
                                             ![r].result = LifecycleResult(r)]
      <3>1. PICK result : result = LifecycleResult(r)
        OBVIOUS
      <3>2. result \in Results /\ result.verified /\ result.rolled_back
        BY <2>2, <3>1 DEF LifecycleResult, Results
      <3>3. runners' = [runners EXCEPT ![r] = [old EXCEPT
                           !.pc = "record", !.outcome = "ok", !.result = result]]
        BY <2>2, <3>1
      <3> HIDE DEF old
      <3> QED BY <1>8, <1>9, <3>2, <3>3
    <2> QED BY <1>13, <2>1, <2>2 DEF EndLifecycle
  <1> QED BY <1>12, <1>13

\* The record of a trial replays (run_trial's record against check_policy and the
\* recomputed verdict).
LEMMA RecordReplays ==
    ASSUME TrialInv, NEW r \in Runners, runners[r].pc = "record"
    PROVE  /\ TrialRecord(r).runner = r
           /\ Recomputed(TrialRecord(r)) = TrialRecord(r).verdict
           /\ CheckPolicy(TrialRecord(r))
  <1> DEFINE me == runners[r]
             row == TrialRecord(r)
  <1>1. me \in RunnerStates /\ Sound(r, me, trials)
    BY DEF TrialInv, TrialTypes, RunnersInv
  <1>2. /\ me.spec \in Specs /\ Validate(me.spec) = "none" /\ me.base <= MaxMockValue
        /\ me.outcome = "none" <=> VerdictOf(me).decision = "reject"
        /\ me.outcome = "ok" => me.result.verified /\ me.result.rolled_back
    BY <1>1 DEF Sound
  <1>3. /\ ValidateSpec(me.spec) = "none" /\ me.spec.value \in 0..MaxMockValue
        /\ me.spec.warmup \in Nat /\ me.spec.nbase \in Nat /\ me.spec.ncand \in Nat
    BY <1>2, GateHolds
  <1>4. me.base \in 0..MaxMockValue
    BY <1>1, <1>2, StateFields, TrialAssumption
  <1>5. Len(BaselineSamples(r)) = me.spec.nbase /\ Len(CandidateSamples(r)) = me.spec.ncand
    BY <1>3, <1>4, MeasureCounts DEF BaselineSamples, CandidateSamples
  <1>6. Verdict(r) = VerdictOf(me) /\ VerdictOf(me).decision \in {"promote", "reject"}
    BY VerdictIs
  <1>7. /\ row.runner = r /\ row.spec = me.spec /\ row.base = me.base /\ row.cand = me.spec.value
        /\ row.bsamples = BaselineSamples(r) /\ row.csamples = CandidateSamples(r)
        /\ row.verdict = Verdict(r)
        /\ row.lifecycle = IF me.outcome = "ok" THEN {me.result} ELSE {}
        /\ row.failure = (me.outcome \notin {"none", "ok"})
    BY DEF TrialRecord
  <1> HIDE DEF row
  <1>8. Recomputed(row) = row.verdict
    BY <1>7 DEF Recomputed, Verdict
  <1> HIDE DEF me
  <1>9. \/ row.verdict.decision = "promote" /\ (row.lifecycle # {}) # row.failure
        \/ row.verdict.decision = "reject" /\ row.lifecycle = {} /\ ~row.failure
    <2>1. CASE me.outcome = "none"
      BY <1>2, <1>6, <1>7, <2>1
    <2>2. CASE me.outcome # "none"
      <3>1. row.verdict.decision = "promote"
        BY <1>2, <1>6, <1>7, <2>2
      <3>2. (row.lifecycle # {}) = (me.outcome = "ok")
        BY <1>7
      <3>3. row.failure = (me.outcome # "ok")
        BY <1>7, <2>2
      <3>4. (row.lifecycle # {}) # row.failure
        BY <3>2, <3>3
      <3> QED BY <3>1, <3>4
    <2> QED BY <2>1, <2>2
  <1>10. \A result \in row.lifecycle : result.verified /\ result.rolled_back
    BY <1>2, <1>7
  <1>11. CheckPolicy(row)
    BY <1>2, <1>3, <1>5, <1>7, <1>9, <1>10 DEF CheckPolicy
  <1> QED BY <1>7, <1>8, <1>11 DEF row

\* The trial is recorded, under an identifier the connection remembers, or its
\* record is refused (record_trial).
LEMMA RecordStep ==
    ASSUME TrialInv, NEW r \in Runners, RecordTrial(r)
    PROVE  TrialInv'
  <1> DEFINE old == runners[r]
             row == TrialRecord(r)
  <1>1. /\ old \in RunnerStates /\ Sound(r, old, trials) /\ old.pc = "record"
        /\ Rowed(trials) /\ knob \in Readings /\ runners \in [Runners -> RunnerStates]
    BY DEF TrialInv, TrialTypes, RunnersInv, RecordTrial
  <1>2. knob' = knob
    BY DEF RecordTrial
  <1>3. CASE trials' = trials /\ Goto(r, "answer")
    <2> DEFINE me == [old EXCEPT !.pc = "answer"]
    <2>1. /\ me \in RunnerStates /\ me.pc = "answer" /\ me.spec = old.spec /\ me.base = old.base
          /\ me.outcome = old.outcome /\ me.result = old.result /\ me.rowid = old.rowid /\ me.answer = old.answer
      BY <1>1 DEF RunnerStates
    <2>2. runners' = [runners EXCEPT ![r] = me]
      BY <1>1, <1>3 DEF Goto
    <2>3. VerdictOf(me) = VerdictOf(old)
      BY <2>1 DEF VerdictOf
    <2> HIDE DEF me, old
    <2>4. Sound(r, me, trials)
      BY <1>1, <2>1, <2>3 DEF Sound
    <2> QED BY <1>1, <1>2, <1>3, <2>1, <2>2, <2>4, RunnerMoves
  <1>4. CASE /\ trials' = Append(trials, row)
             /\ runners' = [runners EXCEPT ![r].pc = "answer", ![r].rowid = Len(trials) + 1]
    <2> DEFINE n == Len(trials) + 1
               me == [old EXCEPT !.pc = "answer", !.rowid = n]
    <2>1. /\ DOMAIN trials = 1..Len(trials) /\ Len(trials) \in Nat
          /\ Rowed(trials') /\ DOMAIN trials' = 1..(Len(trials) + 1)
          /\ \A i \in DOMAIN trials : trials'[i] = trials[i]
          /\ trials'[Len(trials) + 1] = row
      BY <1>1, <1>4, RowAppended
    <2>2. /\ row.runner = r /\ Recomputed(row) = row.verdict /\ CheckPolicy(row)
      BY <1>1, RecordReplays
    <2>3. n \in Nat /\ n # 0 /\ n \in DOMAIN trials'
      BY <2>1
    <2>4. /\ me \in RunnerStates /\ me.pc = "answer" /\ me.spec = old.spec /\ me.base = old.base
          /\ me.outcome = old.outcome /\ me.result = old.result /\ me.rowid = n /\ me.answer = old.answer
      BY <1>1, <2>3 DEF RunnerStates
    <2>5. runners' = [runners EXCEPT ![r] = me]
      BY <1>1, <1>4
    <2>6. VerdictOf(me) = VerdictOf(old)
      BY <2>4 DEF VerdictOf
    <2>7. trials'[n] = row
      BY <2>1
    <2> HIDE DEF me, old, row, n
    <2>8. Sound(r, me, trials')
      <3>1. WroteRow(r, n, trials')
        BY <2>2, <2>3, <2>7 DEF WroteRow
      <3>2. old.answer.id = 0
        BY <1>1 DEF Sound
      <3> QED BY <1>1, <2>4, <2>6, <3>1, <3>2 DEF Sound
    <2>9. \A d \in Runners : runners'[d] = IF d = r THEN me ELSE runners[d]
      BY <1>1, <2>5
    <2>10. RunnersInv'
      <3>1. \A d \in Runners : Sound(d, runners[d], trials')
        BY <1>1, <1>4, SoundGrows DEF TrialInv, RunnersInv
      <3> QED BY <2>8, <2>9, <3>1 DEF RunnersInv
    <2>11. \A i \in DOMAIN trials' : i \in DOMAIN trials \/ i = n
      BY <2>1 DEF n
    <2>12. ReplayAccepts'
      BY <2>1, <2>2, <2>7, <2>11 DEF TrialInv, ReplayAccepts
    <2>13. TrialTypes'
      BY <1>1, <1>2, <2>1, <2>4, <2>5 DEF TrialTypes
    <2> QED BY <2>10, <2>12, <2>13 DEF TrialInv
  <1> QED BY <1>3, <1>4 DEF RecordTrial

\* The caller is answered with its own row (run_trial's return), or the runner
\* dies.
LEMMA ReturnStep ==
    ASSUME TrialInv, NEW r \in Runners, AnswerTrial(r) \/ Crash(r)
    PROVE  TrialInv'
  <1> DEFINE old == runners[r]
  <1>1. old \in RunnerStates /\ Sound(r, old, trials) /\ knob \in Readings /\ old.rowid \in Nat
    BY StateFields DEF TrialInv, TrialTypes, RunnersInv
  <1>2. trials' = trials /\ knob' = knob
    BY DEF AnswerTrial, Crash
  <1>3. \A e \in RunnerErrors, b \in BOOLEAN, id \in {0, old.rowid} :
           Answer(e, id, b) \in Answers /\ Answer(e, id, b).id = id
    BY <1>1 DEF Answer, Answers
  <1>4. old.rowid # 0 => WroteRow(r, old.rowid, trials)
    BY <1>1 DEF Sound
  <1>5. ASSUME NEW e \in RunnerErrors, NEW b \in BOOLEAN, NEW id \in {0, old.rowid},
               Return(r, Answer(e, id, b))
        PROVE  TrialInv'
    <2>1. Answer(e, id, b) \in Answers /\ Answer(e, id, b).id = id
      BY <1>3
    <2>2. Sound(r, Idle(Answer(e, id, b)), trials) /\ Idle(Answer(e, id, b)) \in RunnerStates
      BY <1>4, <2>1, IdleSound
    <2> QED BY <1>1, <1>2, <1>5, <2>2, RunnerMoves DEF Return
  <1>6. {"none", "lifecycle-failed", "trial-not-journaled"} \subseteq RunnerErrors
    BY DEF RunnerErrors
  <1>7. \E e \in RunnerErrors, b \in BOOLEAN, id \in {0, old.rowid} : Return(r, Answer(e, id, b))
    BY <1>6 DEF AnswerTrial, Crash
  <1> QED BY <1>5, <1>7

\* Every step of the runners preserves the invariant.
LEMMA TrialStep == TrialInv /\ [Next]_vars => TrialInv'
  <1> SUFFICES ASSUME TrialInv, [Next]_vars PROVE TrialInv'
    OBVIOUS
  <1>1. CASE Next
    BY <1>1, RunTrialStep, DecideStep, LifecycleStep, RecordStep, ReturnStep DEF Next
  <1>2. CASE UNCHANGED vars
    BY <1>2 DEF vars, TrialInv, TrialTypes, RunnersInv, ReplayAccepts
  <1> QED BY <1>1, <1>2

\* The invariant, for every behaviour.
LEMMA TrialInvariance == Spec => []TrialInv
  BY TrialInit, TrialStep, PTL DEF Spec

-----------------------------------------------------------------------------
\* What follows

\* Whatever a runner records, a promotion, a rejection or a failed lifecycle, is
\* accepted on replay: the recomputed verdict is the recorded one and the policy
\* gate passes, a recorded lifecycle's own contents included, for any specs, sample
\* counts and policy and whatever other runners do to the provider (run_trial,
\* replay_trial, check_policy).
THEOREM RecordsReplay == Spec => []ReplayAccepts
  <1>1. TrialInv => ReplayAccepts
    BY DEF TrialInv
  <1> QED BY <1>1, TrialInvariance, PTL

\* The identifier in an answer is the row its own runner wrote, for any number of
\* runners on one table (last_insert_rowid).
THEOREM AnswerIsOwn == Spec => []AnswerNamesOwnTrial
  <1>1. TrialInv => AnswerNamesOwnTrial
    BY DEF TrialInv, RunnersInv, Sound, WroteRow, AnswerNamesOwnTrial
  <1> QED BY <1>1, TrialInvariance, PTL

\* No spec, whatever bounds it declares, gets a candidate applied that measured
\* outside the policy envelope in a single sample (validate_bounds, evaluate).
THEOREM AppliedInside == Spec => []AppliedIsInside
  <1>1. TrialInv => AppliedIsInside
    <2> SUFFICES ASSUME TrialInv, NEW r \in Runners, runners[r].pc = "applied",
                        NEW i \in DOMAIN CandidateSamples(r)
                 PROVE  /\ CandidateSamples(r)[i].temp <= MaxTemperature
                        /\ CandidateSamples(r)[i].power <= MaxPower
                        /\ CandidateSamples(r)[i].errors <= MaxErrors
      BY DEF AppliedIsInside
    <2> DEFINE me == runners[r]
               b == BaselineSamples(r)
               c == CandidateSamples(r)
               d == me.spec.bounds
    <2>1. me \in RunnerStates /\ Sound(r, me, trials)
      BY DEF TrialInv, TrialTypes, RunnersInv
    <2>2. /\ me.spec \in Specs /\ Validate(me.spec) = "none" /\ me.base <= MaxMockValue
          /\ VerdictOf(me).decision = "promote"
      BY <2>1 DEF Sound
    <2>3. /\ me.spec.value \in 0..MaxMockValue /\ me.spec.warmup \in Nat
          /\ me.spec.nbase \in Nat /\ me.spec.ncand \in Nat /\ d \in DecisionBounds
          /\ d.max_temp <= MaxTemperature /\ d.max_power <= MaxPower /\ d.max_errors <= MaxErrors
      BY <2>2, GateHolds
    <2>4. me.base \in 0..MaxMockValue
      BY <2>1, <2>2, StateFields, TrialAssumption
    <2>5. b \in Seq(MetricSample) /\ c \in Seq(MetricSample)
      BY <2>3, <2>4, MeasureCounts DEF BaselineSamples, CandidateSamples
    <2>6. Evaluate(b, c, d).decision = "promote"
      BY <2>2 DEF VerdictOf, BaselineSamples, CandidateSamples
    <2> HIDE DEF b, c, d
    <2>7. c[i].temp <= d.max_temp /\ c[i].power <= d.max_power /\ c[i].errors <= d.max_errors
      BY <2>3, <2>5, <2>6, PromotedIsInside DEF c
    <2>8. c[i] \in MetricSample
      BY <2>5 DEF c
    <2>9. c[i].temp \in Int /\ c[i].power \in Int /\ c[i].errors \in Int
      BY <2>8, CountAssumption DEF MetricSample
    <2>10. d.max_temp \in Int /\ d.max_power \in Int /\ d.max_errors \in Int
      BY <2>3, CountAssumption DEF DecisionBounds
    <2>11. c[i].temp <= MaxTemperature /\ c[i].power <= MaxPower /\ c[i].errors <= MaxErrors
      BY <2>3, <2>7, <2>9, <2>10, TrialAssumption
    <2> QED BY <2>11 DEF c
  <1> QED BY <1>1, TrialInvariance, PTL

\* A caller whose trial mutated the provider learns of it, from the answer or from
\* the error: a refused record never hides a completed lifecycle (run_trial).
THEOREM MutationReported == Spec => MutationIsReported
  <1>1. TrialInv /\ [Next]_vars => [ReportsMutation]_vars
    <2> SUFFICES ASSUME TrialInv, Next, NEW r \in Runners,
                        runners[r].pc = "answer", runners'[r].pc = "idle"
                 PROVE  \/ runners[r].outcome = "none"
                        \/ runners'[r].answer = Answer("none", 0, FALSE)
                        \/ runners'[r].answer.lifecycle
                        \/ runners'[r].answer.error = "lifecycle-failed"
      BY DEF ReportsMutation
    <2>1. runners \in [Runners -> RunnerStates]
      BY DEF TrialInv, TrialTypes
    <2>2. ASSUME NEW d \in Runners, d # r,
                 \/ \E spec \in Specs : RunTrial(d, spec)
                 \/ Decide(d) \/ BeginLifecycle(d) \/ EndLifecycle(d) \/ RecordTrial(d)
                 \/ AnswerTrial(d) \/ Crash(d)
          PROVE  runners'[r] = runners[r]
      BY <2>1, <2>2 DEF RunTrial, Decide, BeginLifecycle, EndLifecycle, RecordTrial, AnswerTrial,
         Crash, Return, Goto
    <2>3. AnswerTrial(r) \/ Crash(r)
      BY <2>2 DEF Next, RunTrial, Decide, BeginLifecycle, EndLifecycle, RecordTrial
    <2>4. ASSUME NEW answer, Return(r, answer) PROVE runners'[r].answer = answer
      BY <2>1, <2>4 DEF Return, Idle
    <2>5. CASE Crash(r)
      BY <2>4, <2>5 DEF Crash
    <2>6. CASE AnswerTrial(r)
      <3>1. \A e, id : Answer(e, id, TRUE).lifecycle /\ Answer(e, id, FALSE).error = e
        BY DEF Answer
      <3>2. CASE runners[r].outcome = "ok"
        <4>1. (runners[r].outcome = "ok") = TRUE
          BY <3>2
        <4>2. \E e, id : runners'[r].answer = Answer(e, id, TRUE)
          BY <2>4, <2>6, <3>2, <4>1 DEF AnswerTrial
        <4> QED BY <3>1, <4>2
      <3>3. CASE runners[r].outcome \notin {"none", "ok"}
        <4>1. \E id : runners'[r].answer = Answer("lifecycle-failed", id, FALSE)
          BY <2>4, <2>6, <3>3 DEF AnswerTrial
        <4> QED BY <3>1, <4>1
      <3> QED BY <3>2, <3>3
    <2> QED BY <2>3, <2>5, <2>6
  <1>2. Spec => [][Next]_vars
    BY PTL DEF Spec
  <1> QED BY <1>1, <1>2, TrialInvariance, PTL DEF MutationIsReported

=============================================================================
