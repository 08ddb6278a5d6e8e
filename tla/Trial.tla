-------------------------------- MODULE Trial --------------------------------
(***************************************************************************)
(* run_trial of the experiment runner, for runners that share one trial    *)
(* table and one provider, and replay_trial's verdict on what they wrote.  *)
(*                                                                         *)
(* A spec is gated, the baseline is read and both sides are measured; only *)
(* a promotion runs a lifecycle; one record is appended after it, and the  *)
(* caller gets the record's identifier or an error.  run_lifecycle itself  *)
(* is in ControlPlane: here it holds the candidate for one step, in which  *)
(* other runners may act, then looks for it and restores what it found, or *)
(* fails with the knob in either place.                                    *)
(*                                                                         *)
(* Thresholds are exact integers: the checks that refuse NaN and infinite  *)
(* bounds have no counterpart.                                             *)
(***************************************************************************)
EXTENDS Evaluator, FiniteSets

CONSTANTS
    Runners,          \* runner processes, each with its own connection
    Specs,            \* the experiment specs they are given
    MaxMockValue,     \* MAX_MOCK_VALUE
    MaxLease,         \* MAX_LEASE_SECONDS
    MaxSamples,       \* MAX_SAMPLES
    MaxHypothesis,    \* MAX_HYPOTHESIS_CHARS
    MaxTemperature,   \* MAX_DECISION_TEMPERATURE_C, in half degrees
    MaxPower,         \* MAX_DECISION_POWER_W
    MaxErrors,        \* MAX_DECISION_ERRORS
    Baselines,        \* what the provider may hold before the first trial
    MaxTrials         \* bound: records in the trial table

Missing == -1         \* a target or a snapshot without an unsigned value

\* A spec as the contracts decode it, its target split into what the gates tell
\* apart; whether the provider advertises the capability, and as a reversible one,
\* comes with it.
ExperimentSpec ==
    [modeled : BOOLEAN, advertised : BOOLEAN, reversible : BOOLEAN, hypothesis : Nat, warmup : Nat,
     nbase : Nat \ {0}, ncand : Nat \ {0}, parameters : {"value", "none", "extra"},
     value : Nat \cup {Missing}, lease : Nat, bounds : DecisionBounds]

ASSUME TrialAssumption ==
    /\ {MaxMockValue, MaxLease, MaxSamples, MaxHypothesis, MaxErrors, MaxTrials} \subseteq Nat
    /\ {MaxTemperature, MaxPower} \subseteq Nat
    /\ Baselines \subseteq Nat \cup {Missing}
    /\ Specs \subseteq ExperimentSpec
    /\ MaxMockValue <= MaxCount

VARIABLES
    trials,           \* rows of experiment_trials
    knob,             \* the provider's setting
    runners           \* the local state of every runner

vars == <<trials, knob, runners>>

LifecycleErrors == {"provider", "journal", "verification-failed",
                    "rollback-verification-failed"}

\* What a caller gets: the stored trial's identifier, or an error that names the
\* trial it is about and tells whether a lifecycle completed.
Answer(error, id, lifecycle) == [error |-> error, id |-> id, lifecycle |-> lifecycle]

NoSpec == [none |-> 0]

NoResult == [verified |-> FALSE, rolled_back |-> FALSE]

Idle(answer) ==
    [pc |-> "idle", spec |-> NoSpec, base |-> 0, snap |-> 0, outcome |-> "none",
     result |-> NoResult, rowid |-> 0, answer |-> answer]

Init ==
    /\ trials = << >>
    /\ knob \in Baselines
    /\ runners = [r \in Runners |-> Idle(Answer("none", 0, FALSE))]

Goto(r, pc) == runners' = [runners EXCEPT ![r].pc = pc]

Return(r, answer) == runners' = [runners EXCEPT ![r] = Idle(answer)]

-----------------------------------------------------------------------------
\* The gate

ValidateBounds(bounds) ==
    /\ bounds.min_samples <= MaxSamples
    /\ bounds.max_temp > 0 /\ bounds.max_temp <= MaxTemperature
    /\ bounds.max_power > 0 /\ bounds.max_power <= MaxPower
    /\ bounds.min_gain >= 0
    /\ bounds.max_errors <= MaxErrors

\* validate_spec: the first gate the spec trips, or "none".
ValidateSpec(spec) ==
    IF ~spec.modeled THEN "unknown-capability"
    ELSE IF \/ ~ValidateBounds(spec.bounds)
            \/ spec.hypothesis < 1 \/ spec.hypothesis > MaxHypothesis
            \/ \E n \in {spec.warmup, spec.nbase, spec.ncand} : n > MaxSamples
            \/ spec.nbase < spec.bounds.min_samples
            \/ spec.ncand < spec.bounds.min_samples
    THEN "invalid-spec"
    ELSE IF spec.parameters = "none" THEN "invalid-target"
    ELSE IF spec.parameters = "extra" THEN "invalid-spec"
    ELSE IF spec.value = Missing THEN "invalid-target"
    ELSE IF spec.value > MaxMockValue \/ spec.lease > MaxLease THEN "invalid-spec"
    ELSE "none"

\* validate: the attached provider has to advertise the capability first.
Validate(spec) == IF ~spec.advertised THEN "unknown-capability" ELSE ValidateSpec(spec)

\* ControlPlane::validate, on the target of a spec.
PlaneValidate(spec) ==
    IF ~spec.advertised THEN "unknown-capability"
    ELSE IF \/ ~spec.reversible \/ spec.lease > MaxLease
            \/ spec.value = Missing \/ spec.value > MaxMockValue
    THEN "policy-denied"
    ELSE "ok"

BaselineSamples(r) == Measure(runners[r].base, runners[r].spec.warmup, runners[r].spec.nbase)

CandidateSamples(r) ==
    Measure(runners[r].spec.value, runners[r].spec.warmup, runners[r].spec.ncand)

Verdict(r) == Evaluate(BaselineSamples(r), CandidateSamples(r), runners[r].spec.bounds)

-----------------------------------------------------------------------------
\* run_trial

\* baseline_value: the snapshot may be refused, and the one that is given must hold
\* an unsigned value that the policy allows.
BaselineErrors ==
    {"control-plane"}
        \cup (IF knob = Missing THEN {"invalid-baseline"} ELSE {})
        \cup (IF knob > MaxMockValue THEN {"baseline-out-of-policy"} ELSE {})

\* The gate, then the baseline.
RunTrial(r, spec) ==
    /\ runners[r].pc = "idle"
    /\ Len(trials) < MaxTrials
    /\ \/ Validate(spec) # "none" /\ Return(r, Answer(Validate(spec), 0, FALSE))
       \/ /\ Validate(spec) = "none"
          /\ \E error \in BaselineErrors : Return(r, Answer(error, 0, FALSE))
       \/ /\ Validate(spec) = "none" /\ knob # Missing /\ knob <= MaxMockValue
          /\ runners' = [runners EXCEPT ![r] =
                [Idle(Answer("none", 0, FALSE)) EXCEPT !.pc = "decide", !.spec = spec, !.base = knob]]
    /\ UNCHANGED <<trials, knob>>

\* Mutant: the verdict is not consulted.
MutDecide(r) ==
    /\ runners[r].pc = "decide"
    /\ Goto(r, "lifecycle")
    /\ UNCHANGED <<trials, knob>>

\* Measurement and verdict; a rejection goes to its record, and never mutates.
Decide(r) ==
    /\ runners[r].pc = "decide"
    /\ Goto(r, IF Verdict(r).decision = "promote" THEN "lifecycle" ELSE "record")
    /\ UNCHANGED <<trials, knob>>

\* The lifecycle starts with a snapshot of its own, is refused by the policy, or
\* fails before it has changed anything.
BeginLifecycle(r) ==
    /\ runners[r].pc = "lifecycle"
    /\ LET verdict == PlaneValidate(runners[r].spec)
       IN  \/ /\ verdict = "ok"
              /\ runners' = [runners EXCEPT ![r].pc = "applied", ![r].snap = knob]
              /\ knob' = runners[r].spec.value
           \/ /\ \E error \in IF verdict = "ok" THEN {"provider", "journal"} ELSE {verdict} :
                    runners' = [runners EXCEPT ![r].pc = "record", ![r].outcome = error]
              /\ UNCHANGED knob
    /\ UNCHANGED trials

\* What run_lifecycle reports when it returns Ok.
LifecycleResult(r) ==
    [verified    |-> knob = runners[r].spec.value,
     rolled_back |-> knob' = runners[r].snap]

\* Mutant: a change that is not seen in the provider completes.
MutEndLifecycle(r) ==
    /\ runners[r].pc = "applied"
    /\ knob' = runners[r].snap
    /\ runners' = [runners EXCEPT ![r].pc = "record", ![r].outcome = "ok",
                                  ![r].result = LifecycleResult(r)]
    /\ UNCHANGED trials

\* Verify, restore and the terminal record: Ok only with both observed, which
\* another runner's lifecycle may have prevented; or any of the errors.
EndLifecycle(r) ==
    /\ runners[r].pc = "applied"
    /\ knob' \in {runners[r].snap, knob}
    /\ \/ /\ LifecycleResult(r).verified /\ LifecycleResult(r).rolled_back
          /\ runners' = [runners EXCEPT ![r].pc = "record", ![r].outcome = "ok",
                                        ![r].result = LifecycleResult(r)]
       \/ \E error \in LifecycleErrors :
             runners' = [runners EXCEPT ![r].pc = "record", ![r].outcome = error]
    /\ UNCHANGED trials

\* The lifecycle of a record is a set of at most one result.
TrialRecord(r) ==
    [runner    |-> r,
     spec      |-> runners[r].spec,
     base      |-> runners[r].base,
     cand      |-> runners[r].spec.value,
     bsamples  |-> BaselineSamples(r),
     csamples  |-> CandidateSamples(r),
     verdict   |-> Verdict(r),
     lifecycle |-> IF runners[r].outcome = "ok" THEN {runners[r].result} ELSE {},
     failure   |-> runners[r].outcome \notin {"none", "ok"}]

\* record_trial, its INSERT: the connection remembers the row it wrote (rowid 0:
\* the write was refused).
RecordTrial(r) ==
    /\ runners[r].pc = "record"
    /\ \/ /\ trials' = Append(trials, TrialRecord(r))
          /\ runners' = [runners EXCEPT ![r].pc = "answer", ![r].rowid = Len(trials) + 1]
       \/ UNCHANGED trials /\ Goto(r, "answer")
    /\ UNCHANGED knob

\* Mutant: the identifier is read back as the last one in the table.
MutAnswerTrial(r) ==
    /\ runners[r].pc = "answer"
    /\ Return(r, Answer("none", Len(trials), runners[r].outcome = "ok"))
    /\ UNCHANGED <<trials, knob>>

\* Mutant: a record that was refused is reported without what it would have held.
MutAnswerBare(r) ==
    /\ runners[r].pc = "answer"
    /\ Return(r, IF runners[r].rowid = 0 THEN Answer("control-plane", 0, FALSE)
                 ELSE Answer("none", runners[r].rowid, runners[r].outcome = "ok"))
    /\ UNCHANGED <<trials, knob>>

\* last_insert_rowid and the return: a failed lifecycle takes precedence over a
\* refused record, and a refused record still tells that the lifecycle completed.
AnswerTrial(r) ==
    /\ runners[r].pc = "answer"
    /\ LET id == runners[r].rowid
           completed == runners[r].outcome = "ok"
       IN  \/ /\ runners[r].outcome \notin {"none", "ok"}
              /\ Return(r, Answer("lifecycle-failed", id, FALSE))
           \/ /\ runners[r].outcome \in {"none", "ok"} /\ id = 0
              /\ Return(r, Answer("trial-not-journaled", 0, completed))
           \/ /\ runners[r].outcome \in {"none", "ok"} /\ id # 0
              /\ Return(r, Answer("none", id, completed))
    /\ UNCHANGED <<trials, knob>>

\* The runner dies and is started again.
Crash(r) ==
    /\ runners[r].pc # "idle"
    /\ Return(r, Answer("none", 0, FALSE))
    /\ UNCHANGED <<trials, knob>>

Next ==
    \E r \in Runners :
        \/ \E spec \in Specs : RunTrial(r, spec)
        \/ Decide(r) \/ BeginLifecycle(r) \/ EndLifecycle(r) \/ RecordTrial(r)
        \/ AnswerTrial(r) \/ Crash(r)

Spec == Init /\ [][Next]_vars

-----------------------------------------------------------------------------
\* replay_trial

\* check_policy: the gate as it stands now, and the record against its own spec.
CheckPolicy(record) ==
    /\ ValidateSpec(record.spec) = "none"
    /\ record.cand = record.spec.value
    /\ record.base <= MaxMockValue
    /\ Len(record.bsamples) = record.spec.nbase
    /\ Len(record.csamples) = record.spec.ncand
    /\ \/ record.verdict.decision = "promote" /\ (record.lifecycle # {}) # record.failure
       \/ record.verdict.decision = "reject" /\ record.lifecycle = {} /\ ~record.failure
    /\ \A result \in record.lifecycle : result.verified /\ result.rolled_back

Recomputed(record) == Evaluate(record.bsamples, record.csamples, record.spec.bounds)

-----------------------------------------------------------------------------
\* What a runner wrote replays: the recomputed verdict is the recorded one and
\* the policy gate passes, for promotions, rejections, failed and refused
\* lifecycles alike.  A lifecycle it calls completed saw its change and undid it,
\* whatever other runners did to the provider in between (run_trial, run_lifecycle
\* and check_policy agree on the record).
ReplayAccepts ==
    \A i \in DOMAIN trials :
        /\ Recomputed(trials[i]) = trials[i].verdict
        /\ CheckPolicy(trials[i])

\* A candidate that reaches the provider was measured inside the policy envelope,
\* whatever bounds its spec declared.
AppliedIsInside ==
    \A r \in Runners : runners[r].pc = "applied" =>
        \A i \in DOMAIN CandidateSamples(r) :
            /\ CandidateSamples(r)[i].temp <= MaxTemperature
            /\ CandidateSamples(r)[i].power <= MaxPower
            /\ CandidateSamples(r)[i].errors <= MaxErrors

\* The identifier in an answer is the row this runner wrote, whoever appended in
\* the meantime (last_insert_rowid is the connection's).
AnswerNamesOwnTrial ==
    \A r \in Runners : runners[r].answer.id # 0 =>
        /\ runners[r].answer.id \in DOMAIN trials
        /\ trials[runners[r].answer.id].runner = r

\* A completed lifecycle is never reported as a bare write failure: the caller
\* of a trial that mutated the provider learns of it from the record it is
\* pointed to or from the error.
ReportsMutation ==
    \A r \in Runners : runners[r].pc = "answer" /\ runners'[r].pc = "idle" =>
        \/ runners[r].outcome = "none"
        \/ runners'[r].answer = Answer("none", 0, FALSE)  \* crashed
        \/ runners'[r].answer.lifecycle
        \/ runners'[r].answer.error = "lifecycle-failed"

MutationIsReported == [][ReportsMutation]_vars
=============================================================================
