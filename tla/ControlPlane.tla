----------------------------- MODULE ControlPlane ----------------------------
(***************************************************************************)
(* ControlPlane::run_lifecycle, one step per provider call or journal      *)
(* write, for a set of processes ("planes": the gateway's or the broker's  *)
(* control plane) that share one journal and one provider.                 *)
(*                                                                         *)
(* A read-only provider call is taken together with the INSERT that        *)
(* follows it.  A call that changes the setting is a step of its own, so a *)
(* crash, another plane or the watchdog may come between it and its row.   *)
(***************************************************************************)
EXTENDS Host, FiniteSets

CONSTANTS
    Planes,          \* the processes that hold a control plane
    Requests,        \* the ChangeRequests callers submit
    MaxExperiments   \* bound: correlation IDs allocated in a behaviour

ASSUME PlaneAssumption ==
    /\ MaxExperiments \in Nat
    /\ \A r \in Requests : /\ r.val \in Nat
                           /\ r.lease \in Nat \ {0}
                           /\ r.reversible \in BOOLEAN
                           /\ r.known \in BOOLEAN

VARIABLE planes      \* the local state of every plane

planeVars == <<hostVars, planes>>

\* Where a plane is in run_lifecycle; "idle" is outside of it.
PCs == {"idle", "begin", "preview", "intent", "apply", "applied", "verify",
        "rollback", "rolled", "check", "outcome"}

NoFailure == [stage |-> "none", kind |-> "none"]

FailureKinds == {"provider", "journal", "verification-failed",
                 "rollback-verification-failed"}

Failures == [stage : FailureStages, kind : FailureKinds]

Replies == {"none", "ok", "unknown-capability", "policy-denied"} \cup FailureKinds

NoRequest == [val |-> 0, lease |-> 0]

\* A plane outside of run_lifecycle, that returned this to its last caller.
Idle(reply) ==
    [pc |-> "idle", exp |-> 0, req |-> NoRequest, snap |-> 0,
     failure |-> NoFailure, suppressed |-> "none", reply |-> reply]

PlaneInit == planes = [p \in Planes |-> Idle("none")]

-----------------------------------------------------------------------------
\* Steps of the local state

Goto(p, pc) == planes' = [planes EXCEPT ![p].pc = pc]

Return(p, reply) == planes' = [planes EXCEPT ![p] = Idle(reply)]

\* Err(StageFailure::new(stage, error)): the plane goes on at pc.
Fail(p, stage, kind, pc) ==
    planes' = [planes EXCEPT ![p].pc = pc,
                             ![p].failure = [stage |-> stage, kind |-> kind]]

\* Mutant: the superseded failure is dropped.
MutFailRestoreDrops(p, stage, kind) ==
    planes' = [planes EXCEPT ![p].pc = "outcome",
                             ![p].failure = [stage |-> stage, kind |-> kind]]

\* A restore failure supersedes the failure the stages before it left.
FailRestore(p, stage, kind) ==
    planes' = [planes EXCEPT ![p].pc = "outcome",
                             ![p].failure = [stage |-> stage, kind |-> kind],
                             ![p].suppressed = planes[p].failure.stage]

\* journal.execute: the row is appended and the plane goes on at pc, ...
Record(p, row, pc) ==
    /\ Insert(<<row>>)
    /\ Goto(p, pc)
    /\ NoFault

\* ... or SQLite reports an error and nothing is written.
RecordError(p, stage, pc) ==
    /\ Fault("journal")
    /\ Fail(p, stage, "journal", pc)
    /\ UNCHANGED journal

-----------------------------------------------------------------------------
\* Mutant: the value ceiling is not checked.
MutValidateNoCeiling(request) ==
    CASE ~request.known                -> "unknown-capability"
      [] request.known /\ (\/ ~request.reversible
                           \/ request.lease > MaxLease) -> "policy-denied"
      [] OTHER                         -> "ok"

\* validate: the kind of the error, or "ok".  A value that is not a u64 is denied
\* like one past the ceiling and is not told apart from it here.
Validate(request) ==
    CASE ~request.known                -> "unknown-capability"
      [] request.known /\ (\/ ~request.reversible
                           \/ request.lease > MaxLease
                           \/ request.val > MaxMockValue) -> "policy-denied"
      [] OTHER                         -> "ok"

Allocated == Cardinality(Ids(journal)) + Cardinality({p \in Planes : planes[p].pc = "begin"})

\* run_lifecycle is called: a request outside the policy is turned away, else
\* the baseline snapshot is taken.
Submit(p, request) ==
    /\ planes[p].pc = "idle"
    /\ \/ /\ Validate(request) # "ok"
          /\ Return(p, Validate(request))
          /\ NoFault
       \/ /\ Validate(request) = "ok"
          /\ Fault("snapshot")
          /\ Return(p, "provider")
       \/ /\ Validate(request) = "ok"
          /\ Allocated < MaxExperiments
          /\ planes' = [planes EXCEPT ![p] =
                [Idle("none") EXCEPT !.pc = "begin",
                                     !.req = [val |-> request.val, lease |-> request.lease],
                                     !.snap = ProviderSnapshot]]
          /\ NoFault
    /\ UNCHANGED <<journal, knob, now>>

\* begin_experiment: the ID and the snapshot row in one IMMEDIATE transaction.
BeginExperiment(p) ==
    /\ planes[p].pc = "begin"
    /\ \/ /\ Insert(<<SnapshotRow(NextId(journal), planes[p].snap)>>)
          /\ planes' = [planes EXCEPT ![p].pc = "preview",
                                      ![p].exp = NextId(journal)]
          /\ NoFault
       \/ /\ Fault("journal")
          /\ Return(p, "journal")
          /\ UNCHANGED journal
    /\ UNCHANGED <<knob, now>>

Preview(p) ==
    /\ planes[p].pc = "preview"
    /\ \/ Record(p, Row(planes[p].exp, "preview"), "intent")
       \/ RecordError(p, "preview", "outcome")
       \/ /\ Fault("preview")
          /\ Fail(p, "preview", "provider", "outcome")
          /\ UNCHANGED journal
    /\ UNCHANGED <<knob, now>>

\* The write-ahead record: committed before the provider is asked to change.
RecordIntent(p) ==
    /\ planes[p].pc = "intent"
    /\ \/ Record(p, IntentRow(planes[p].exp, planes[p].req, now), "apply")
       \/ RecordError(p, "apply-intent", "outcome")
    /\ UNCHANGED <<knob, now>>

\* Mutant: an apply error is returned without a restore.
MutApplySkipsRestore(p) ==
    /\ planes[p].pc = "apply"
    /\ \/ /\ ProviderApply(planes[p].req.val)
          /\ Goto(p, "applied")
          /\ NoFault
       \/ /\ Fault("apply")
          /\ ProviderApplyError(planes[p].req.val)
          /\ Fail(p, "apply", "provider", "outcome")
    /\ UNCHANGED <<journal, now>>

Apply(p) ==
    /\ planes[p].pc = "apply"
    /\ \/ /\ ProviderApply(planes[p].req.val)
          /\ Goto(p, "applied")
          /\ NoFault
       \/ /\ Fault("apply")
          /\ ProviderApplyError(planes[p].req.val)
          /\ Fail(p, "apply", "provider", "rollback")
    /\ UNCHANGED <<journal, now>>

RecordApply(p) ==
    /\ planes[p].pc = "applied"
    /\ \/ Record(p, Row(planes[p].exp, "apply"), "verify")
       \/ RecordError(p, "apply", "rollback")
    /\ UNCHANGED <<knob, now>>

\* Mutant: an unverified change is closed at once, before its restore.
MutVerifyClosesEarly(p) ==
    /\ planes[p].pc = "verify"
    /\ \/ /\ ProviderVerify(planes[p].req.val)
          /\ Record(p, NoteRow(planes[p].exp, "verify", "true"), "rollback")
       \/ /\ \/ ~ProviderVerify(planes[p].req.val) /\ NoFault
             \/ ProviderVerify(planes[p].req.val) /\ Fault("verify")
          /\ Insert(<<FailedRow(planes[p].exp, "verify", "none")>>)
          /\ Fail(p, "verify", "verification-failed", "rollback")
    /\ UNCHANGED <<knob, now>>

\* Mutant: a verify error is returned without a restore.
MutVerifySkipsRestore(p) ==
    /\ planes[p].pc = "verify"
    /\ \/ /\ ProviderVerify(planes[p].req.val)
          /\ Record(p, NoteRow(planes[p].exp, "verify", "true"), "rollback")
       \/ /\ Fault("verify")
          /\ Fail(p, "verify", "provider", "outcome")
          /\ UNCHANGED journal
    /\ UNCHANGED <<knob, now>>

\* provider.verify and its record; an unverified change is a failure after it
\* has been journaled.
Verify(p) ==
    /\ planes[p].pc = "verify"
    /\ \/ /\ ProviderVerify(planes[p].req.val)
          /\ Record(p, NoteRow(planes[p].exp, "verify", "true"), "rollback")
       \/ /\ \/ ~ProviderVerify(planes[p].req.val) /\ NoFault
             \/ ProviderVerify(planes[p].req.val) /\ Fault("verify")
          /\ Insert(<<NoteRow(planes[p].exp, "verify", "false")>>)
          /\ Fail(p, "verify", "verification-failed", "rollback")
       \/ /\ Fault("verify")
          /\ Fail(p, "verify", "provider", "rollback")
          /\ UNCHANGED journal
       \/ RecordError(p, "verify", "rollback")
    /\ UNCHANGED <<knob, now>>

\* Mutant: only a failed experiment is rolled back.
MutRollbackOnFailure(p) ==
    /\ planes[p].pc = "rollback"
    /\ \/ /\ planes[p].failure # NoFailure
          /\ ProviderRollback(planes[p].snap)
       \/ planes[p].failure = NoFailure /\ UNCHANGED knob
    /\ IF planes[p].failure = NoFailure THEN Goto(p, "outcome") ELSE Goto(p, "rolled")
    /\ NoFault
    /\ UNCHANGED <<journal, now>>

\* restore, first call: reached from every outcome of apply and what follows it.
Rollback(p) ==
    /\ planes[p].pc = "rollback"
    /\ \/ /\ ProviderRollback(planes[p].snap)
          /\ Goto(p, "rolled")
          /\ NoFault
       \/ /\ Fault("rollback")
          /\ ProviderCorruptRollback(planes[p].snap)
          /\ Goto(p, "rolled")
       \/ /\ Fault("rollback")
          /\ FailRestore(p, "rollback", "provider")
          /\ UNCHANGED knob
    /\ UNCHANGED <<journal, now>>

RecordRollback(p) ==
    /\ planes[p].pc = "rolled"
    /\ \/ Record(p, [Row(planes[p].exp, "rollback") EXCEPT !.val = planes[p].snap], "check")
       \/ /\ Fault("journal")
          /\ FailRestore(p, "rollback", "journal")
          /\ UNCHANGED journal
    /\ UNCHANGED <<knob, now>>

\* Mutant: the result of the probe is journaled and not acted on.
MutRollbackVerifyTrusting(p) ==
    /\ planes[p].pc = "check"
    /\ \E note \in {"true", "false"} :
          /\ note = "true" <=> ProviderSnapshot = planes[p].snap
          /\ Record(p, NoteRow(planes[p].exp, "rollback-verify", note), "outcome")
    /\ UNCHANGED <<knob, now>>

\* Mutant: a failed experiment is restored again and again.
MutRollbackVerifyRetries(p) ==
    /\ planes[p].pc = "check"
    /\ ProviderSnapshot = planes[p].snap
    /\ Goto(p, IF planes[p].failure = NoFailure THEN "outcome" ELSE "check")
    /\ NoFault
    /\ UNCHANGED <<journal, knob, now>>

\* provider.snapshot is compared with the baseline and the result journaled.
RollbackVerify(p) ==
    /\ planes[p].pc = "check"
    /\ \/ /\ ProviderSnapshot = planes[p].snap
          /\ Record(p, NoteRow(planes[p].exp, "rollback-verify", "true"), "outcome")
       \/ /\ ProviderSnapshot # planes[p].snap
          /\ Insert(<<NoteRow(planes[p].exp, "rollback-verify", "false")>>)
          /\ FailRestore(p, "rollback-verify", "rollback-verification-failed")
          /\ NoFault
       \/ /\ Fault("snapshot")
          /\ FailRestore(p, "rollback-verify", "provider")
          /\ UNCHANGED journal
       \/ /\ Fault("journal")
          /\ FailRestore(p, "rollback-verify", "journal")
          /\ UNCHANGED journal
    /\ UNCHANGED <<knob, now>>

\* record_outcome: the terminal record.  If a `completed` record cannot be
\* written the caller gets the journal error; if a `failed` record cannot, the
\* caller still gets the failure.
RecordOutcome(p) ==
    /\ planes[p].pc = "outcome"
    /\ \/ /\ planes[p].failure = NoFailure
          /\ Insert(<<Row(planes[p].exp, "completed")>>)
          /\ Return(p, "ok")
          /\ NoFault
       \/ /\ planes[p].failure = NoFailure
          /\ Fault("journal")
          /\ Return(p, "journal")
          /\ UNCHANGED journal
       \/ /\ planes[p].failure # NoFailure
          /\ \/ Insert(<<FailedRow(planes[p].exp, planes[p].failure.stage,
                                   planes[p].suppressed)>>) /\ NoFault
             \/ Fault("journal") /\ UNCHANGED journal
          /\ Return(p, planes[p].failure.kind)
    /\ UNCHANGED <<knob, now>>

\* The process dies (or its provider call panics) and is started again.
Crash(p) ==
    /\ planes[p].pc # "idle"
    /\ Fault("crash")
    /\ Return(p, "none")
    /\ UNCHANGED <<journal, knob, now>>

\* The next step of run_lifecycle, whatever it is.
Continue(p) ==
    \/ BeginExperiment(p) \/ Preview(p) \/ RecordIntent(p) \/ Apply(p)
    \/ RecordApply(p) \/ Verify(p) \/ Rollback(p) \/ RecordRollback(p)
    \/ RollbackVerify(p) \/ RecordOutcome(p)

PlaneNext ==
    \E p \in Planes :
        \/ \E request \in Requests : Submit(p, request)
        \/ Continue(p)
        \/ Crash(p)

\* The control planes of one host, without a watchdog.
PlanesInit == HostInit /\ PlaneInit

PlaneSpec == PlanesInit /\ [][PlaneNext]_planeVars

-----------------------------------------------------------------------------
PlaneStates ==
    [pc : PCs, exp : Nat, req : [val : Settings, lease : Nat], snap : Settings,
     failure : Failures \cup {NoFailure}, suppressed : FailureStages \cup {"none"},
     reply : Replies]

\* Every variable keeps to the values the code can give it; in particular no
\* setting past the policy ceiling is requested, snapshotted or applied.
PlaneTypeOK ==
    /\ journal \in Seq(Rows)
    /\ knob \in Settings
    /\ now \in Nat
    /\ faults \in 0..MaxFaults
    /\ planes \in [Planes -> PlaneStates]

-----------------------------------------------------------------------------
\* A correlation ID belongs to one lifecycle, however many gateways share the
\* journal: it has one snapshot row, that row is the experiment's first, and no
\* two planes are working under the same ID (begin_experiment's transaction).
UniqueCorrelation ==
    /\ \A i, k \in DOMAIN journal :
          journal[i].exp = journal[k].exp /\ journal[k].stage = "snapshot" => k <= i
    /\ \A e \in Ids(journal) : HasStage(journal, e, {"snapshot"})
    /\ \A p, q \in Planes :
          planes[p].exp # 0 /\ planes[p].exp = planes[q].exp => p = q

\* A terminal record ends the experiment's history: no second terminal record
\* and no stage record follows it (run_lifecycle, absent a watchdog).
TerminalIsLast ==
    \A i, k \in DOMAIN journal :
        i < k /\ journal[i].stage \in Terminal => journal[k].exp # journal[i].exp

\* A `completed` experiment went through the whole lifecycle: its change was
\* observed and, after that, its baseline was read back (run_stages, restore).
CompletedMeansRestored ==
    \A c \in DOMAIN journal : journal[c].stage = "completed" =>
        \E a, v, r \in 1..c :
            /\ a < v /\ v < r
            /\ \A i \in {a, v, r} : journal[i].exp = journal[c].exp
            /\ journal[a].stage = "apply-intent"
            /\ journal[v].stage = "verify" /\ journal[v].note = "true"
            /\ journal[r].stage = "rollback-verify" /\ journal[r].note = "true"

\* An apply or verify failure that a restore failure supersedes is never lost:
\* a `failed` record of a restore stage names a suppressed stage exactly when
\* the journal does not show the change verified (run_stages, record_outcome).
SupersededFailureKept ==
    \A f \in DOMAIN journal :
        /\ journal[f].stage = "failed"
        /\ journal[f].note \in {"rollback", "rollback-verify"}
        => (journal[f].why = "none") <=>
              \E v \in 1..f : /\ journal[v].exp = journal[f].exp
                              /\ journal[v].stage = "verify"
                              /\ journal[v].note = "true"

\* A baseline is never lost in silence, however many gateways drive the knob at
\* once: a host off its baseline has an unclosed experiment, or an experiment
\* that took another one's candidate for its snapshot, or a restore that was
\* journaled as failed.  Lifecycles of two planes on one knob are not kept apart.
LossIsVisible ==
    knob # Baseline =>
        \/ Dangling(journal) # {}
        \/ \E i \in DOMAIN journal :
              \/ journal[i].stage = "snapshot" /\ journal[i].val # Baseline
              \/ journal[i].stage = "failed" /\ journal[i].note \in {"rollback", "rollback-verify"}

\* A leaked setting can be found: while the host is off its baseline, some
\* experiment has an intent and no terminal record, so a recovery pass selects
\* it, however often the owner crashed or a journal write failed.  For one
\* plane whose provider's rollback works.
LeakIsDiscoverable == knob # Baseline => Dangling(journal) # {}

\* ... and the oldest unclosed experiment is the one whose snapshot is the true
\* baseline: later ones, begun after a crash, may have captured a leaked value.
OldestLeakHoldsBaseline ==
    \A c \in UnclosedExperiments(journal, now) :
        (\A d \in UnclosedExperiments(journal, now) : c.exp <= d.exp)
            => c.snap = Baseline

\* A step that answers "ok" leaves the host at the snapshot of its lifecycle.
OkIsEarned ==
    \A p \in Planes : planes[p].pc # "idle" /\ planes'[p].reply = "ok" =>
        /\ knob' = planes[p].snap
        /\ HasStage(journal', planes[p].exp, {"completed"})

\* The caller is told "ok" only in a step that finds the host at the snapshot
\* this lifecycle took, with its `completed` record committed (record_outcome).
\* For one plane.
OkMeansRestored == [][OkIsEarned]_planeVars

\* The journal as leases: an intent opens one, a terminal record closes it.
Leases ==
    INSTANCE LeasedChange WITH setting <- knob,
                               leased <- Dangling(journal),
                               closed <- ClosedIds(journal)

\* Every write is leased: any number of planes together implement the abstract
\* leased change.  The setting moves only between an intent and its terminal
\* record, and an experiment is leased once and closed once (run_stages,
\* record_outcome, absent a watchdog).
WritesAreLeased == Leases!Spec
=============================================================================
