------------------------------- MODULE Journal -------------------------------
(***************************************************************************)
(* The experiment_journal table: the rows the control plane and the        *)
(* watchdog append, and the SQL queries they run over it.  A journal is a  *)
(* sequence of rows in `sequence` (primary key) order; nothing in the code *)
(* updates or deletes a row.                                               *)
(*                                                                         *)
(* A row keeps the columns and payload members that some query or property *)
(* reads:                                                                  *)
(*   exp    experiment_id, the correlation ID                              *)
(*   stage  the stage column                                               *)
(*   val    the setting in a StateSnapshot or ChangeRequest payload        *)
(*   lease  lease_seconds of a ChangeRequest payload                       *)
(*   at     recorded_at in clock ticks (kept for apply-intent and          *)
(*          watchdog-restore rows, the ones whose time matters)            *)
(*   note   the outcome member of the payload (verified, restored, error,  *)
(*          or the failing stage of a terminal record)                     *)
(*   why    the suppressed stage of a `failed` record, or the reclaim      *)
(*          reason of a watchdog record                                    *)
(* provider_id is left out: the build has one provider.                    *)
(***************************************************************************)
EXTENDS Integers, Sequences, FiniteSetsExt

CONSTANT
    \* Clock ticks per wall-clock second; recorded_at is finer than the
    \* whole seconds strftime('%s') keeps.
    TicksPerSecond

ASSUME TicksAssumption == TicksPerSecond \in Nat \ {0}

Terminal == {"completed", "failed"}

Stages == {"snapshot", "preview", "apply-intent", "apply", "verify",
           "rollback", "rollback-verify", "watchdog-restore"} \cup Terminal

\* The stages a lifecycle can fail in, what restore_state can fail with, and
\* why the watchdog restores.
FailureStages == {"preview", "apply-intent", "apply", "verify",
                  "rollback", "rollback-verify"}

RestoreErrors == {"rollback-error", "probe-error", "mismatch"}

Reasons == {"lease-expired", "crash-recovery"}

Notes == {"none", "true", "false", "restored", "watchdog"} \cup FailureStages \cup RestoreErrors

Whys == {"none"} \cup FailureStages \cup Reasons

-----------------------------------------------------------------------------
\* Rows

Row(e, stage) ==
    [exp |-> e, stage |-> stage, val |-> 0, lease |-> 0, at |-> 0,
     note |-> "none", why |-> "none"]

SnapshotRow(e, setting) == [Row(e, "snapshot") EXCEPT !.val = setting]

IntentRow(e, request, time) ==
    [Row(e, "apply-intent") EXCEPT !.val = request.val, !.lease = request.lease,
                                   !.at = time]

NoteRow(e, stage, note) == [Row(e, stage) EXCEPT !.note = note]

\* Mutant: the two members of the payload are swapped.
MutFailedRowSwapped(e, stage, suppressed) ==
    [Row(e, "failed") EXCEPT !.note = suppressed, !.why = stage]

FailedRow(e, stage, suppressed) ==
    [Row(e, "failed") EXCEPT !.note = stage, !.why = suppressed]

RestoreRow(e, setting, reason, note, time) ==
    [Row(e, "watchdog-restore") EXCEPT !.val = setting, !.at = time,
                                       !.note = note, !.why = reason]

-----------------------------------------------------------------------------
\* Queries

Ids(rows) == {rows[i].exp : i \in DOMAIN rows}

\* Mutant: the maximum is taken over closed experiments only.
MutNextIdOfClosed(rows) ==
    Max({rows[i].exp : i \in {k \in DOMAIN rows : rows[k].stage \in Terminal}} \cup {0}) + 1

\* SELECT COALESCE(MAX(experiment_id), 0) + 1
NextId(rows) == Max(Ids(rows) \cup {0}) + 1

HasStage(rows, e, stages) ==
    \E i \in DOMAIN rows : rows[i].exp = e /\ rows[i].stage \in stages

\* Mutant: only `completed` counts as terminal.
MutClosedIfCompleted(rows, e) == HasStage(rows, e, {"completed"})

Closed(rows, e) == HasStage(rows, e, Terminal)

\* Whole seconds between two ticks: both ends are truncated by strftime('%s')
\* before they are subtracted.
Age(from, to) == (to \div TicksPerSecond) - (from \div TicksPerSecond)

\* Mutant: a negative age is cast to an unsigned one.
MutLeaseExpiredUnsigned(age, lease) == age < 0 \/ age >= lease

\* A negative age (the clock stepped back) is never an expired lease.
LeaseExpired(age, lease) == age >= 0 /\ age >= lease

\* The rows of the scan: every apply-intent of an experiment without a terminal
\* record, joined with the experiment's snapshot row.
UnclosedExperiments(rows, time) ==
    LET Joined(i, k) == /\ rows[i].stage = "apply-intent"
                        /\ rows[k].stage = "snapshot"
                        /\ rows[i].exp = rows[k].exp
                        /\ ~Closed(rows, rows[i].exp)
    IN  {[exp |-> rows[ik[1]].exp,
          snap |-> rows[ik[2]].val,
          expired |-> LeaseExpired(Age(rows[ik[1]].at, time), rows[ik[1]].lease)] :
            ik \in {x \in (DOMAIN rows) \X (DOMAIN rows) : Joined(x[1], x[2])}}

\* Experiments with an intent and no terminal record, as doctor counts them.
Dangling(rows) ==
    {e \in Ids(rows) : HasStage(rows, e, {"apply-intent"}) /\ ~Closed(rows, e)}

ClosedIds(rows) == {e \in Ids(rows) : Closed(rows, e)}

\* Mutant: ORDER BY sequence without DESC, the oldest record is compared.
MutFirstFailureMatches(rows, e, error) ==
    \E i \in DOMAIN rows :
        /\ rows[i].exp = e
        /\ rows[i].stage = "watchdog-restore"
        /\ rows[i].note = error
        /\ \A k \in DOMAIN rows :
              k < i => ~(rows[k].exp = e /\ rows[k].stage = "watchdog-restore")

\* The most recent watchdog-restore row of e is a failure with this error.
LastFailureMatches(rows, e, error) ==
    \E i \in DOMAIN rows :
        /\ rows[i].exp = e
        /\ rows[i].stage = "watchdog-restore"
        /\ rows[i].note = error
        /\ \A k \in DOMAIN rows :
              k > i => ~(rows[k].exp = e /\ rows[k].stage = "watchdog-restore")
=============================================================================
