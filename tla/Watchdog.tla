------------------------------ MODULE Watchdog -------------------------------
(***************************************************************************)
(* Watchdog::reclaim: one scan of the journal, then a restore per selected *)
(* experiment.  A watchdog is a process of its own: the polling daemon, or *)
(* a one-shot `--once` / `--recover-all` run an operator starts beside it. *)
(* Its scan is a snapshot of the journal that the rest of the pass works   *)
(* from without looking again.                                             *)
(***************************************************************************)
EXTENDS Host

CONSTANTS
    Watchdogs,      \* the watchdog processes
    Policy          \* the ReclaimPolicy each was started with

ASSUME WatchdogAssumption ==
    /\ IsFiniteSet(Watchdogs)
    /\ Policy \in [Watchdogs -> {"AllUnclosed", "ExpiredLeasesOnly"}]

VARIABLE dogs       \* the local state of every watchdog

WatchdogPCs == {"asleep", "rollback", "check", "success", "failure", "append"}

Candidates == [exp : Nat \ {0}, snap : Settings, expired : BOOLEAN]

Asleep == [pc |-> "asleep", todo |-> {}, error |-> "none"]

WatchdogInit == dogs = [w \in Watchdogs |-> Asleep]

-----------------------------------------------------------------------------
\* The candidate being reclaimed: the scan is ordered by experiment_id.
Current(w) == CHOOSE c \in dogs[w].todo : \A d \in dogs[w].todo : c.exp <= d.exp

SelectedBy(policy, candidate) == policy = "AllUnclosed" \/ candidate.expired

Reason(candidate) == IF candidate.expired THEN "lease-expired" ELSE "crash-recovery"

\* The rest of the pass goes on with these candidates; it ends after the last.
Pass(w, todo) ==
    dogs' = [dogs EXCEPT ![w] =
                IF todo = {} THEN Asleep
                ELSE [pc |-> "rollback", todo |-> todo, error |-> "none"]]

NextCandidate(w) == Pass(w, dogs[w].todo \ {Current(w)})

WGoto(w, pc, error) == dogs' = [dogs EXCEPT ![w].pc = pc, ![w].error = error]

\* Mutant: a journal error ends the daemon.
MutAbortPassExits(w) ==
    /\ Fault("wjournal")
    /\ dogs' = [dogs EXCEPT ![w].pc = "exited"]
    /\ UNCHANGED journal

\* A journal error ends the pass; the daemon tries again on the next interval.
AbortPass(w) ==
    /\ Fault("wjournal")
    /\ Pass(w, {})
    /\ UNCHANGED journal

-----------------------------------------------------------------------------
Scan(w) ==
    /\ dogs[w].pc = "asleep"
    /\ \/ /\ Pass(w, {c \in UnclosedExperiments(journal, now) : SelectedBy(Policy[w], c)})
          /\ UNCHANGED <<journal, faults>>
       \/ AbortPass(w)
    /\ UNCHANGED <<knob, now>>

\* restore_state, first call.
ReclaimRollback(w) ==
    /\ dogs[w].pc = "rollback"
    /\ \/ /\ ProviderRollback(Current(w).snap)
          /\ WGoto(w, "check", "none")
          /\ NoFault
       \/ /\ Fault("restore")
          /\ ProviderCorruptRollback(Current(w).snap)
          /\ WGoto(w, "check", "none")
       \/ /\ Fault("restore")
          /\ WGoto(w, "failure", "rollback-error")
          /\ UNCHANGED knob
    /\ UNCHANGED <<journal, now>>

\* Mutant: the rollback is taken at its word.
MutReclaimCheckTrusting(w) ==
    /\ dogs[w].pc = "check"
    /\ WGoto(w, "success", "none")
    /\ NoFault
    /\ UNCHANGED <<journal, knob, now>>

\* restore_state, the probe that confirms the rollback.
ReclaimCheck(w) ==
    /\ dogs[w].pc = "check"
    /\ \/ /\ ProviderSnapshot = Current(w).snap
          /\ WGoto(w, "success", "none")
          /\ NoFault
       \/ /\ ProviderSnapshot # Current(w).snap
          /\ WGoto(w, "failure", "mismatch")
          /\ NoFault
       \/ /\ Fault("restore")
          /\ WGoto(w, "failure", "probe-error")
    /\ UNCHANGED <<journal, knob, now>>

\* Mutant: two statements instead of one transaction, with a crash in between.
MutRecordSuccessSplit(w) ==
    /\ dogs[w].pc = "success"
    /\ \/ /\ Insert(<<RestoreRow(Current(w).exp, Current(w).snap, Reason(Current(w)),
                                 "restored", now),
                      FailedRow(Current(w).exp, "watchdog", Reason(Current(w)))>>)
          /\ NextCandidate(w)
          /\ NoFault
       \/ /\ Insert(<<RestoreRow(Current(w).exp, Current(w).snap, Reason(Current(w)),
                                 "restored", now)>>)
          /\ Pass(w, {})
          /\ Fault("wcrash")
    /\ UNCHANGED <<knob, now>>

\* The restore record and the terminal record, in one transaction that does not
\* look whether the experiment has been closed since the scan.
RecordSuccess(w) ==
    /\ dogs[w].pc = "success"
    /\ \/ /\ Insert(<<RestoreRow(Current(w).exp, Current(w).snap, Reason(Current(w)),
                                 "restored", now),
                      FailedRow(Current(w).exp, "watchdog", Reason(Current(w)))>>)
          /\ NextCandidate(w)
          /\ NoFault
       \/ AbortPass(w)
    /\ UNCHANGED <<knob, now>>

\* record_failure: an unchanged repeat failure is not journaled again.
RecordFailure(w) ==
    /\ dogs[w].pc = "failure"
    /\ \/ /\ LastFailureMatches(journal, Current(w).exp, dogs[w].error)
          /\ NextCandidate(w)
          /\ UNCHANGED <<journal, faults>>
       \/ /\ ~LastFailureMatches(journal, Current(w).exp, dogs[w].error)
          /\ WGoto(w, "append", dogs[w].error)
          /\ UNCHANGED <<journal, faults>>
       \/ AbortPass(w)
    /\ UNCHANGED <<knob, now>>

\* ... and its INSERT, a statement after the one that looked.  No terminal
\* record: the experiment stays unclosed for a later pass.
AppendFailure(w) ==
    /\ dogs[w].pc = "append"
    /\ \/ /\ Insert(<<RestoreRow(Current(w).exp, Current(w).snap, Reason(Current(w)),
                                 dogs[w].error, now)>>)
          /\ NextCandidate(w)
          /\ NoFault
       \/ AbortPass(w)
    /\ UNCHANGED <<knob, now>>

\* The watchdog process dies mid-pass and is started again.
WatchdogCrash(w) ==
    /\ dogs[w].pc # "asleep"
    /\ Fault("wcrash")
    /\ Pass(w, {})
    /\ UNCHANGED <<journal, knob, now>>

Reclaim(w) ==
    \/ Scan(w) \/ ReclaimRollback(w) \/ ReclaimCheck(w) \/ RecordSuccess(w)
    \/ RecordFailure(w) \/ AppendFailure(w)

WatchdogNext == \E w \in Watchdogs : Reclaim(w) \/ WatchdogCrash(w)

WatchdogTypeOK ==
    dogs \in [Watchdogs -> [pc : WatchdogPCs, todo : SUBSET Candidates,
                            error : RestoreErrors \cup {"none"}]]
=============================================================================
