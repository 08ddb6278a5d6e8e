------------------------------ MODULE Recovery -------------------------------
(***************************************************************************)
(* One host: control planes that run lifecycles, watchdogs that reclaim    *)
(* what the planes leave unclosed, and the clock leases are measured with. *)
(* The two kinds of process meet only in the journal and the setting.      *)
(***************************************************************************)
EXTENDS ControlPlane, Watchdog

vars == <<hostVars, planes, dogs>>

Init == HostInit /\ PlaneInit /\ WatchdogInit

Next ==
    \/ PlaneNext /\ UNCHANGED dogs
    \/ WatchdogNext /\ UNCHANGED planes
    \/ Tick /\ UNCHANGED <<planes, dogs>>
    \/ StepBack /\ UNCHANGED <<planes, dogs>>

Spec == Init /\ [][Next]_vars

\* Time passes, and the watchdog daemon loops for ever (main): a pass that
\* fails is retried.  Nothing is assumed of the planes, which may hang.
FairSpec ==
    /\ Spec
    /\ WF_vars(Tick /\ UNCHANGED <<planes, dogs>>)
    /\ \A w \in Watchdogs : WF_vars(Reclaim(w) /\ UNCHANGED planes)

\* The same host from the moment its owner died between the intent and the end of
\* a lifecycle, with the change applied or not.
LeakedInit ==
    /\ \E request \in Requests :
          /\ journal = <<SnapshotRow(1, Baseline), IntentRow(1, request, 0)>>
          /\ knob \in {Baseline, request.val}
    /\ now = 0
    /\ faults = MaxFaults
    /\ PlaneInit
    /\ WatchdogInit

LeakedSpec == LeakedInit /\ [][Next]_vars

TypeOK == PlaneTypeOK /\ WatchdogTypeOK
-----------------------------------------------------------------------------
\* The operating discipline under which the two kinds of process do not meet:
\* a live owner is done before its lease is up, and no lifecycle begins while
\* an earlier one is unclosed.  Nothing in the code enforces either.

IntentOf(e) ==
    CHOOSE i \in DOMAIN journal : journal[i].exp = e /\ journal[i].stage = "apply-intent"

OwnersInLease ==
    \A p \in Planes : HasStage(journal, planes[p].exp, {"apply-intent"}) =>
        LET intent == journal[IntentOf(planes[p].exp)]
        IN  ~LeaseExpired(Age(intent.at, now), intent.lease)

BeginsOnCleanJournal ==
    \A p \in Planes :
        planes[p].pc = "idle" /\ planes'[p].pc = "begin" => Dangling(journal) = {}

DisciplinedNext == Next /\ OwnersInLease' /\ BeginsOnCleanJournal

DisciplinedSpec ==
    /\ Init
    /\ [][DisciplinedNext]_vars
    /\ WF_vars(Tick /\ UNCHANGED <<planes, dogs>> /\ OwnersInLease')
    /\ \A w \in Watchdogs : WF_vars(Reclaim(w) /\ UNCHANGED planes)
    /\ \A p \in Planes : WF_vars(Continue(p) /\ UNCHANGED dogs)

\* Half of the discipline: owners are prompt, and begin whenever they are asked.
PromptSpec ==
    /\ Init
    /\ [][Next /\ OwnersInLease']_vars
    /\ WF_vars(Tick /\ UNCHANGED <<planes, dogs>> /\ OwnersInLease')
    /\ \A w \in Watchdogs : WF_vars(Reclaim(w) /\ UNCHANGED planes)

-----------------------------------------------------------------------------
\* Properties of every behaviour

\* What a scan in steady state selects has less than a second left of its lease.
SelectsExpired ==
    \A w \in Watchdogs :
        Policy[w] = "ExpiredLeasesOnly" /\ dogs[w].pc = "asleep" =>
            \A c \in dogs'[w].todo :
                LET intent == journal[IntentOf(c.exp)]
                IN  now - intent.at > (intent.lease - 1) * TicksPerSecond

\* A steady-state scan selects an experiment only when less than a second is
\* left of its lease: truncating both times to seconds loses no more than that,
\* and a clock that stepped back selects nothing (lease_expired).
ScanRespectsLease == [][SelectsExpired]_vars

\* Where the watchdogs' rows of one experiment are.
RestoreRows(e) ==
    {i \in DOMAIN journal : journal[i].exp = e /\ journal[i].stage = "watchdog-restore"}

\* The rows from i on that say what it says, up to the first that does not.
RepeatsOf(i) ==
    LET rows == RestoreRows(journal[i].exp)
    IN  {k \in rows : k >= i /\ \A j \in rows : j \in i..k => journal[j].note = journal[i].note}

\* A stuck knob does not grow the journal with every pass: no more than one row
\* per watchdog stands in a run of equal failures of an experiment.  One watchdog
\* never repeats itself, and watchdogs that look before either has inserted
\* repeat each other once (record_failure).
NoRepeatedFailure ==
    \A e \in Ids(journal) : \A i \in RestoreRows(e) :
        Cardinality(RepeatsOf(i)) <= Cardinality(Watchdogs)

\* Once a watchdog has journaled a restore, every other one adds at most the row
\* of the pass it was in, restore or failure, and the same one adds nothing,
\* whatever crashes and errors come between a rollback and its record (reclaim).
RestoredOnce ==
    \A e \in Ids(journal) : \A i \in RestoreRows(e) :
        journal[i].note = "restored" =>
            Cardinality({k \in RestoreRows(e) : k > i}) < Cardinality(Watchdogs)

\* The terminal rows of one experiment.
TerminalRows(e) == {i \in DOMAIN journal : journal[i].exp = e /\ journal[i].stage \in Terminal}

\* However slow its owner, however often processes crash and fail, an experiment
\* is closed at most once by its owner and once by each watchdog: neither
\* record_outcome nor record_success looks for a terminal record, and only the
\* scan keeps a watchdog from closing what it has closed before.
ClosuresBounded ==
    \A e \in Ids(journal) : Cardinality(TerminalRows(e)) <= Cardinality(Watchdogs) + 1

\* An experiment whose lease ends within the model's time is eventually closed,
\* whether its owner crashed, hangs or was merely slow (the poll loop).
EndsInTime(e) ==
    /\ e \in Dangling(journal)
    /\ LET intent == journal[IntentOf(e)]
       IN  intent.at + (intent.lease + 1) * TicksPerSecond <= MaxTime

ExpiredLeakIsClosed ==
    \A e \in 1..MaxExperiments : EndsInTime(e) ~> Closed(journal, e)

-----------------------------------------------------------------------------
\* Properties that hold under the discipline

\* An experiment has at most one terminal record (record_outcome and the
\* watchdog's record_success together).
OneTerminal ==
    \A i, k \in DOMAIN journal :
        /\ journal[i].stage \in Terminal /\ journal[k].stage \in Terminal
        /\ journal[i].exp = journal[k].exp
        => i = k

\* Planes and watchdogs together implement exclusive leases: they do not overlap,
\* and whoever closes one, owner or watchdog, does it at the baseline.
LeasesAreExclusive == Leases!ExclusiveSpec

\* At most one experiment is unclosed at a time (the assumption in reclaim).
OneUnclosed == Cardinality(Dangling(journal)) <= 1

\* A host off its baseline, with every open lease ending in the model's time,
\* gets its baseline back, with a live owner or from the watchdog.
LeakIsRestored ==
    (knob # Baseline /\ \A e \in Dangling(journal) : EndsInTime(e)) ~> knob = Baseline

-----------------------------------------------------------------------------
\* What the documentation says and the code does not do

\* A watchdog that rolls an experiment back finds it open.
RollsBackOpen ==
    \A w \in Watchdogs : dogs[w].pc = "rollback" /\ dogs'[w].pc # "rollback" =>
        ~Closed(journal, Current(w).exp)

\* "A closed experiment is never rolled back twice": no watchdog rolls back an
\* experiment that was closed since its scan (reclaim).
ClosedNeverTouched == [][RollsBackOpen]_vars

\* No owner is at work and a watchdog closes the last unclosed experiment.
PassCloses ==
    /\ \A p \in Planes : planes[p].pc = "idle" /\ planes'[p] = planes[p]
    /\ Dangling(journal) # {} /\ Dangling(journal') = {}

\* A recovery pass with one owner per knob ends at the setting that was there
\* before the first change, however many unclosed experiments it finds: the order
\* of restores does not matter (the comment in reclaim).
PassEndsAtBaseline == [][PassCloses => knob' = Baseline]_vars
=============================================================================
