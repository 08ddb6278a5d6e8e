# fpsmaxxing in TLA+

TLA+ models of the fpsmaxxing safe-alpha code: what its processes do to the
durable journal and to the setting ("knob") they share, checked with TLC on
small instances and proved with TLAPS for every value of their constants. Source paths are
relative to the repository root; `PROJECT.json` maps every definition to its
lines.

## 1. The system

| component | state | operations | talks to |
|---|---|---|---|
| experiment journal (`crates/control-plane`, `apps/watchdog/src/journal.rs`) | SQLite tables `experiment_journal`, `experiment_trials` | append rows; max-id, unclosed and last-failure queries | every process, by file |
| control plane (`crates/control-plane`) | position in `run_lifecycle` (memory only) | validate, begin, preview, intent, apply, verify, rollback, rollback-verify, outcome | journal, provider |
| provider (`crates/provider-sdk`, `sidecars/mock-provider`) | the setting | snapshot, preview, apply, verify, rollback | called by control plane and watchdog |
| watchdog (`apps/watchdog`) | candidates of the current pass | scan, restore, probe, record success or failure | journal, provider |
| broker service (`apps/broker/src/lib.rs`, `ownership.rs`) | slots, connection tasks, job queue, worker, ownership ledger | accept, authorize, read, dispatch, handle, answer | peers by socket, control plane by call |
| broker process (`apps/broker/src/main.rs`, `crates/ipc/src/transport.rs`) | resolved paths, private directory, lock file, socket entry | parse arguments, vet directories, lock, open, bind, serve, drop, exit | file system and whoever else writes it, other brokers |
| experiment runner (`apps/experiment-runner`) | one trial at a time | gate, measure, evaluate, promote, record, replay | control plane, trial table |
| gateway (`apps/gateway`) | a control plane of its own, the line being answered | read a JSON-RPC line, dispatch, run a lifecycle, answer | its client by stdio, control plane by call |
| CLI, IPC client, frames, auth, contracts, xtask | none | formatting, encoding, types | - |

What is hard here is not any one function but what happens between two of
them. A lifecycle is a dozen durable steps, and its process can die at each. The
watchdog and the owner of an experiment know of each other only through the
journal. Leases are measured with a clock that may step. Several gateways share
one journal. The broker's tasks, worker and accept loop wait for one another.
Successive broker processes contend for one socket path, in directories that other
users may change between the call that vets them and the call that uses them.

What makes each part correct:

* journal: an ID names one lifecycle; a terminal record ends it and tells the truth;
* control plane: the intent precedes the change; a change that was not undone can
  be found; the caller is told ok only after the restore;
* watchdog: leaves leases alone, closes what expired, restores once;
* broker: nothing lost, nobody starved, no knob left held, no useless survivor;
* broker process: one at a time, always reachable, its files out of others' reach;
* gateway: every line answered once and in order, nothing begun that nobody asked for;
* runner: only safe candidates are applied, and every record replays.

## 2. Modules

| module | models | notes |
|---|---|---|
| `Journal` | rows and SQL queries | constant operators; a journal is a sequence of rows |
| `Host` | journal, setting, clock, fault budget, the Provider trait | shared by everything below |
| `ControlPlane` | `run_lifecycle` for a set of processes | extends `Host` |
| `Watchdog` | `reclaim` for a set of processes | extends `Host` |
| `LeasedChange` | the promise: every write is leased | abstract; `ControlPlane` and `Recovery` implement it |
| `Recovery` | planes, watchdogs and the clock together | extends `ControlPlane`, `Watchdog` |
| `Gateway` | `serve`, `dispatch`, `call_tool` around a plane | extends `ControlPlane` |
| `Broker` | accept loop, tasks, worker, ledger, clients | what a lifecycle does is abstracted to its replies |
| `BrokerArgs` | `parse_args` | operators |
| `BrokerPaths` | `resolve_paths` and the vetting of directories | one metadata call a step, other users in between |
| `BrokerInstance` | lock, start, service and end of broker processes | extends `BrokerPaths`; file system calls one by one |
| `Evaluator` | `evaluate`, `summarize`, `measure` | operators |
| `EvaluatorCheck` | the evaluator over growing sample sets | |
| `Trial` | `run_trial`, `check_policy`, `replay_trial` | extends `Evaluator` |
| `ControlPlaneProofs` | theorems about `ControlPlane` | TLAPS, as all `*Proofs` |
| `RecoveryProofs` | theorems about `Recovery` | extends `ControlPlaneProofs` |
| `GatewayProofs` | theorems about `Gateway` | extends `ControlPlaneProofs` |
| `BrokerProofs` | theorems about `Broker` | |
| `BrokerInstanceProofs` | theorems about `BrokerPaths` and `BrokerInstance` | |
| `EvaluatorProofs` | what `Summarize` and `Evaluate` return | lemmas for the next two |
| `AlgorithmProofs` | theorems about `EvaluatorCheck` and `BrokerArgs` | extends `EvaluatorProofs` |
| `TrialProofs` | theorems about `Trial` | extends `EvaluatorProofs` |
| `MC*` | constants for TLC | |

**Steps.** In `ControlPlane` a call that changes the setting is a step, an INSERT
is a step, and a call that only reads is taken together with the INSERT behind it.
`planes[p].pc` is the position in `run_lifecycle`; `failure` and `suppressed` are the
`StageFailure` values that `run_stages` passes to `record_outcome`. `Submit` is `validate`
and the first snapshot; `BeginExperiment` the IMMEDIATE transaction; `Preview`,
`RecordIntent`, `Apply` the body of `run_stages`; `RecordApply`, `Verify`
`observe_applied`; `Rollback`, `RecordRollback`, `RollbackVerify` `restore`;
`RecordOutcome` the terminal record and the return. In `Watchdog`, `Scan` is the query
and the selection, `ReclaimRollback` and `ReclaimCheck` are `restore_state`, and the
three record actions are `journal.rs`; `record_failure` looks and inserts in two
statements, so it is two steps. In `Gateway` reading a line, running its lifecycle and
writing the response are steps of one thread (`sessions[p].pc`); a lifecycle is
`ControlPlane`'s own, step by step. `BrokerPaths` goes through the list of directories that
`vet_ancestors` and `vet_resolved_path` would (`starts[b].todo`), one `symlink_metadata` a step, then
creates, restricts and inspects the private directory.

**Refinement.** `LeasedChange` knows a setting and which experiments are leased or over.
`Leases` in `ControlPlane` is its instance with `setting <- knob`, `leased <- Dangling(journal)`
(an intent and no terminal record) and `closed <- ClosedIds(journal)`: the abstract state is what
`doctor` and the watchdog see of the journal. Any number of planes implement `LeasedChange!Spec`
(`WritesAreLeased`): the setting moves only under a lease, and an experiment is leased once and closed once.
A plane and polling watchdogs under the discipline implement the stronger `ExclusiveSpec` (`LeasesAreExclusive`):
one lease at a time, closed at the baseline by whoever closes it.

**Faults.** A provider call or an INSERT can fail, `apply` can fail before or after
it took effect, `rollback` can claim success and leave another value, a process can
crash at any step, the clock can step back, another user can replace any directory its
rights let it replace. Each uses one unit of a finite budget,
so that liveness is about what happens once the faults stop.

**Abstractions.** One provider and one capability, as in the build. Preview's payload
is not kept. The mock provider keeps its value in the process; `Host.knob` follows the
trait's contract instead, a setting of the host that survives a process, which is
the case the journal and the watchdog are written for. Timeouts of the broker are the
end of a wait that may come at any time. A JSON-RPC line is the set of answers to
the questions `dispatch` asks of it; a command-line argument is what `split_once('=')` makes of it, a flag, a help flag, a path (any set of `Words`), empty, not UTF-8, or a flag with its value; of a directory's mode
the two bars and the sticky bit are kept. Floating point is exact: temperatures are in
half degrees, means are compared by cross-multiplication; the checks against NaN
and infinity have no counterpart.

## 3. Runs

| run | instance | shows |
|---|---|---|
| `cp_shared` | two planes, two experiments, one fault of any kind | `UniqueCorrelation`, `TerminalIsLast`, `CompletedMeansRestored`, `SupersededFailureKept`, `LossIsVisible`, `WritesAreLeased` |
| `gateway` | one gateway, restarted, three experiments, three lines, two faults, no failing rollback; a line for every way through `dispatch` | `PlaneTypeOK`, `LeakIsDiscoverable`, `OldestLeakHoldsBaseline`, `OkMeansRestored`, `AnsweredInOrder`, `ExperimentsWereAsked`, `EveryLineEnds` |
| `recovery_poll` | a plane that may hang or crash, the poll loop, half-second ticks, one fault | `ScanRespectsLease`, `ExpiredLeakIsClosed`, `ClosuresBounded` |
| `recovery_faults` | daemon and recover-all watchdog over a dead owner's experiment, four faults | `TypeOK`, `NoRepeatedFailure`, `RestoredOnce` |
| `recovery_disciplined` | two experiments, three faults, the discipline below | `OneTerminal`, `LeakIsRestored`, `LeasesAreExclusive` |
| `broker` | four peers, one untrusted, two slots, backlog two | `BrokerTypeOK`, `RoomForEverySender`, `RequestIsSomewhere`, `AnswersItsRequest`, `DispatchEnds`, `WorkerLossExits`, `WaiterIsServed` |
| `broker_start` | two brokers as root or not, four trees, overrides, one change by another user, killed at any step | `VettedStaysSealed`, `ServingIsReachable`, `OneDriver`, `SuccessorKept` |
| `sequential` | one of three at a time: two runners, one spec on each side of every gate; sets of up to two samples around every limit; command lines of up to four arguments | `ReplayAccepts`, `AppliedIsInside`, `AnswerNamesOwnTrial`, `MutationIsReported`; `PromotionIsInside`, `TighteningNeverPromotes`; `ParsedAsDocumented` |

`MCSequential` puts `Trial`, `EvaluatorCheck` and `BrokerArgs` side by side. They share no variable, and only one of
them leaves its initial state in a behaviour, so the state space is the sum of theirs.

Four runs are there for what TLC refutes, because the code does not do what a comment or a document says:

| run | what is said | what happens |
|---|---|---|
| `slow_owner` | "exactly one terminal record" | an owner slower than its lease is closed by the watchdog and closes itself again |
| `failed_rollback` | "the lease is what bounds how long a mutation may survive" | a lifecycle whose rollback failed writes `failed` and leaves the watchdog's scan; nothing restores the setting |
| `two_crashes` | "at most one unclosed experiment per knob ... would require a prior breach of one-owner-per-knob" | one process dies after its apply, is started again and dies after its next intent; one pass restores the first to the baseline and the second to the first one's candidate and closes both: the setting is off its baseline and nothing is unclosed |
| `stale_scan` | "a closed experiment is never rolled back twice" | an owner restores and closes its experiment after a scan that found its lease over; the watchdog, which works through that scan's list, rolls it back once more |

`two_crashes` checks `PassEndsAtBaseline` under `PromptSpec`, where owners are done within their lease or dead, so that
nothing but the second crash is to blame. `stale_scan` has no fault at all and one experiment.

**Two gateways on one knob.** Each opens a control plane of its own, and nothing keeps their lifecycles
apart: one can take the other's candidate for its snapshot and restore it after the other is done.
`LossIsVisible` is what does hold: a host off its baseline shows an unclosed experiment, a snapshot that is
not the baseline, or a restore journaled as failed.

**Two watchdogs.** Scan and record, look and insert are separate statements, so a daemon and a
recover-all run can repeat each other. `NoRepeatedFailure` and `RestoredOnce` bound that by the number of
watchdogs; for one watchdog they say that it never repeats itself. What such repeats do to the
setting is `ImplementsExclusiveLeases` (section 4): nothing, while restores do not fail and owners keep to the discipline.
A repeated restore puts back the baseline that is there already.

**The discipline.** `OneTerminal`, `LeakIsRestored` and `LeasesAreExclusive` hold when a live owner is done
within its lease and no lifecycle begins while another is unclosed
(`DisciplinedNext`). Nothing in the code enforces either; `slow_owner`, `stale_scan` and `two_crashes`
are what happens without them, and `ClosuresBounded` is what is left of `OneTerminal`. They are the operating conditions under which owner and
watchdog do not meet, written down.

**Bounds.** Two experiments are the fewest in which one can disturb another, three
let a restarted owner crash over a leak. Two planes are enough for every pairwise race
on the journal: an INSERT reads no other plane's state. Two faults give a failed stage and a failed record in
one lifecycle, or two crashes; four give two watchdogs two failures each. One change by another user is enough where
the trees include those that look right and are open to it, three arguments reach every refusal of
`parse_args` and four spell both flags with their values. A lease of one second with two
ticks a second is the smallest in which truncation and a clock step show. Two slots and
three trusted peers make one wait; backlog equal to slots is the tightest the
assumption `MaxConnections <= Backlog` allows (the code has 32 slots and a backlog of 64). `MaxTime`,
`MaxFaults`, `MaxExperiments`, `MaxLines`, `MaxTampers`, `MaxArguments`, `MaxTrials` and `MaxSet` are bounds of the model;
deadlock checking is off where reaching such a bound, or a process having exited, ends a
behaviour.

**Fairness.** `GatewaySpec`: `serve` is straight-line code between two reads and takes its next step;
nobody has to send a line, and a client that stops reading is one that goes. `FairSpec`: time passes and the watchdog loops, since `main`
retries after an error; nothing is assumed of the planes, which may hang. `Broker!Spec`:
the runtime polls ready tasks, the worker receives, and both waits on a peer have a deadline. Two assumptions about the
broker's surroundings are not the code's to keep, and are stated where they are used:

* `LifecyclesReturn`, the hypothesis of `DispatchEnds` and `WaiterIsServed`: no provider call keeps the worker for ever.
  Neither `dispatch` nor the worker bounds the wait, so a provider that blocks in `apply` or `verify` stalls every
  peer, as `docs/ARCHITECTURE.md:70` (`broker-dispatch-unbounded`) says. `Finish` is therefore not fair in `Broker!Spec`, and
  both properties are false without the hypothesis.
* `PatientSpec`, the specification of the `broker` run: no peer keeps one connection busy for ever. The idle timeout is
  reset by every frame, so without this assumption a chatty peer can hold a slot and `WaiterIsServed` fails. The
  run says nothing of chatty peers.

## 4. Proofs

Every theorem holds for any constants that satisfy the named assumptions of the modules it is about
(`TicksAssumption`, `HostAssumption`, `PlaneAssumption`, `WatchdogAssumption`, `GatewayAssumption`,
`DecodedAssumption`, `BrokerAssumption`, `PathsAssumption`, `InstanceAssumption`, `CountAssumption`,
`CheckAssumption`, `TrialAssumption`, `ArgumentsAssumption`), which TLC evaluates on every run, and for the further hypotheses
the theorem itself states. The assumptions are types of the contracts, `MaxConnections <= Backlog`,
finitely many processes, and that the words a model uses for "nobody" (`"none"`, `"free"`) name nobody.

**Control planes** (`ControlPlaneProofs`; any planes, requests, faults).

* `PlaneTypeCorrect`. Not inductive alone: that an ID is fresh needs to know what
  `MAX(experiment_id) + 1` is. `TypeInv` adds `GapFree` (IDs in use are `1..n`) and `HoldsId` (a plane
  has an ID of the journal exactly while it is past `begin_experiment`).
* `CorrelationUnique`, `TerminalLast`: from `HistoryInv`, which adds that no plane works under a closed
  ID (`WorksOnOpen`). Uniqueness is what keeps a second plane from closing the first one's experiment.
* `CompletedIsRestored`, `SupersededIsKept`: from `RecordsInv`, in which `Progress` says for every position in
  `run_lifecycle` what the journal already shows of the plane's experiment.
* `PlanesImplementLeases`: the refinement `PlaneSpec => WritesAreLeased`. Each step is sorted by what it does to
  journal and setting and mapped to `Lease`, `Change`, `Close` or a stutter.
* `LossVisible`: for any number of planes. `LossInv` says that a knob off its baseline is owned up to in
  the journal or a dangling experiment is to blame, and that a plane whose snapshot is not the baseline
  has a row that owns up to it: what the plane restores later is that snapshot.
* `LeakDiscoverable`, `OldestHoldsBaseline` (one plane, `"rollback" \notin Faults`), `OkIsRestored` (one plane):
  `LeakInv` says where the setting equals the plane's snapshot (`AtSnapshot`), that the plane's own
  intent is open in between (`IntentIsOpen`), and that a snapshot other than the baseline was taken
  over an older leak that is still open (`OlderLeak`). The last conjunct carries the argument through
  crash after crash: closing the newer experiment never closes the older one. The hypotheses are
  needed: `failed_rollback` and two gateways on one knob refute the conclusions without them.

`StepKind` sorts every step of a plane into four kinds by what it does to journal and ID, so the history
proof has four cases rather than eleven.

**Planes and watchdogs** (`RecoveryProofs`; any number of each).

* `HostTypeCorrect`, `RecordsSurviveReclaim`: `SharedInv` carries the planes' invariants through the
  watchdogs' rows (`Reclaimed`): they only add `watchdog-restore` and `failed` rows of known experiments. The
  planes' `TerminalIsLast` and `WorksOnOpen` are not in it, because a watchdog does break them.
* `ScanIsPatient`: `SelectsExpired` from what `\div` loses at both ends, at any tick rate.
* `RestoreIsOnce`, `FailureIsNotRepeated`: counting, by `RepeatsInv`. Behind a `restored` row the rows that
  follow and the watchdogs that still have the experiment in their pass are together fewer than the
  watchdogs: whoever writes is done with it, and no scan returns a closed experiment. In a run of equal
  failures that is the last of its experiment, the rows and the watchdogs that have looked and not yet
  inserted that failure are at most the watchdogs: who looks later sees it.
* `ClosedOncePerProcess`: how often an experiment is closed when nobody keeps to the discipline. `slow_owner` shows that
  it may be twice; this says that it is never more than once by its owner and once by each watchdog. `ClosingInv`
  tells the terminal rows of owners from those of watchdogs: an owner is done with an experiment it has closed,
  and a watchdog's terminal row stands behind its restore row, of which there are no more than watchdogs (`RepeatsInv`).
  `recovery_poll` checks it for one watchdog and a slow owner.
* Under `DisciplinedSpec` with one plane whose rollback does not fail: `DisciplineInv` says that at most one
  experiment is unclosed, that its snapshot is the baseline, that a live plane with an intent owns it, and
  that what a watchdog has at hand is that experiment with its plane gone, or one that was closed since
  (`WorksOnLeak`).
  - `ClosedOnce`: for one polling watchdog (`Sole`). With two it is false, as both
    may close what both have scanned.
  - `ImplementsExclusiveLeases`, for any number of polling watchdogs: the refinement
    `DisciplinedSpec => ExclusiveSpec`. What makes it go through for several is that a restore of a closed
    experiment finds the setting at the baseline, which is also what it writes. Several need
    `"restore" \notin Faults`; one does not. TLC shows why (section 5): a second watchdog whose restore goes wrong moves the
    setting under an experiment that the first has closed.
  - `LeakDiscoverableWithWatchdogs`, `WritesLeasedWithWatchdogs`: from the refinement alone.
    `ExclusiveLeases` proves at the abstract level that exclusive leases keep a host without an open lease
    at its baseline and refine the weaker `LeasedChange!Spec`, so the two refinements compose.
  - `DisciplineLeavesOneUnclosed`: what the comment in `reclaim` assumes, at most one unclosed experiment, does
    hold under the discipline, and that experiment holds the baseline.
  - `PassRestoresBaseline`: so a pass that closes it leaves the setting at the baseline. Without the clean journal
    that the discipline asks for, `two_crashes` refutes this.

**Gateways** (`GatewayProofs`; any gateways, lines, bounds). `GatewaysArePlanes` is the refinement
`GatewaySpec => PlaneSpec`, through which `GatewayLeakDiscoverable` and `GatewayOkIsRestored` follow from the
planes' theorems. `OrderKept` is inductive with the sessions' types. `ExperimentsAsked` needs `AskedInv`: the
experiments of the journal and the lifecycles about to begin one are together no more than the calls.

**Broker service** (`BrokerProofs`; any peers, ACL, slots covered by the backlog). `BrokerInv` joins types,
slots (`SlotsUsed` counts the connections), `JobsInv` (queued jobs belong to different waiting
peers, none of them the worker's) and `WorkerInv` (the knob is held exactly while a job is at work).
`BrokerTyped`, `QueueHasRoom`, `RequestNeverLost` and `ResponsesMatch` follow.

**Broker processes** (`BrokerInstanceProofs`; any brokers, inodes, number of changes by others).

* `VettedSealed`: `SealInv` says of each directory a broker has been through what holds of it from then
  on: those above would still pass their check, and a leaf is shut to others unless its parent does not
  pass. Hypothesis `Rooted`: `/run`, `/top` and the base are directories that are not another user's, and
  `/top` is not writable by others unless it is sticky (the base may be open to others). The code trusts the same (it vets them, but cannot repair them
  afterwards), and every tree the runs use satisfies it.
* `DriverIsOne` (hypothesis `~ListenerFails`), `ServesReachably`, `SuccessorSafe`: from `InstanceInv`: a
  running broker has resolved its paths, it holds its lock from locking to unlocking, a listening root
  broker's socket is the one at its path, and the worker has stopped once `serve` has returned (unless
  `ListenerFails`).

**Runner** (`EvaluatorProofs`, `AlgorithmProofs`, `TrialProofs`; any samples, bounds, specs, runners).
`Summarize` is a recursive function on the number of samples; that its result covers each sample (`SummarizeCovers`) is
shown by the least number for which it would not, which needs no induction scheme. From it `PromotionInside`,
`TighteningSafe`, `RecordsReplay`, `AnswerIsOwn`, `AppliedInside`, `MutationReported`. `TrialInv` says what a runner
knows at each point of `run_trial`, among it that a lifecycle that ended `"ok"` saw its change and undid it, which is
the last gate of `check_policy`; another runner's lifecycle on the same provider can only make it fail.

**Command line** (`AlgorithmProofs`; any words, command lines of any length). `CommandLineParsed` relates the loop of
`parse_args` to the grammar of the usage message in both directions. Nothing but the grammar is accepted: after `n`
arguments the loop has either refused, or met a help flag behind a usage, or holds the options of a
usage that spells exactly those arguments, but for a flag that waits for its value (`Reads`; `ReadsStep` is one
iteration, `UsageGrows` the step of the grammar, and the least `n` for which `Reads` would fail takes the place of
induction). Everything in the grammar is accepted: `TakesUsage` follows the loop over the arguments of a usage,
and `Final` says that an early return is final, so that whatever follows a help flag is not looked at.

**Only model-checked.** All liveness (`EveryLineEnds`, `ExpiredLeakIsClosed`, `LeakIsRestored`, `DispatchEnds`,
`WorkerLossExits`, `WaiterIsServed`): fairness is outside this prover's reach. The four
expected violations.

## 5. Known limits of what holds

* The watchdog's ages are whole seconds, so a lease may be taken to be over up to a
  second early; `ScanRespectsLease` states the bound that does hold.
* One scan serves a whole pass: an experiment that was closed since is rolled back again (`stale_scan`). Under the
  discipline and with one watchdog nobody could have closed it, so nothing is claimed there.
* `DispatchEnds` and `WaiterIsServed` are about providers that return (section 3, fairness).
* `LeasesAreExclusive` for several watchdogs needs restores that do not fail. Given a second polling watchdog, TLC
  refutes it on the instance of `recovery_disciplined`: the second one's restore of an experiment that the first has
  closed goes wrong, and no open experiment tells of it.
* `OneDriver` is checked for a listener that does not fail. `run` closes the lock file before
  `process::exit` ends the worker thread; with `ListenerFails = TRUE` TLC finds two brokers
  in a lifecycle at once.
* `ServingIsReachable` and `SuccessorKept` are about root brokers. An unprivileged one locks where
  `XDG_RUNTIME_DIR` points, as `lock_single_instance` says, so two of them can share a socket path; the identity
  check in `Drop` and the unlink are two calls, and a live socket can be lost between them.
* `LeakIsDiscoverable`, `OldestLeakHoldsBaseline` and `OkMeansRestored` are about one plane; for two see `LossIsVisible`.
* `VettedStaysSealed` trusts root and the broker's own uid, as the code does. In the run's trees other users can replace
  the base directory and what is in it; what lies above is root's. The theorem needs the same of its trunk (`Rooted`),
  so the ownership test of `vet_directory` on ancestors is modelled and not what either rests on. A link that takes the
  private directory's place before `set_permissions` leads out of the tree: what is changed at its other end is not kept.

## 6. Not modelled

Frame bytes, JSON and schemas (encoding), the modes of single files and the umask
(`create_owner_only`, `restrict_to_owner`: reapplied after every open, no other process of the model sees
them), the uid comparison of `SameUidAuthorizer`, the argument parsing of the other binaries (a lookup
of one flag), what `doctor` prints, and `xtask`.

## 7. Plan

Done in this order: journal and control plane; watchdog and their composition; broker;
broker process; evaluator and runner; proofs about the control plane; the abstract leased
change and both refinements; two watchdogs; the gateway; path vetting and the command line.
Then the proofs, in the order of section 4, and last the discipline for any number of polling watchdogs, the
composition of the two refinements and the command line. Every safety property of a passing run now has a
theorem. What is left for whoever extends this: gateways
beside watchdogs. `GatewaysArePlanes` is stated for planes alone, and a composition of `Gateway` with `Watchdog` would let the theorems of
`RecoveryProofs` speak of gateways too.
