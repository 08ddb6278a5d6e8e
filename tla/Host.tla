-------------------------------- MODULE Host ---------------------------------
(***************************************************************************)
(* What every process of one host shares: the durable journal, the setting *)
(* ("knob") reached through the Provider trait, and the clock SQLite's     *)
(* 'now' reads; and the faults the code handles, drawn from a finite       *)
(* budget so that a behaviour can settle.                                  *)
(*                                                                         *)
(* knob is the provider contract's view: the setting belongs to the host,  *)
(* survives the process that changed it, and is what snapshot, apply,      *)
(* verify and rollback of any process act on.                              *)
(***************************************************************************)
EXTENDS Journal

CONSTANTS
    MaxMockValue,   \* policy ceiling of a requested setting
    MaxLease,       \* MAX_LEASE_SECONDS
    Baseline,       \* the host's setting before any experiment
    Faults,         \* the kinds of fault the environment may inject
    MaxFaults,      \* bound: faults injected in a behaviour
    MaxTime         \* bound: the last clock tick

ASSUME HostAssumption ==
    /\ MaxMockValue \in Nat
    /\ MaxLease \in Nat
    /\ Baseline \in 0..MaxMockValue
    /\ MaxFaults \in Nat
    /\ MaxTime \in Nat

VARIABLES
    journal,        \* rows of experiment_journal
    knob,           \* the host's current setting
    now,            \* the clock, in ticks
    faults          \* faults left to inject

hostVars == <<journal, knob, now, faults>>

Settings == 0..MaxMockValue

Rows == [exp : Nat \ {0}, stage : Stages, val : Settings, lease : Nat, at : Nat,
         note : Notes, why : Whys]

HostInit ==
    /\ journal = << >>
    /\ knob = Baseline
    /\ now = 0
    /\ faults = MaxFaults

\* One fault of this kind happens in this step.
Fault(kind) ==
    /\ kind \in Faults
    /\ faults > 0
    /\ faults' = faults - 1

NoFault == UNCHANGED faults

-----------------------------------------------------------------------------
\* The Provider trait.  Each call either succeeds or returns an error; the
\* faulty outcomes are the ones the providers of the test suites inject.

ProviderSnapshot == knob

ProviderApply(setting) == knob' = setting

\* apply may fail before or after it reached the hardware.
ProviderApplyError(setting) == knob' \in {knob, setting}

ProviderVerify(setting) == knob = setting

ProviderRollback(setting) == knob' = setting

\* rollback reports success but left another setting behind.
ProviderCorruptRollback(setting) == knob' \in Settings \ {setting}

-----------------------------------------------------------------------------
\* Journal writes.  An INSERT is one autocommit statement or one IMMEDIATE
\* transaction: it appends all of its rows or none.

Insert(rows) == journal' = journal \o rows

-----------------------------------------------------------------------------
\* The clock

Tick ==
    /\ now < MaxTime
    /\ now' = now + 1
    /\ UNCHANGED <<journal, knob, faults>>

\* The wall clock is stepped back.
StepBack ==
    /\ Fault("clock")
    /\ now' \in {t \in 0..MaxTime : t < now}
    /\ UNCHANGED <<journal, knob>>

=============================================================================
