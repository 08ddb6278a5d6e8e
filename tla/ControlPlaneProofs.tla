-------------------------- MODULE ControlPlaneProofs -------------------------
(***************************************************************************)
(* Proofs about the control planes, for every set of planes and requests   *)
(* and every bound: types and identifiers, leaks that the journal shows,   *)
(* records that tell the truth about their experiment, leased writes, and  *)
(* no baseline that is lost without a trace.                               *)
(***************************************************************************)
EXTENDS ControlPlane, TLAPS

-----------------------------------------------------------------------------
\* Facts about journals

\* Appending a row keeps every row before it (Insert).
LEMMA AppendRow ==
    ASSUME NEW S, NEW s \in Seq(S), NEW r \in S
    PROVE  /\ s \o <<r>> \in Seq(S)
           /\ DOMAIN (s \o <<r>>) = 1..(Len(s) + 1)
           /\ DOMAIN s = 1..Len(s)
           /\ Len(s) \in Nat
           /\ \A i \in DOMAIN s : (s \o <<r>>)[i] = s[i]
           /\ (s \o <<r>>)[Len(s) + 1] = r
  OBVIOUS

\* The rows of a journal with one row more (Ids after Insert).
LEMMA IdsAppend ==
    ASSUME NEW s \in Seq(Rows), NEW r \in Rows
    PROVE  Ids(s \o <<r>>) = Ids(s) \cup {r.exp}
  <1> DEFINE t == s \o <<r>>
  <1>1. /\ DOMAIN t = 1..(Len(s) + 1) /\ DOMAIN s = 1..Len(s) /\ Len(s) \in Nat
        /\ \A i \in DOMAIN s : t[i] = s[i]
        /\ t[Len(s) + 1] = r
    BY AppendRow
  <1> HIDE DEF t
  <1>2. Ids(t) = Ids(s) \cup {r.exp}
    <2>1. ASSUME NEW e \in Ids(t) PROVE e \in Ids(s) \cup {r.exp}
      BY <1>1 DEF Ids
    <2>2. ASSUME NEW e \in Ids(s) PROVE e \in Ids(t)
      BY <1>1 DEF Ids
    <2>3. r.exp \in Ids(t)
      BY <1>1 DEF Ids
    <2> QED BY <2>1, <2>2, <2>3
  <1> QED BY <1>2 DEF t

\* The stages an experiment has reached, with one row more (HasStage).
LEMMA HasStageAppend ==
    ASSUME NEW s \in Seq(Rows), NEW r \in Rows, NEW e, NEW T
    PROVE  HasStage(s \o <<r>>, e, T) <=> HasStage(s, e, T) \/ (r.exp = e /\ r.stage \in T)
  <1> DEFINE t == s \o <<r>>
  <1>1. /\ DOMAIN t = 1..(Len(s) + 1) /\ DOMAIN s = 1..Len(s) /\ Len(s) \in Nat
        /\ \A i \in DOMAIN s : t[i] = s[i]
        /\ t[Len(s) + 1] = r
    BY AppendRow
  <1> HIDE DEF t
  <1>2. HasStage(t, e, T) <=> HasStage(s, e, T) \/ (r.exp = e /\ r.stage \in T)
    BY <1>1 DEF HasStage
  <1> QED BY <1>2 DEF t

\* Correlation IDs without gaps: MAX(experiment_id) + 1 is the first unused one.
LEMMA NextIdValue ==
    ASSUME NEW s, NEW n \in Nat, Ids(s) = 1..n
    PROVE  NextId(s) = n + 1
  <1> DEFINE S == Ids(s) \cup {0}
             m == CHOOSE x \in S : \A y \in S : x >= y
  <1>1. S = 0..n
    OBVIOUS
  <1>2. \E x \in S : \A y \in S : x >= y
    BY <1>1
  <1>3. m \in S /\ \A y \in S : m >= y
    BY <1>2
  <1>4. m = n
    BY <1>1, <1>3
  <1> QED BY <1>4 DEF NextId, Max

\* Experiments are numbered 1, 2, ... in the order they begin.
GapFree == \E n \in Nat : Ids(journal) = 1..n

-----------------------------------------------------------------------------
\* Type correctness

\* A plane holds a correlation ID exactly while begin_experiment is behind it,
\* and the ID is one the journal knows.
HoldsId(p) ==
    /\ planes[p].pc \in {"idle", "begin"} <=> planes[p].exp = 0
    /\ planes[p].exp # 0 => planes[p].exp \in Ids(journal)

TypeInv == PlaneTypeOK /\ GapFree /\ \A p \in Planes : HoldsId(p)

\* Every row the planes build is a row of the table (record, begin_experiment).
LEMMA RowTypes ==
    ASSUME NEW e \in Nat \ {0}
    PROVE  /\ \A stage \in Stages : Row(e, stage) \in Rows
           /\ \A v \in Settings : SnapshotRow(e, v) \in Rows
           /\ \A v \in Settings : [Row(e, "rollback") EXCEPT !.val = v] \in Rows
           /\ \A q \in [val : Settings, lease : Nat], t \in Nat : IntentRow(e, q, t) \in Rows
           /\ \A stage \in Stages, note \in Notes : NoteRow(e, stage, note) \in Rows
           /\ \A stage \in Notes, w \in Whys : FailedRow(e, stage, w) \in Rows
  <1>0. 0 \in Settings /\ 0 \in Nat
    BY HostAssumption DEF Settings
  <1>n. "none" \in Notes /\ "none" \in Whys
    BY DEF Notes, Whys
  <1>1. \A stage \in Stages : Row(e, stage) \in Rows
    BY <1>0, <1>n DEF Row, Rows
  <1>2. /\ "snapshot" \in Stages /\ "rollback" \in Stages
        /\ "apply-intent" \in Stages /\ "failed" \in Stages
    BY DEF Stages, Terminal
  <1>3. \A v \in Settings : SnapshotRow(e, v) \in Rows
    BY <1>0, <1>n, <1>2 DEF SnapshotRow, Row, Rows
  <1>4. \A v \in Settings : [Row(e, "rollback") EXCEPT !.val = v] \in Rows
    BY <1>0, <1>n, <1>2 DEF Row, Rows
  <1>5. ASSUME NEW q \in [val : Settings, lease : Nat], NEW t \in Nat
        PROVE  IntentRow(e, q, t) \in Rows
    BY <1>0, <1>n, <1>2 DEF IntentRow, Row, Rows
  <1>6. \A stage \in Stages, note \in Notes : NoteRow(e, stage, note) \in Rows
    BY <1>0, <1>n DEF NoteRow, Row, Rows
  <1>7. \A stage \in Notes, w \in Whys : FailedRow(e, stage, w) \in Rows
    BY <1>0, <1>n, <1>2 DEF FailedRow, Row, Rows
  <1> QED BY <1>1, <1>3, <1>4, <1>5, <1>6, <1>7

-----------------------------------------------------------------------------
\* The four kinds of step a plane takes, as far as IDs and rows go.

\* Only plane p moves, and the host keeps its types.
Moves(p) ==
    /\ planes' \in [Planes -> PlaneStates]
    /\ \A q \in Planes : q # p => planes'[q] = planes[q]
    /\ knob' \in Settings /\ now' = now /\ faults' \in 0..MaxFaults

\* Outside an experiment: a call is refused, or its snapshot is taken.
Outside(p) ==
    /\ planes[p].exp = 0 /\ planes'[p].exp = 0
    /\ planes'[p].pc \in {"idle", "begin"}
    /\ journal' = journal

\* The experiment begins with a fresh ID and its snapshot row.
Begins(p) ==
    /\ planes[p].exp = 0 /\ planes'[p].exp = NextId(journal)
    /\ planes'[p].pc = "preview"
    /\ journal' = journal \o <<SnapshotRow(NextId(journal), planes[p].snap)>>

\* The experiment goes on, with at most one row that neither begins nor ends it.
Works(p) ==
    /\ planes[p].exp # 0 /\ planes'[p].exp = planes[p].exp
    /\ planes'[p].pc \notin {"idle", "begin"}
    /\ \/ journal' = journal
       \/ \E r \in Rows : /\ r.exp = planes[p].exp
                           /\ r.stage \notin Terminal \cup {"snapshot"}
                           /\ journal' = journal \o <<r>>

\* The experiment is left, with or without its terminal row.
Ends(p) ==
    /\ planes[p].exp # 0 /\ planes'[p].exp = 0
    /\ planes'[p].pc = "idle"
    /\ \/ journal' = journal
       \/ \E r \in Rows : /\ r.exp = planes[p].exp
                           /\ r.stage \in Terminal
                           /\ journal' = journal \o <<r>>

Kind(p) == Moves(p) /\ (Outside(p) \/ Begins(p) \/ Works(p) \/ Ends(p))

\* A fault leaves the budget in range (Fault, NoFault).
LEMMA FaultTypes ==
    ASSUME faults \in 0..MaxFaults
    PROVE  /\ NoFault => faults' \in 0..MaxFaults
           /\ \A kind : Fault(kind) => faults' \in 0..MaxFaults
  BY HostAssumption DEF NoFault, Fault

\* The helpers that move a plane's local state.
LEMMA LocalSteps ==
    ASSUME PlaneTypeOK, NEW p \in Planes
    PROVE  /\ \A pc \in PCs : Goto(p, pc) =>
                /\ planes' \in [Planes -> PlaneStates]
                /\ \A q \in Planes : q # p => planes'[q] = planes[q]
                /\ planes'[p].pc = pc /\ planes'[p].exp = planes[p].exp
           /\ \A reply \in Replies : Return(p, reply) =>
                /\ planes' \in [Planes -> PlaneStates]
                /\ \A q \in Planes : q # p => planes'[q] = planes[q]
                /\ planes'[p].pc = "idle" /\ planes'[p].exp = 0
           /\ \A stage \in FailureStages, kind \in FailureKinds, pc \in PCs :
                Fail(p, stage, kind, pc) =>
                /\ planes' \in [Planes -> PlaneStates]
                /\ \A q \in Planes : q # p => planes'[q] = planes[q]
                /\ planes'[p].pc = pc /\ planes'[p].exp = planes[p].exp
           /\ \A stage \in FailureStages, kind \in FailureKinds :
                FailRestore(p, stage, kind) =>
                /\ planes' \in [Planes -> PlaneStates]
                /\ \A q \in Planes : q # p => planes'[q] = planes[q]
                /\ planes'[p].pc = "outcome" /\ planes'[p].exp = planes[p].exp
  <1> planes \in [Planes -> PlaneStates] /\ planes[p] \in PlaneStates
    BY DEF PlaneTypeOK
  <1>1. ASSUME NEW pc \in PCs, Goto(p, pc)
        PROVE  /\ planes' \in [Planes -> PlaneStates]
               /\ \A q \in Planes : q # p => planes'[q] = planes[q]
               /\ planes'[p].pc = pc /\ planes'[p].exp = planes[p].exp
    BY <1>1 DEF Goto, PlaneStates
  <1>2. ASSUME NEW reply \in Replies, Return(p, reply)
        PROVE  /\ planes' \in [Planes -> PlaneStates]
               /\ \A q \in Planes : q # p => planes'[q] = planes[q]
               /\ planes'[p].pc = "idle" /\ planes'[p].exp = 0
    <2>0. 0 \in Settings
      BY HostAssumption DEF Settings
    <2>1. Idle(reply) \in PlaneStates /\ Idle(reply).pc = "idle" /\ Idle(reply).exp = 0
      BY <2>0 DEF Idle, PlaneStates, NoRequest, NoFailure, PCs
    <2> QED BY <1>2, <2>1 DEF Return
  <1>3. ASSUME NEW stage \in FailureStages, NEW kind \in FailureKinds, NEW pc \in PCs,
               Fail(p, stage, kind, pc)
        PROVE  /\ planes' \in [Planes -> PlaneStates]
               /\ \A q \in Planes : q # p => planes'[q] = planes[q]
               /\ planes'[p].pc = pc /\ planes'[p].exp = planes[p].exp
    BY <1>3 DEF Fail, PlaneStates, Failures
  <1>4. ASSUME NEW stage \in FailureStages, NEW kind \in FailureKinds,
               FailRestore(p, stage, kind)
        PROVE  /\ planes' \in [Planes -> PlaneStates]
               /\ \A q \in Planes : q # p => planes'[q] = planes[q]
               /\ planes'[p].pc = "outcome" /\ planes'[p].exp = planes[p].exp
    <2>1. planes[p].failure.stage \in FailureStages \cup {"none"}
      BY DEF PlaneStates, Failures, NoFailure
    <2> QED BY <1>4, <2>1 DEF FailRestore, PlaneStates, Failures, PCs
  <1> QED BY <1>1, <1>2, <1>3, <1>4

\* Where a plane can be once begin_experiment is behind it.
Working == PCs \ {"idle", "begin"}

Advances(p) ==
    /\ planes' \in [Planes -> PlaneStates]
    /\ \A q \in Planes : q # p => planes'[q] = planes[q]
    /\ planes'[p].exp = planes[p].exp
    /\ planes'[p].pc \notin {"idle", "begin"}

\* The steps that leave the journal alone change only the plane that takes them.
LEMMA WorkSteps ==
    ASSUME PlaneTypeOK, NEW p \in Planes
    PROVE  /\ \A pc \in Working : Goto(p, pc) => Advances(p)
           /\ \A stage \in FailureStages, kind \in FailureKinds :
                /\ \A pc \in Working : Fail(p, stage, kind, pc) => Advances(p)
                /\ FailRestore(p, stage, kind) => Advances(p)
  BY LocalSteps DEF Advances, Working

\* Every step of a plane is of one of the four kinds.
LEMMA StepKind ==
    ASSUME TypeInv, NEW p \in Planes,
           (\E request \in Requests : Submit(p, request)) \/ Continue(p) \/ Crash(p)
    PROVE  Kind(p)
  <1>0. /\ PlaneTypeOK /\ HoldsId(p) /\ faults \in 0..MaxFaults /\ knob \in Settings
        /\ planes[p] \in PlaneStates /\ journal \in Seq(Rows) /\ now \in Nat
    BY DEF TypeInv, PlaneTypeOK
  <1>e. planes[p].exp # 0 => planes[p].exp \in Nat \ {0}
    BY <1>0 DEF PlaneStates
  <1>s. /\ planes[p].req \in [val : Settings, lease : Nat] /\ planes[p].snap \in Settings
        /\ planes[p].req.val \in Settings
        /\ planes[p].failure \in Failures \cup {NoFailure}
        /\ planes[p].suppressed \in FailureStages \cup {"none"}
    BY <1>0 DEF PlaneStates
  <1>1. ASSUME NEW request \in Requests, Submit(p, request)
        PROVE  Kind(p)
    <2>1. planes[p].exp = 0
      BY <1>0, <1>1 DEF Submit, HoldsId
    <2>2. CASE Return(p, Validate(request)) /\ Validate(request) # "ok" /\ NoFault
      <3>1. Validate(request) \in Replies
        BY <2>2 DEF Validate, Replies
      <3> QED BY <1>0, <1>1, <2>1, <2>2, <3>1, LocalSteps, FaultTypes DEF Submit, Kind, Moves, Outside
    <2>3. CASE Return(p, "provider") /\ Fault("snapshot")
      <3>1. "provider" \in Replies
        BY DEF Replies, FailureKinds
      <3> QED BY <1>0, <1>1, <2>1, <2>3, <3>1, LocalSteps, FaultTypes DEF Submit, Kind, Moves, Outside
    <2>4. CASE /\ Validate(request) = "ok" /\ NoFault
               /\ planes' = [planes EXCEPT ![p] =
                     [Idle("none") EXCEPT !.pc = "begin",
                                          !.req = [val |-> request.val, lease |-> request.lease],
                                          !.snap = ProviderSnapshot]]
      <3> DEFINE ls == [Idle("none") EXCEPT !.pc = "begin",
                                            !.req = [val |-> request.val, lease |-> request.lease],
                                            !.snap = ProviderSnapshot]
      <3>1. request.val \in Settings /\ request.lease \in Nat
        BY <2>4, PlaneAssumption, HostAssumption DEF Validate, Settings
      <3>2. ls \in PlaneStates /\ ls.pc = "begin" /\ ls.exp = 0
        BY <1>0, <3>1 DEF Idle, PlaneStates, NoFailure, NoRequest, ProviderSnapshot, PCs, Replies
      <3> HIDE DEF ls
      <3>3. planes' = [planes EXCEPT ![p] = ls]
        BY <2>4 DEF ls
      <3>4. planes \in [Planes -> PlaneStates]
        BY <1>0 DEF PlaneTypeOK
      <3>5. /\ planes' \in [Planes -> PlaneStates] /\ planes'[p] = ls
            /\ \A q \in Planes : q # p => planes'[q] = planes[q]
        BY <3>2, <3>3, <3>4
      <3> QED BY <1>0, <1>1, <2>1, <2>4, <3>2, <3>5, FaultTypes DEF Submit, Kind, Moves, Outside
    <2> QED BY <1>1, <2>2, <2>3, <2>4 DEF Submit
  <1>2. ASSUME BeginExperiment(p)
        PROVE  Kind(p)
    <2>1. planes[p].exp = 0
      BY <1>0, <1>2 DEF BeginExperiment, HoldsId
    <2>2. PICK n \in Nat : Ids(journal) = 1..n
      BY DEF TypeInv, GapFree
    <2>3. NextId(journal) = n + 1
      BY <2>2, NextIdValue
    <2>4. CASE /\ planes' = [planes EXCEPT ![p].pc = "preview", ![p].exp = NextId(journal)]
               /\ Insert(<<SnapshotRow(NextId(journal), planes[p].snap)>>) /\ NoFault
      <3>1. /\ planes' \in [Planes -> PlaneStates]
            /\ planes'[p].pc = "preview" /\ planes'[p].exp = NextId(journal)
            /\ \A q \in Planes : q # p => planes'[q] = planes[q]
        <4>1. NextId(journal) \in Nat /\ "preview" \in PCs
          BY <2>3 DEF PCs
        <4> QED BY <1>0, <2>4, <4>1 DEF PlaneStates, PlaneTypeOK
      <3> QED BY <1>0, <1>2, <2>1, <2>4, <3>1, FaultTypes DEF BeginExperiment, Kind, Moves, Begins, Insert
    <2>5. CASE Return(p, "journal") /\ Fault("journal") /\ UNCHANGED journal
      <3>1. "journal" \in Replies
        BY DEF Replies, FailureKinds
      <3> QED BY <1>0, <1>2, <2>1, <2>5, <3>1, LocalSteps, FaultTypes DEF BeginExperiment, Kind, Moves, Outside
    <2> QED BY <1>2, <2>4, <2>5 DEF BeginExperiment
  <1>w. \A stage \in FailureStages : stage \in Stages \ (Terminal \cup {"snapshot"})
    BY DEF FailureStages, Stages, Terminal
  <1>k. /\ "provider" \in FailureKinds /\ "journal" \in FailureKinds
        /\ "verification-failed" \in FailureKinds
        /\ "rollback-verification-failed" \in FailureKinds
        /\ "preview" \in FailureStages /\ "apply-intent" \in FailureStages
        /\ "apply" \in FailureStages /\ "verify" \in FailureStages
        /\ "rollback" \in FailureStages /\ "rollback-verify" \in FailureStages
        /\ "true" \in Notes /\ "false" \in Notes
    BY DEF FailureKinds, FailureStages, Notes
  <1>c. /\ "intent" \in Working /\ "apply" \in Working /\ "applied" \in Working
        /\ "verify" \in Working /\ "rollback" \in Working /\ "rolled" \in Working
        /\ "check" \in Working /\ "outcome" \in Working
    BY DEF PCs, Working
  <1>x. planes[p].pc \notin {"idle", "begin"} => planes[p].exp # 0
    BY <1>0 DEF HoldsId
  <1>3. ASSUME Preview(p)
        PROVE  Kind(p)
    <2> DEFINE r == Row(planes[p].exp, "preview")
    <2>1. planes[p].exp # 0 /\ planes[p].exp \in Nat \ {0}
      BY <1>3, <1>e, <1>x DEF Preview
    <2>2. r \in Rows
      BY <1>0, <1>s, <1>w, <1>k, <2>1, RowTypes
    <2>3. r.exp = planes[p].exp /\ r.stage \notin Terminal \cup {"snapshot"}
      BY DEF Row, IntentRow, Terminal
    <2> HIDE DEF r
    <2>4. journal' = journal \/ journal' = journal \o <<r>>
      BY <1>3 DEF Preview, Record, RecordError, Insert, r
    <2>5. /\ planes' \in [Planes -> PlaneStates]
          /\ \A q \in Planes : q # p => planes'[q] = planes[q]
          /\ planes'[p].exp = planes[p].exp
          /\ planes'[p].pc \notin {"idle", "begin"}
          /\ faults' \in 0..MaxFaults
      BY <1>0, <1>3, <1>k, <1>c, WorkSteps, FaultTypes DEF Preview, Record, RecordError, Advances
    <2> QED BY <1>0, <1>3, <2>1, <2>2, <2>3, <2>4, <2>5 DEF Preview, Kind, Moves, Works
  <1>4. ASSUME RecordIntent(p)
        PROVE  Kind(p)
    <2> DEFINE r == IntentRow(planes[p].exp, planes[p].req, now)
    <2>1. planes[p].exp # 0 /\ planes[p].exp \in Nat \ {0}
      BY <1>4, <1>e, <1>x DEF RecordIntent
    <2>2. r \in Rows
      BY <1>0, <1>s, <1>w, <1>k, <2>1, RowTypes
    <2>3. r.exp = planes[p].exp /\ r.stage \notin Terminal \cup {"snapshot"}
      BY DEF Row, IntentRow, Terminal
    <2> HIDE DEF r
    <2>4. journal' = journal \/ journal' = journal \o <<r>>
      BY <1>4 DEF RecordIntent, Record, RecordError, Insert, r
    <2>5. /\ planes' \in [Planes -> PlaneStates]
          /\ \A q \in Planes : q # p => planes'[q] = planes[q]
          /\ planes'[p].exp = planes[p].exp
          /\ planes'[p].pc \notin {"idle", "begin"}
          /\ faults' \in 0..MaxFaults
      BY <1>0, <1>4, <1>k, <1>c, WorkSteps, FaultTypes DEF RecordIntent, Record, RecordError, Advances
    <2> QED BY <1>0, <1>4, <2>1, <2>2, <2>3, <2>4, <2>5 DEF RecordIntent, Kind, Moves, Works
  <1>6. ASSUME RecordApply(p)
        PROVE  Kind(p)
    <2> DEFINE r == Row(planes[p].exp, "apply")
    <2>1. planes[p].exp # 0 /\ planes[p].exp \in Nat \ {0}
      BY <1>6, <1>e, <1>x DEF RecordApply
    <2>2. r \in Rows
      BY <1>0, <1>s, <1>w, <1>k, <2>1, RowTypes
    <2>3. r.exp = planes[p].exp /\ r.stage \notin Terminal \cup {"snapshot"}
      BY DEF Row, IntentRow, Terminal
    <2> HIDE DEF r
    <2>4. journal' = journal \/ journal' = journal \o <<r>>
      BY <1>6 DEF RecordApply, Record, RecordError, Insert, r
    <2>5. /\ planes' \in [Planes -> PlaneStates]
          /\ \A q \in Planes : q # p => planes'[q] = planes[q]
          /\ planes'[p].exp = planes[p].exp
          /\ planes'[p].pc \notin {"idle", "begin"}
          /\ faults' \in 0..MaxFaults
      BY <1>0, <1>6, <1>k, <1>c, WorkSteps, FaultTypes DEF RecordApply, Record, RecordError, Advances
    <2> QED BY <1>0, <1>6, <2>1, <2>2, <2>3, <2>4, <2>5 DEF RecordApply, Kind, Moves, Works
  <1>9. ASSUME RecordRollback(p)
        PROVE  Kind(p)
    <2> DEFINE r == [Row(planes[p].exp, "rollback") EXCEPT !.val = planes[p].snap]
    <2>1. planes[p].exp # 0 /\ planes[p].exp \in Nat \ {0}
      BY <1>9, <1>e, <1>x DEF RecordRollback
    <2>2. r \in Rows
      BY <1>0, <1>s, <1>w, <1>k, <2>1, RowTypes
    <2>3. r.exp = planes[p].exp /\ r.stage \notin Terminal \cup {"snapshot"}
      BY DEF Row, IntentRow, Terminal
    <2> HIDE DEF r
    <2>4. journal' = journal \/ journal' = journal \o <<r>>
      BY <1>9 DEF RecordRollback, Record, RecordError, Insert, r
    <2>5. /\ planes' \in [Planes -> PlaneStates]
          /\ \A q \in Planes : q # p => planes'[q] = planes[q]
          /\ planes'[p].exp = planes[p].exp
          /\ planes'[p].pc \notin {"idle", "begin"}
          /\ faults' \in 0..MaxFaults
      BY <1>0, <1>9, <1>k, <1>c, WorkSteps, FaultTypes DEF RecordRollback, Record, RecordError, Advances
    <2> QED BY <1>0, <1>9, <2>1, <2>2, <2>3, <2>4, <2>5 DEF RecordRollback, Kind, Moves, Works
  <1>5. ASSUME Apply(p)
        PROVE  Kind(p)
    <2>1. planes[p].exp # 0
      BY <1>5, <1>x DEF Apply
    <2>2. journal' = journal /\ now' = now /\ knob' \in Settings
      BY <1>0, <1>s, <1>5 DEF Apply, ProviderApply, ProviderApplyError
    <2>3. /\ planes' \in [Planes -> PlaneStates]
          /\ \A q \in Planes : q # p => planes'[q] = planes[q]
          /\ planes'[p].exp = planes[p].exp
          /\ planes'[p].pc \notin {"idle", "begin"}
          /\ faults' \in 0..MaxFaults
      BY <1>0, <1>5, <1>k, <1>c, WorkSteps, FaultTypes DEF Apply, Advances
    <2> QED BY <2>1, <2>2, <2>3 DEF Kind, Moves, Works
  <1>8. ASSUME Rollback(p)
        PROVE  Kind(p)
    <2>1. planes[p].exp # 0
      BY <1>8, <1>x DEF Rollback
    <2>2. journal' = journal /\ now' = now /\ knob' \in Settings
      BY <1>0, <1>s, <1>8 DEF Rollback, ProviderRollback, ProviderCorruptRollback
    <2>3. /\ planes' \in [Planes -> PlaneStates]
          /\ \A q \in Planes : q # p => planes'[q] = planes[q]
          /\ planes'[p].exp = planes[p].exp
          /\ planes'[p].pc \notin {"idle", "begin"}
          /\ faults' \in 0..MaxFaults
      BY <1>0, <1>8, <1>k, <1>c, WorkSteps, FaultTypes DEF Rollback, Advances
    <2> QED BY <2>1, <2>2, <2>3 DEF Kind, Moves, Works
  <1>7. ASSUME Verify(p)
        PROVE  Kind(p)
    <2>1. planes[p].exp # 0 /\ planes[p].exp \in Nat \ {0}
      BY <1>7, <1>e, <1>x DEF Verify
    <2>2. \A note \in {"true", "false"} :
             /\ NoteRow(planes[p].exp, "verify", note) \in Rows
             /\ NoteRow(planes[p].exp, "verify", note).exp = planes[p].exp
             /\ NoteRow(planes[p].exp, "verify", note).stage \notin Terminal \cup {"snapshot"}
      <3>1. \A note \in {"true", "false"} : NoteRow(planes[p].exp, "verify", note) \in Rows
        BY <1>w, <1>k, <2>1, RowTypes
      <3> QED BY <3>1 DEF NoteRow, Row, Terminal
    <2>3. \/ journal' = journal
          \/ \E note \in {"true", "false"} :
                journal' = journal \o <<NoteRow(planes[p].exp, "verify", note)>>
      BY <1>7 DEF Verify, Record, RecordError, Insert
    <2>4. /\ planes' \in [Planes -> PlaneStates]
          /\ \A q \in Planes : q # p => planes'[q] = planes[q]
          /\ planes'[p].exp = planes[p].exp
          /\ planes'[p].pc \notin {"idle", "begin"}
          /\ faults' \in 0..MaxFaults
      BY <1>0, <1>7, <1>k, <1>c, WorkSteps, FaultTypes DEF Verify, Record, RecordError, Advances
    <2> QED BY <1>0, <1>7, <2>1, <2>2, <2>3, <2>4 DEF Verify, Kind, Moves, Works
  <1>10. ASSUME RollbackVerify(p)
        PROVE  Kind(p)
    <2>1. planes[p].exp # 0 /\ planes[p].exp \in Nat \ {0}
      BY <1>10, <1>e, <1>x DEF RollbackVerify
    <2>2. \A note \in {"true", "false"} :
             /\ NoteRow(planes[p].exp, "rollback-verify", note) \in Rows
             /\ NoteRow(planes[p].exp, "rollback-verify", note).exp = planes[p].exp
             /\ NoteRow(planes[p].exp, "rollback-verify", note).stage \notin Terminal \cup {"snapshot"}
      <3>1. \A note \in {"true", "false"} : NoteRow(planes[p].exp, "rollback-verify", note) \in Rows
        BY <1>w, <1>k, <2>1, RowTypes
      <3> QED BY <3>1 DEF NoteRow, Row, Terminal
    <2>3. \/ journal' = journal
          \/ \E note \in {"true", "false"} :
                journal' = journal \o <<NoteRow(planes[p].exp, "rollback-verify", note)>>
      BY <1>10 DEF RollbackVerify, Record, RecordError, Insert
    <2>4. /\ planes' \in [Planes -> PlaneStates]
          /\ \A q \in Planes : q # p => planes'[q] = planes[q]
          /\ planes'[p].exp = planes[p].exp
          /\ planes'[p].pc \notin {"idle", "begin"}
          /\ faults' \in 0..MaxFaults
      BY <1>0, <1>10, <1>k, <1>c, WorkSteps, FaultTypes DEF RollbackVerify, Record, RecordError, Advances
    <2> QED BY <1>0, <1>10, <2>1, <2>2, <2>3, <2>4 DEF RollbackVerify, Kind, Moves, Works
  <1>11. ASSUME RecordOutcome(p)
        PROVE  Kind(p)
    <2> DEFINE c == Row(planes[p].exp, "completed")
               f == FailedRow(planes[p].exp, planes[p].failure.stage, planes[p].suppressed)
    <2>1. planes[p].exp # 0 /\ planes[p].exp \in Nat \ {0}
      BY <1>11, <1>e, <1>x DEF RecordOutcome
    <2>2. c \in Rows /\ c.exp = planes[p].exp /\ c.stage \in Terminal
      <3>1. "completed" \in Stages
        BY DEF Stages, Terminal
      <3>2. c \in Rows
        BY <2>1, <3>1, RowTypes
      <3> QED BY <3>2 DEF Row, Terminal
    <2>3. f \in Rows /\ f.exp = planes[p].exp /\ f.stage \in Terminal
      <3>1. planes[p].failure.stage \in Notes /\ planes[p].suppressed \in Whys
        BY <1>s DEF Failures, NoFailure, Notes, Whys
      <3>2. f \in Rows
        BY <2>1, <3>1, RowTypes
      <3> QED BY <3>2 DEF FailedRow, Row, Terminal
    <2> HIDE DEF c, f
    <2>4. journal' = journal \/ journal' = journal \o <<c>> \/ journal' = journal \o <<f>>
      BY <1>11 DEF RecordOutcome, Insert, c, f
    <2>5. \E reply \in Replies : Return(p, reply)
      <3>1. {"ok", "journal"} \subseteq Replies
        BY DEF Replies, FailureKinds
      <3>2. planes[p].failure # NoFailure => planes[p].failure.kind \in Replies
        BY <1>s DEF Failures, Replies
      <3> QED BY <1>11, <3>1, <3>2 DEF RecordOutcome
    <2>6. faults' \in 0..MaxFaults /\ knob' = knob /\ now' = now
      BY <1>0, <1>11, FaultTypes DEF RecordOutcome
    <2> QED BY <1>0, <2>1, <2>2, <2>3, <2>4, <2>5, <2>6, LocalSteps DEF Kind, Moves, Ends
  <1>12. ASSUME Crash(p)
        PROVE  Kind(p)
    <2>1. "none" \in Replies
      BY DEF Replies
    <2>2. CASE planes[p].exp = 0
      BY <1>0, <1>12, <2>1, <2>2, LocalSteps, FaultTypes DEF Crash, Kind, Moves, Outside
    <2>3. CASE planes[p].exp # 0
      BY <1>0, <1>12, <2>1, <2>3, LocalSteps, FaultTypes DEF Crash, Kind, Moves, Ends
    <2> QED BY <2>2, <2>3
  <1> QED
    BY <1>1, <1>2, <1>3, <1>4, <1>5, <1>6, <1>7, <1>8, <1>9, <1>10, <1>11, <1>12 DEF Continue

\* The inductive step of type correctness.
LEMMA TypeInvStep ==
    ASSUME TypeInv, [PlaneNext]_planeVars
    PROVE  TypeInv'
  <1>1. CASE UNCHANGED planeVars
    BY <1>1 DEF TypeInv, PlaneTypeOK, GapFree, HoldsId, planeVars, hostVars
  <1>2. ASSUME NEW p \in Planes, Kind(p)
        PROVE  TypeInv'
    <2> USE <1>2
    <2>0. /\ journal \in Seq(Rows) /\ now \in Nat /\ planes \in [Planes -> PlaneStates]
          /\ \A q \in Planes : HoldsId(q)
      BY DEF TypeInv, PlaneTypeOK
    <2>1. PICK n \in Nat : Ids(journal) = 1..n
      BY DEF TypeInv, GapFree
    <2>2. CASE journal' = journal
      <3>1. Ids(journal') = Ids(journal)
        BY <2>2
      <3>2. ~Begins(p)
        <4>1. NextId(journal) = n + 1
          BY <2>1, NextIdValue
        <4>2. ASSUME Begins(p) PROVE FALSE
          <5>1. planes[p].snap \in Settings
            BY <2>0 DEF PlaneStates
          <5>2. SnapshotRow(NextId(journal), planes[p].snap) \in Rows
            BY <4>1, <5>1, RowTypes
          <5>3. Len(journal') = Len(journal) + 1
            BY <2>0, <4>2, <5>2, AppendRow DEF Begins
          <5> QED BY <2>0, <2>2, <5>3
        <4> QED BY <4>2
      <3>3. \A q \in Planes : HoldsId(q)'
        BY <2>0, <3>1, <3>2 DEF HoldsId, Kind, Moves, Outside, Works, Ends
      <3>4. PlaneTypeOK' /\ GapFree'
        BY <2>0, <2>1, <2>2, <3>1 DEF PlaneTypeOK, GapFree, Kind, Moves
      <3> QED BY <3>3, <3>4 DEF TypeInv
    <2>3. ASSUME NEW r \in Rows, r.exp = planes[p].exp, planes[p].exp # 0,
                 journal' = journal \o <<r>>, Works(p) \/ Ends(p)
          PROVE  TypeInv'
      <3>0. Ids(journal \o <<r>>) = Ids(journal) \cup {r.exp}
        BY <2>0, IdsAppend
      <3>a. planes[p].exp \in Ids(journal)
        BY <2>0, <2>3 DEF HoldsId
      <3>1. Ids(journal') = Ids(journal)
        BY <2>3, <3>0, <3>a
      <3>2. journal' \in Seq(Rows)
        BY <2>0, <2>3, AppendRow
      <3>3. \A q \in Planes : HoldsId(q)'
        BY <2>0, <2>3, <3>1 DEF HoldsId, Kind, Moves, Works, Ends
      <3>4. PlaneTypeOK' /\ GapFree'
        BY <2>0, <2>1, <3>1, <3>2 DEF PlaneTypeOK, GapFree, Kind, Moves
      <3> QED BY <3>3, <3>4 DEF TypeInv
    <2>4. CASE Begins(p)
      <3> DEFINE r == SnapshotRow(NextId(journal), planes[p].snap)
      <3>1. NextId(journal) = n + 1
        BY <2>1, NextIdValue
      <3>2. planes[p].snap \in Settings
        BY <2>0 DEF PlaneStates
      <3>3. r \in Rows
        BY <3>1, <3>2, RowTypes
      <3>4. r.exp = n + 1
        BY <3>1 DEF SnapshotRow, Row
      <3> HIDE DEF r
      <3>5. journal' = journal \o <<r>>
        BY <2>4 DEF Begins, r
      <3>a. Ids(journal \o <<r>>) = Ids(journal) \cup {r.exp}
        BY <2>0, <3>3, IdsAppend
      <3>b. (1..n) \cup {n + 1} = 1..(n + 1)
        OBVIOUS
      <3>6. Ids(journal') = 1..(n + 1)
        BY <2>1, <3>4, <3>5, <3>a, <3>b
      <3>7. journal' \in Seq(Rows)
        BY <2>0, <3>3, <3>5, AppendRow
      <3>8. \A q \in Planes : HoldsId(q)'
        BY <2>0, <2>1, <2>4, <3>1, <3>6 DEF HoldsId, Kind, Moves, Begins
      <3>9. PlaneTypeOK' /\ GapFree'
        BY <2>0, <3>6, <3>7 DEF PlaneTypeOK, GapFree, Kind, Moves
      <3> QED BY <3>8, <3>9 DEF TypeInv
    <2> QED BY <2>2, <2>3, <2>4 DEF Kind, Outside, Works, Ends
  <1> QED BY <1>1, <1>2, StepKind DEF PlaneNext

\* The initial states of ControlPlane::open satisfy the type invariant.
LEMMA TypeInvInit ==
    ASSUME HostInit, PlaneInit
    PROVE  TypeInv
  <1>1. journal \in Seq(Rows) /\ Ids(journal) = 1..0
    BY DEF HostInit, Ids
  <1>2. knob \in Settings /\ now \in Nat /\ faults \in 0..MaxFaults /\ 0 \in Settings
    BY HostAssumption DEF HostInit, Settings
  <1>3. Idle("none") \in PlaneStates /\ Idle("none").pc = "idle" /\ Idle("none").exp = 0
    BY <1>2 DEF Idle, PlaneStates, NoRequest, NoFailure, PCs, Replies
  <1>4. planes \in [Planes -> PlaneStates] /\ \A p \in Planes : HoldsId(p)
    BY <1>3 DEF PlaneInit, HoldsId
  <1> QED BY <1>1, <1>2, <1>4 DEF TypeInv, PlaneTypeOK, GapFree

\* The inductive type invariant holds in every state of the planes.
LEMMA TypeInvariance == PlaneSpec => []TypeInv
  <1>1. HostInit /\ PlaneInit => TypeInv
    BY TypeInvInit
  <1>2. TypeInv /\ [PlaneNext]_planeVars => TypeInv'
    BY TypeInvStep
  <1> QED BY <1>1, <1>2, PTL DEF PlaneSpec, PlanesInit

\* Type correctness of the control planes: for any number of planes and any
\* faults, in particular nothing past the policy ceiling is ever requested of
\* the provider or captured as a baseline (validate, run_lifecycle).
THEOREM PlaneTypeCorrect == PlaneSpec => []PlaneTypeOK
  <1>1. TypeInv => PlaneTypeOK
    BY DEF TypeInv
  <1> QED BY <1>1, TypeInvariance, PTL

-----------------------------------------------------------------------------
\* One lifecycle per correlation ID, and nothing after its terminal record

\* A plane never works under an ID whose experiment has been closed.
WorksOnOpen == \A p \in Planes : planes[p].exp # 0 => ~Closed(journal, planes[p].exp)

HistoryInv == UniqueCorrelation /\ TerminalIsLast /\ WorksOnOpen

\* The journal after an INSERT of one row.
LEMMA Inserted ==
    ASSUME journal \in Seq(Rows), NEW r \in Rows, journal' = journal \o <<r>>
    PROVE  /\ Len(journal) \in Nat
           /\ DOMAIN journal = 1..Len(journal)
           /\ DOMAIN journal' = 1..(Len(journal) + 1)
           /\ \A i \in DOMAIN journal : journal'[i] = journal[i]
           /\ journal'[Len(journal) + 1] = r
           /\ Ids(journal') = Ids(journal) \cup {r.exp}
           /\ \A e, T : HasStage(journal', e, T) <=>
                          HasStage(journal, e, T) \/ (r.exp = e /\ r.stage \in T)
  BY AppendRow, IdsAppend, HasStageAppend

\* An ID the journal does not know has no rows (HasStage).
LEMMA UnknownId ==
    ASSUME NEW e, e \notin Ids(journal), NEW T
    PROVE  ~HasStage(journal, e, T) /\ \A i \in DOMAIN journal : journal[i].exp # e
  BY DEF Ids, HasStage

\* Every step of a plane keeps correlation IDs to one lifecycle each.
LEMMA UniqueStep ==
    ASSUME TypeInv, UniqueCorrelation, NEW p \in Planes, Kind(p)
    PROVE  UniqueCorrelation'
  <1>0. /\ journal \in Seq(Rows) /\ planes \in [Planes -> PlaneStates]
        /\ \A q \in Planes : HoldsId(q) /\ (q # p => planes'[q] = planes[q])
    BY DEF TypeInv, PlaneTypeOK, Kind, Moves
  <1>1. CASE journal' = journal /\ planes'[p].exp \in {0, planes[p].exp}
    <2>1. \A q \in Planes : planes'[q].exp \in {0, planes[q].exp}
      BY <1>0, <1>1
    <2> QED BY <1>1, <2>1 DEF UniqueCorrelation
  <1>2. ASSUME NEW r \in Rows, journal' = journal \o <<r>>,
               r.exp = planes[p].exp, planes[p].exp # 0, r.stage # "snapshot",
               planes'[p].exp \in {0, planes[p].exp}
        PROVE  UniqueCorrelation'
    <2>0. r.exp \in Ids(journal)
      BY <1>0, <1>2 DEF HoldsId
    <2> DEFINE L == Len(journal)
    <2>i. /\ L \in Nat
          /\ DOMAIN journal = 1..L /\ DOMAIN journal' = 1..(L + 1)
          /\ \A i \in DOMAIN journal : journal'[i] = journal[i]
          /\ journal'[L + 1] = r
          /\ Ids(journal') = Ids(journal)
          /\ \A e, T : HasStage(journal', e, T) <=>
                         HasStage(journal, e, T) \/ (r.exp = e /\ r.stage \in T)
      BY <1>0, <1>2, <2>0, Inserted, ZenonT(40)
    <2> HIDE DEF L
    <2>1. \A i, k \in DOMAIN journal' :
             journal'[i].exp = journal'[k].exp /\ journal'[k].stage = "snapshot" => k <= i
      BY <1>2, <2>i DEF UniqueCorrelation
    <2>2. \A e \in Ids(journal') : HasStage(journal', e, {"snapshot"})
      BY <2>i DEF UniqueCorrelation
    <2>3. \A q \in Planes : planes'[q].exp \in {0, planes[q].exp}
      BY <1>0, <1>2
    <2>4. \A q1, q2 \in Planes : planes'[q1].exp # 0 /\ planes'[q1].exp = planes'[q2].exp => q1 = q2
      BY <2>3 DEF UniqueCorrelation
    <2> QED BY <2>1, <2>2, <2>4 DEF UniqueCorrelation
  <1>3. CASE Begins(p)
    <2> DEFINE e0 == NextId(journal)
               r == SnapshotRow(e0, planes[p].snap)
               L == Len(journal)
    <2>1. PICK n \in Nat : Ids(journal) = 1..n
      BY DEF TypeInv, GapFree
    <2>2. e0 = n + 1 /\ e0 \notin Ids(journal) /\ e0 # 0
      BY <2>1, NextIdValue
    <2>3. r \in Rows
      <3>1. planes[p].snap \in Settings
        BY <1>0 DEF PlaneStates
      <3>2. e0 \in Nat \ {0}
        BY <2>1, <2>2
      <3> HIDE DEF e0
      <3> QED BY <3>1, <3>2, RowTypes
    <2>4. r.exp = e0 /\ r.stage = "snapshot"
      BY DEF SnapshotRow, Row
    <2>5. journal' = journal \o <<r>> /\ planes'[p].exp = e0
      BY <1>3 DEF Begins
    <2> HIDE DEF r, L, e0
    <2>i. /\ L \in Nat
          /\ DOMAIN journal = 1..L /\ DOMAIN journal' = 1..(L + 1)
          /\ \A i \in DOMAIN journal : journal'[i] = journal[i]
          /\ journal'[L + 1] = r
          /\ Ids(journal') = Ids(journal) \cup {e0}
          /\ \A e, T : HasStage(journal', e, T) <=>
                         HasStage(journal, e, T) \/ (e0 = e /\ "snapshot" \in T)
      BY <1>0, <2>3, <2>4, <2>5, Inserted DEF L
    <2>6. \A i \in DOMAIN journal : journal[i].exp # e0
      BY <2>2, UnknownId
    <2>7. \A i, k \in DOMAIN journal' :
             journal'[i].exp = journal'[k].exp /\ journal'[k].stage = "snapshot" => k <= i
      BY <2>4, <2>6, <2>i DEF UniqueCorrelation
    <2>8. \A e \in Ids(journal') : HasStage(journal', e, {"snapshot"})
      BY <2>i DEF UniqueCorrelation
    <2>9. \A q \in Planes : planes[q].exp # e0
      BY <1>0, <2>2 DEF HoldsId
    <2>10. \A q1, q2 \in Planes : planes'[q1].exp # 0 /\ planes'[q1].exp = planes'[q2].exp => q1 = q2
      BY <1>0, <2>5, <2>9 DEF UniqueCorrelation
    <2> QED BY <2>7, <2>8, <2>10 DEF UniqueCorrelation
  <1>4. "snapshot" \notin Terminal
    BY DEF Terminal
  <1> QED BY <1>1, <1>2, <1>3, <1>4 DEF Kind, Outside, Works, Ends

\* No step of a plane closes the experiment it, or another plane, works on.
LEMMA OpenStep ==
    ASSUME TypeInv, UniqueCorrelation, WorksOnOpen, NEW p \in Planes, Kind(p)
    PROVE  WorksOnOpen'
  <1>0. /\ journal \in Seq(Rows) /\ planes \in [Planes -> PlaneStates]
        /\ \A q \in Planes : HoldsId(q) /\ (q # p => planes'[q] = planes[q])
    BY DEF TypeInv, PlaneTypeOK, Kind, Moves
  <1>1. CASE journal' = journal /\ planes'[p].exp \in {0, planes[p].exp}
    BY <1>0, <1>1 DEF WorksOnOpen
  <1>2. ASSUME NEW r \in Rows, journal' = journal \o <<r>>,
               r.exp = planes[p].exp, planes[p].exp # 0,
               planes'[p].exp \in {0, planes[p].exp},
               planes'[p].exp # 0 => r.stage \notin Terminal,
               NEW q \in Planes, planes'[q].exp # 0
        PROVE  ~Closed(journal', planes'[q].exp)
    <2>1. \A e : Closed(journal', e) <=> Closed(journal, e) \/ (r.exp = e /\ r.stage \in Terminal)
      BY <1>0, <1>2, Inserted DEF Closed
    <2>2. CASE q = p
      BY <1>2, <2>1, <2>2 DEF WorksOnOpen
    <2>3. CASE q # p
      <3>1. planes'[q].exp = planes[q].exp /\ planes[q].exp # r.exp
        BY <1>0, <1>2, <2>3 DEF UniqueCorrelation
      <3> QED BY <1>2, <2>1, <3>1 DEF WorksOnOpen
    <2> QED BY <2>2, <2>3
  <1>3. CASE Begins(p)
    <2> DEFINE e0 == NextId(journal)
               r == SnapshotRow(e0, planes[p].snap)
    <2>1. PICK n \in Nat : Ids(journal) = 1..n
      BY DEF TypeInv, GapFree
    <2>2. e0 = n + 1 /\ e0 \notin Ids(journal) /\ e0 # 0
      BY <2>1, NextIdValue
    <2>3. planes[p].snap \in Settings
      BY <1>0 DEF PlaneStates
    <2>n. e0 \in Nat \ {0}
      BY <2>2
    <2>4. r \in Rows
      BY <2>n, <2>3, RowTypes
    <2>5. r.exp = e0 /\ r.stage = "snapshot" /\ "snapshot" \notin Terminal
      BY DEF SnapshotRow, Row, Terminal
    <2>6. journal' = journal \o <<r>> /\ planes'[p].exp = e0
      BY <1>3 DEF Begins
    <2> HIDE DEF r, e0
    <2>7. \A e : Closed(journal', e) <=> Closed(journal, e)
      BY <1>0, <2>4, <2>5, <2>6, Inserted DEF Closed
    <2>8. ~Closed(journal, e0)
      BY <2>2, UnknownId DEF Closed
    <2> QED BY <1>0, <2>6, <2>7, <2>8 DEF WorksOnOpen
  <1> QED BY <1>1, <1>2, <1>3 DEF Kind, Outside, Works, Ends, WorksOnOpen

\* Every step of run_lifecycle keeps the history invariant of the journal.
LEMMA HistoryStep ==
    ASSUME TypeInv, HistoryInv, [PlaneNext]_planeVars
    PROVE  HistoryInv'
  <1>1. CASE UNCHANGED planeVars
    BY <1>1 DEF HistoryInv, UniqueCorrelation, TerminalIsLast, WorksOnOpen, Closed, HasStage,
                Ids, planeVars, hostVars
  <1>2. ASSUME NEW p \in Planes, Kind(p)
        PROVE  HistoryInv'
    <2> USE <1>2
    <2>0. /\ journal \in Seq(Rows) /\ planes \in [Planes -> PlaneStates]
          /\ \A q \in Planes : HoldsId(q) /\ (q # p => planes'[q] = planes[q])
      BY DEF TypeInv, PlaneTypeOK, Kind, Moves
    <2>u. UniqueCorrelation'
      BY UniqueStep DEF HistoryInv
    <2>o. WorksOnOpen'
      BY OpenStep DEF HistoryInv
    <2>1. CASE journal' = journal /\ planes'[p].exp \in {0, planes[p].exp}
      <3>1. TerminalIsLast'
        BY <2>1 DEF HistoryInv, TerminalIsLast
      <3> QED BY <2>o, <2>u, <3>1 DEF HistoryInv
    <2>2. ASSUME NEW r \in Rows, journal' = journal \o <<r>>,
                 r.exp = planes[p].exp, planes[p].exp # 0, r.stage # "snapshot",
                 planes'[p].exp \in {0, planes[p].exp},
                 planes'[p].exp # 0 => r.stage \notin Terminal
          PROVE  HistoryInv'
      <3>0. ~Closed(journal, r.exp) /\ r.exp \in Ids(journal)
        BY <2>0, <2>2 DEF HistoryInv, WorksOnOpen, HoldsId
      <3> DEFINE L == Len(journal)
      <3>i. /\ L \in Nat
            /\ DOMAIN journal = 1..L /\ DOMAIN journal' = 1..(L + 1)
            /\ \A i \in DOMAIN journal : journal'[i] = journal[i]
            /\ journal'[L + 1] = r
            /\ Ids(journal') = Ids(journal)
            /\ \A e, T : HasStage(journal', e, T) <=>
                           HasStage(journal, e, T) \/ (r.exp = e /\ r.stage \in T)
        BY <2>0, <2>2, <3>0, Inserted, ZenonT(40)
      <3> HIDE DEF L
      <3>1. TerminalIsLast'
        <4>1. \A i \in DOMAIN journal : journal[i].stage \in Terminal => journal[i].exp # r.exp
          BY <3>0 DEF Closed, HasStage
        <4> QED BY <3>i, <4>1 DEF HistoryInv, TerminalIsLast
      <3> QED BY <2>o, <2>u, <3>1 DEF HistoryInv
    <2>3. CASE Begins(p)
      <3> DEFINE e0 == NextId(journal)
                 r == SnapshotRow(e0, planes[p].snap)
                 L == Len(journal)
      <3>1. PICK n \in Nat : Ids(journal) = 1..n
        BY DEF TypeInv, GapFree
      <3>2. e0 = n + 1 /\ e0 \notin Ids(journal) /\ e0 # 0
        BY <3>1, NextIdValue
      <3>3. r \in Rows
        <4>1. planes[p].snap \in Settings
          BY <2>0 DEF PlaneStates
        <4> QED BY <3>2, <4>1, RowTypes
      <3>4. r.exp = e0 /\ r.stage = "snapshot"
        BY DEF SnapshotRow, Row
      <3>5. journal' = journal \o <<r>> /\ planes'[p].exp = e0
        BY <2>3 DEF Begins
      <3> HIDE DEF r, L, e0
      <3>i. /\ L \in Nat
            /\ DOMAIN journal = 1..L /\ DOMAIN journal' = 1..(L + 1)
            /\ \A i \in DOMAIN journal : journal'[i] = journal[i]
            /\ journal'[L + 1] = r
            /\ Ids(journal') = Ids(journal) \cup {e0}
            /\ \A e, T : HasStage(journal', e, T) <=>
                           HasStage(journal, e, T) \/ (e0 = e /\ "snapshot" \in T)
        BY <2>0, <3>3, <3>4, <3>5, Inserted DEF L
      <3>6. \A i \in DOMAIN journal : journal[i].exp # e0
        BY <3>2, UnknownId
      <3>7. TerminalIsLast'
        BY <3>4, <3>6, <3>i DEF HistoryInv, TerminalIsLast
      <3> QED BY <2>o, <2>u, <3>7 DEF HistoryInv
    <2>4. CASE Outside(p)
      BY <2>1, <2>4 DEF Outside
    <2>5. CASE Works(p)
      BY <2>1, <2>2, <2>5 DEF Works
    <2>6. CASE Ends(p)
      <3>1. "snapshot" \notin Terminal
        BY DEF Terminal
      <3> QED BY <2>1, <2>2, <2>6, <3>1 DEF Ends
    <2> QED BY <2>3, <2>4, <2>5, <2>6 DEF Kind
  <1> QED BY <1>1, <1>2, StepKind DEF PlaneNext

\* The history invariant holds in every state of the planes.
LEMMA HistoryInvariance == PlaneSpec => []HistoryInv
  <1>1. HostInit /\ PlaneInit => HistoryInv
    <2> SUFFICES ASSUME HostInit, PlaneInit PROVE HistoryInv
      OBVIOUS
    <2>1. DOMAIN journal = {} /\ Ids(journal) = {}
      BY DEF HostInit, Ids
    <2>2. \A p \in Planes : planes[p].exp = 0
      BY DEF PlaneInit, Idle
    <2> QED BY <2>1, <2>2 DEF HistoryInv, UniqueCorrelation, TerminalIsLast, WorksOnOpen
  <1>2. TypeInv /\ HistoryInv /\ [PlaneNext]_planeVars => HistoryInv'
    BY HistoryStep
  <1> QED BY <1>1, <1>2, TypeInvariance, PTL DEF PlaneSpec, PlanesInit

\* Correlation IDs are unique however many gateways share the journal file:
\* the snapshot row and the ID are one transaction (begin_experiment).
THEOREM CorrelationUnique == PlaneSpec => []UniqueCorrelation
  <1>1. HistoryInv => UniqueCorrelation
    BY DEF HistoryInv
  <1> QED BY <1>1, HistoryInvariance, PTL

\* As long as only control planes write, a terminal record is the last of its
\* experiment, so there is at most one (record_outcome).
THEOREM TerminalLast == PlaneSpec => []TerminalIsLast
  <1>1. HistoryInv => TerminalIsLast
    BY DEF HistoryInv
  <1> QED BY <1>1, HistoryInvariance, PTL

-----------------------------------------------------------------------------
\* A leaked setting can be found in the journal

\* The host is at the snapshot of the plane before its change and again from
\* its rollback on; ...
AtSnapshot(p) ==
    planes[p].pc \in {"begin", "preview", "intent", "apply", "rolled", "check", "outcome"}
        => knob = planes[p].snap

\* ... in between, its own intent is dangling; ...
IntentIsOpen(p) ==
    planes[p].pc \in {"apply", "applied", "verify", "rollback", "rolled", "check"}
        => planes[p].exp \in Dangling(journal)

\* ... and a snapshot that is not the baseline was taken over an older leak.
OlderLeak(p) ==
    planes[p].pc # "idle" /\ planes[p].snap # Baseline
        => \E e \in Dangling(journal) : e # planes[p].exp

LeakInv ==
    /\ LeakIsDiscoverable
    /\ \A p \in Planes : AtSnapshot(p) /\ IntentIsOpen(p) /\ OlderLeak(p)

\* What a row does to the dangling experiments (doctor's query).
LEMMA DanglingAfter ==
    ASSUME journal \in Seq(Rows), NEW r \in Rows, journal' = journal \o <<r>>
    PROVE  /\ r.stage \notin Terminal => Dangling(journal) \subseteq Dangling(journal')
           /\ Dangling(journal) \ {r.exp} \subseteq Dangling(journal')
           /\ r.stage = "apply-intent" /\ ~Closed(journal, r.exp) => r.exp \in Dangling(journal')
  <1>0. "apply-intent" \notin Terminal
    BY DEF Terminal
  <1>1. /\ Ids(journal') = Ids(journal) \cup {r.exp}
        /\ \A e, T : HasStage(journal', e, T) <=>
                       HasStage(journal, e, T) \/ (r.exp = e /\ r.stage \in T)
    BY Inserted
  <1>2. \A e : Closed(journal', e) <=> Closed(journal, e) \/ (r.exp = e /\ r.stage \in Terminal)
    BY <1>1 DEF Closed
  <1> QED BY <1>0, <1>1, <1>2 DEF Dangling

\* A step closes no experiment but its plane's own, and that only when it ends.
LEMMA DanglingKept ==
    ASSUME TypeInv, NEW p \in Planes, Kind(p)
    PROVE  /\ Dangling(journal) \ {planes[p].exp} \subseteq Dangling(journal')
           /\ ~Ends(p) => Dangling(journal) \subseteq Dangling(journal')
           /\ journal' = journal => Dangling(journal) \subseteq Dangling(journal')
  <1>0. journal \in Seq(Rows) /\ planes[p] \in PlaneStates
    BY DEF TypeInv, PlaneTypeOK
  <1>1. CASE journal' = journal
    BY <1>1
  <1>2. CASE Begins(p)
    <2> DEFINE r == SnapshotRow(NextId(journal), planes[p].snap)
    <2>1. PICK n \in Nat : Ids(journal) = 1..n
      BY DEF TypeInv, GapFree
    <2>2. NextId(journal) \in Nat \ {0} /\ planes[p].snap \in Settings
      BY <1>0, <2>1, NextIdValue DEF PlaneStates
    <2>3. r \in Rows /\ r.stage \notin Terminal
      <3>1. r \in Rows
        BY <2>2, RowTypes
      <3> QED BY <3>1 DEF SnapshotRow, Row, Terminal
    <2> HIDE DEF r
    <2>4. journal' = journal \o <<r>>
      BY <1>2 DEF Begins, r
    <2> QED BY <1>0, <2>3, <2>4, DanglingAfter
  <1>3. ASSUME NEW r \in Rows, r.exp = planes[p].exp, journal' = journal \o <<r>>,
               (Works(p) /\ r.stage \notin Terminal) \/ Ends(p)
        PROVE  /\ Dangling(journal) \ {planes[p].exp} \subseteq Dangling(journal')
               /\ ~Ends(p) => Dangling(journal) \subseteq Dangling(journal')
               /\ journal' = journal => Dangling(journal) \subseteq Dangling(journal')
    BY <1>0, <1>3, DanglingAfter
  <1> QED BY <1>1, <1>2, <1>3 DEF Kind, Outside, Works, Ends

\* The helpers that move a plane keep its snapshot.
LEMMA SnapshotKept ==
    ASSUME PlaneTypeOK, NEW p \in Planes
    PROVE  /\ \A pc : Goto(p, pc) =>
                 planes'[p].pc = pc /\ planes'[p].snap = planes[p].snap
                 /\ planes'[p].exp = planes[p].exp
           /\ \A stage, kind, pc : Fail(p, stage, kind, pc) =>
                 planes'[p].pc = pc /\ planes'[p].snap = planes[p].snap
                 /\ planes'[p].exp = planes[p].exp
           /\ \A stage, kind : FailRestore(p, stage, kind) =>
                 planes'[p].pc = "outcome" /\ planes'[p].snap = planes[p].snap
                 /\ planes'[p].exp = planes[p].exp
           /\ \A reply : Return(p, reply) => planes'[p].pc = "idle"
  <1> planes \in [Planes -> PlaneStates] /\ planes[p] \in PlaneStates
    BY DEF PlaneTypeOK
  <1>1. \A pc : Goto(p, pc) =>
           planes'[p].pc = pc /\ planes'[p].snap = planes[p].snap /\ planes'[p].exp = planes[p].exp
    BY DEF Goto, PlaneStates
  <1>2. \A stage, kind, pc : Fail(p, stage, kind, pc) =>
           planes'[p].pc = pc /\ planes'[p].snap = planes[p].snap /\ planes'[p].exp = planes[p].exp
    BY DEF Fail, PlaneStates
  <1>3. \A stage, kind : FailRestore(p, stage, kind) =>
           planes'[p].pc = "outcome" /\ planes'[p].snap = planes[p].snap /\ planes'[p].exp = planes[p].exp
    BY DEF FailRestore, PlaneStates
  <1>4. \A reply : Return(p, reply) => planes'[p].pc = "idle"
    BY DEF Return, Idle
  <1> QED BY <1>1, <1>2, <1>3, <1>4

\* The inductive step, for the only plane p and a provider that rolls back.
LEMMA LeakStep ==
    ASSUME TypeInv, WorksOnOpen, LeakInv, NEW p, Planes = {p}, "rollback" \notin Faults,
           (\E request \in Requests : Submit(p, request)) \/ Continue(p) \/ Crash(p)
    PROVE  LeakInv'
  <1>0. /\ PlaneTypeOK /\ p \in Planes /\ HoldsId(p) /\ journal \in Seq(Rows)
        /\ planes[p] \in PlaneStates /\ planes \in [Planes -> PlaneStates]
        /\ AtSnapshot(p) /\ IntentIsOpen(p) /\ OlderLeak(p) /\ LeakIsDiscoverable
    BY DEF TypeInv, PlaneTypeOK, LeakInv
  <1>k. Kind(p)
    BY <1>0, StepKind
  <1>q. SUFFICES LeakIsDiscoverable' /\ AtSnapshot(p)' /\ IntentIsOpen(p)' /\ OlderLeak(p)'
    BY DEF LeakInv
  \* Dangling only loses p's own experiment, and that only when it ends.
  <1>d. /\ Dangling(journal) \ {planes[p].exp} \subseteq Dangling(journal')
        /\ ~Ends(p) => Dangling(journal) \subseteq Dangling(journal')
        /\ journal' = journal => Dangling(journal) \subseteq Dangling(journal')
    BY <1>0, <1>k, DanglingKept
  <1>1. ASSUME NEW request \in Requests, Submit(p, request)
        PROVE  LeakIsDiscoverable' /\ AtSnapshot(p)' /\ IntentIsOpen(p)' /\ OlderLeak(p)'
    <2>0. journal' = journal /\ knob' = knob
      BY <1>1 DEF Submit
    <2>1. \/ planes'[p].pc = "idle"
          \/ planes'[p].pc = "begin" /\ planes'[p].snap = knob /\ planes'[p].exp = 0
      <3>1. CASE \E reply : Return(p, reply)
        <4>1. PICK reply : Return(p, reply)
          BY <3>1
        <4> QED BY <1>0, <4>1, SnapshotKept
      <3>2. CASE planes' = [planes EXCEPT ![p] =
                    [Idle("none") EXCEPT
                       !.pc = "begin",
                       !.req = [val |-> request.val, lease |-> request.lease],
                       !.snap = ProviderSnapshot]]
        <4>1. planes \in [Planes -> PlaneStates]
          BY <1>0 DEF TypeInv, PlaneTypeOK
        <4>2. planes'[p] = [Idle("none") EXCEPT
                              !.pc = "begin",
                              !.req = [val |-> request.val, lease |-> request.lease],
                              !.snap = ProviderSnapshot]
          BY <3>2, <4>1
        <4> QED BY <4>2 DEF Idle, ProviderSnapshot
      <3> QED BY <1>1, <3>1, <3>2 DEF Submit
    <2>2. 0 \notin Dangling(journal)
      BY DEF TypeInv, GapFree, Dangling
    <2>3. LeakIsDiscoverable'
      BY <1>0, <2>0 DEF LeakIsDiscoverable
    <2> QED BY <1>0, <2>0, <2>1, <2>2, <2>3
            DEF AtSnapshot, IntentIsOpen, OlderLeak, LeakIsDiscoverable
  <1>2. ASSUME BeginExperiment(p)
        PROVE  LeakIsDiscoverable' /\ AtSnapshot(p)' /\ IntentIsOpen(p)' /\ OlderLeak(p)'
    <2>0. knob' = knob /\ planes[p].pc = "begin" /\ ~Ends(p)
      BY <1>0, <1>2 DEF BeginExperiment, HoldsId, Ends
    <2>1. \/ planes'[p].pc = "idle"
          \/ /\ planes'[p].pc = "preview" /\ planes'[p].snap = planes[p].snap
             /\ planes'[p].exp = NextId(journal)
      BY <1>0, <1>2, SnapshotKept DEF BeginExperiment, PlaneStates
    <2>2. NextId(journal) \notin Dangling(journal)
      <3>1. PICK n \in Nat : Ids(journal) = 1..n
        BY DEF TypeInv, GapFree
      <3> QED BY <3>1, NextIdValue DEF Dangling
    <2>3. LeakIsDiscoverable'
      BY <1>0, <1>d, <2>0 DEF LeakIsDiscoverable
    <2> QED BY <1>0, <1>d, <2>0, <2>1, <2>2, <2>3 DEF AtSnapshot, IntentIsOpen, OlderLeak
  <1>3. ASSUME Preview(p)
        PROVE  LeakIsDiscoverable' /\ AtSnapshot(p)' /\ IntentIsOpen(p)' /\ OlderLeak(p)'
    <2>1. /\ knob' = knob /\ planes[p].pc = "preview"
          /\ planes'[p].pc \in {"intent", "outcome"}
          /\ planes'[p].snap = planes[p].snap /\ planes'[p].exp = planes[p].exp
      BY <1>0, <1>3, SnapshotKept DEF Preview, Record, RecordError
    <2>2. ~Ends(p)
      BY <2>1 DEF Ends
    <2>3. LeakIsDiscoverable'
      BY <1>0, <1>d, <2>1, <2>2 DEF LeakIsDiscoverable
    <2> QED BY <1>0, <1>d, <2>1, <2>2, <2>3 DEF AtSnapshot, IntentIsOpen, OlderLeak
  <1>6. ASSUME RecordApply(p)
        PROVE  LeakIsDiscoverable' /\ AtSnapshot(p)' /\ IntentIsOpen(p)' /\ OlderLeak(p)'
    <2>1. /\ knob' = knob /\ planes[p].pc = "applied"
          /\ planes'[p].pc \in {"verify", "rollback"}
          /\ planes'[p].snap = planes[p].snap /\ planes'[p].exp = planes[p].exp
      BY <1>0, <1>6, SnapshotKept DEF RecordApply, Record, RecordError
    <2>2. ~Ends(p)
      BY <2>1 DEF Ends
    <2>3. LeakIsDiscoverable'
      BY <1>0, <1>d, <2>1, <2>2 DEF LeakIsDiscoverable
    <2> QED BY <1>0, <1>d, <2>1, <2>2, <2>3 DEF AtSnapshot, IntentIsOpen, OlderLeak
  <1>7. ASSUME Verify(p)
        PROVE  LeakIsDiscoverable' /\ AtSnapshot(p)' /\ IntentIsOpen(p)' /\ OlderLeak(p)'
    <2>1. /\ knob' = knob /\ planes[p].pc = "verify"
          /\ planes'[p].pc \in {"rollback"}
          /\ planes'[p].snap = planes[p].snap /\ planes'[p].exp = planes[p].exp
      BY <1>0, <1>7, SnapshotKept DEF Verify, Record, RecordError
    <2>2. ~Ends(p)
      BY <2>1 DEF Ends
    <2>3. LeakIsDiscoverable'
      BY <1>0, <1>d, <2>1, <2>2 DEF LeakIsDiscoverable
    <2> QED BY <1>0, <1>d, <2>1, <2>2, <2>3 DEF AtSnapshot, IntentIsOpen, OlderLeak
  <1>9. ASSUME RecordRollback(p)
        PROVE  LeakIsDiscoverable' /\ AtSnapshot(p)' /\ IntentIsOpen(p)' /\ OlderLeak(p)'
    <2>1. /\ knob' = knob /\ planes[p].pc = "rolled"
          /\ planes'[p].pc \in {"check", "outcome"}
          /\ planes'[p].snap = planes[p].snap /\ planes'[p].exp = planes[p].exp
      BY <1>0, <1>9, SnapshotKept DEF RecordRollback, Record, RecordError
    <2>2. ~Ends(p)
      BY <2>1 DEF Ends
    <2>3. LeakIsDiscoverable'
      BY <1>0, <1>d, <2>1, <2>2 DEF LeakIsDiscoverable
    <2> QED BY <1>0, <1>d, <2>1, <2>2, <2>3 DEF AtSnapshot, IntentIsOpen, OlderLeak
  <1>10. ASSUME RollbackVerify(p)
        PROVE  LeakIsDiscoverable' /\ AtSnapshot(p)' /\ IntentIsOpen(p)' /\ OlderLeak(p)'
    <2>1. /\ knob' = knob /\ planes[p].pc = "check"
          /\ planes'[p].pc \in {"outcome"}
          /\ planes'[p].snap = planes[p].snap /\ planes'[p].exp = planes[p].exp
      BY <1>0, <1>10, SnapshotKept DEF RollbackVerify, Record, RecordError
    <2>2. ~Ends(p)
      BY <2>1 DEF Ends
    <2>3. LeakIsDiscoverable'
      BY <1>0, <1>d, <2>1, <2>2 DEF LeakIsDiscoverable
    <2> QED BY <1>0, <1>d, <2>1, <2>2, <2>3 DEF AtSnapshot, IntentIsOpen, OlderLeak
  <1>4. ASSUME RecordIntent(p)
        PROVE  LeakIsDiscoverable' /\ AtSnapshot(p)' /\ IntentIsOpen(p)' /\ OlderLeak(p)'
    <2>1. /\ knob' = knob /\ planes[p].pc = "intent"
          /\ planes'[p].pc \in {"apply", "outcome"}
          /\ planes'[p].snap = planes[p].snap /\ planes'[p].exp = planes[p].exp
      BY <1>0, <1>4, SnapshotKept DEF RecordIntent, Record, RecordError
    <2>2. ~Ends(p)
      BY <2>1 DEF Ends
    <2>3. LeakIsDiscoverable'
      BY <1>0, <1>d, <2>1, <2>2 DEF LeakIsDiscoverable
    <2>4. planes'[p].pc = "apply" => planes'[p].exp \in Dangling(journal')
      <3> DEFINE r == IntentRow(planes[p].exp, planes[p].req, now)
      <3>1. planes[p].exp # 0 /\ planes[p].exp \in Nat \ {0} /\ now \in Nat
            /\ planes[p].req \in [val : Settings, lease : Nat]
        BY <1>0, <2>1 DEF HoldsId, PlaneStates, PlaneTypeOK
      <3>2. r \in Rows
        BY <3>1, RowTypes
      <3>3. r.exp = planes[p].exp /\ r.stage = "apply-intent"
        BY DEF IntentRow, Row
      <3>4. ~Closed(journal, planes[p].exp)
        BY <1>0, <3>1 DEF WorksOnOpen
      <3> HIDE DEF r
      <3>5. planes'[p].pc = "apply" => journal' = journal \o <<r>>
        BY <1>0, <1>4, SnapshotKept DEF RecordIntent, Record, RecordError, Insert, r
      <3> QED BY <1>0, <2>1, <3>2, <3>3, <3>4, <3>5, DanglingAfter
    <2> QED BY <1>0, <1>d, <2>1, <2>2, <2>3, <2>4 DEF AtSnapshot, IntentIsOpen, OlderLeak
  <1>5. ASSUME Apply(p)
        PROVE  LeakIsDiscoverable' /\ AtSnapshot(p)' /\ IntentIsOpen(p)' /\ OlderLeak(p)'
    <2>1. /\ journal' = journal /\ planes[p].pc = "apply"
          /\ planes'[p].pc \in {"applied", "rollback"}
          /\ planes'[p].snap = planes[p].snap /\ planes'[p].exp = planes[p].exp
      BY <1>0, <1>5, SnapshotKept DEF Apply
    <2>2. planes[p].exp \in Dangling(journal)
      BY <1>0, <2>1 DEF IntentIsOpen
    <2> QED BY <1>0, <2>1, <2>2 DEF AtSnapshot, IntentIsOpen, OlderLeak, LeakIsDiscoverable
  <1>8. ASSUME Rollback(p)
        PROVE  LeakIsDiscoverable' /\ AtSnapshot(p)' /\ IntentIsOpen(p)' /\ OlderLeak(p)'
    <2>1. /\ journal' = journal /\ knob' = planes[p].snap /\ planes[p].pc = "rollback"
          /\ planes'[p].pc = "rolled"
          /\ planes'[p].snap = planes[p].snap /\ planes'[p].exp = planes[p].exp
      BY <1>0, <1>8, SnapshotKept DEF Rollback, Fault, ProviderRollback
    <2>2. planes[p].exp \in Dangling(journal)
      BY <1>0, <2>1 DEF IntentIsOpen
    <2> QED BY <1>0, <2>1, <2>2 DEF AtSnapshot, IntentIsOpen, OlderLeak, LeakIsDiscoverable
  <1>11. ASSUME RecordOutcome(p)
        PROVE  LeakIsDiscoverable' /\ AtSnapshot(p)' /\ IntentIsOpen(p)' /\ OlderLeak(p)'
    <2>1. knob' = knob /\ planes[p].pc = "outcome" /\ planes'[p].pc = "idle"
      BY <1>0, <1>11, SnapshotKept DEF RecordOutcome
    <2>2. knob' # Baseline => \E e \in Dangling(journal) : e # planes[p].exp
      BY <1>0, <2>1 DEF AtSnapshot, OlderLeak
    <2> QED BY <1>d, <2>1, <2>2 DEF AtSnapshot, IntentIsOpen, OlderLeak, LeakIsDiscoverable
  <1>12. ASSUME Crash(p)
        PROVE  LeakIsDiscoverable' /\ AtSnapshot(p)' /\ IntentIsOpen(p)' /\ OlderLeak(p)'
    <2>1. journal' = journal /\ knob' = knob /\ planes'[p].pc = "idle"
      BY <1>0, <1>12, SnapshotKept DEF Crash
    <2> QED BY <1>0, <2>1 DEF AtSnapshot, IntentIsOpen, OlderLeak, LeakIsDiscoverable
  <1> QED
    BY <1>1, <1>2, <1>3, <1>4, <1>5, <1>6, <1>7, <1>8, <1>9, <1>10, <1>11, <1>12 DEF Continue

\* With one plane whose provider can roll back, the leak invariant always holds.
LEMMA LeakInvariance ==
    ASSUME NEW CONSTANT p, Planes = {p}, "rollback" \notin Faults
    PROVE  PlaneSpec => []LeakInv
  <1>1. HostInit /\ PlaneInit => LeakInv
    BY DEF HostInit, PlaneInit, Idle, LeakInv, LeakIsDiscoverable, AtSnapshot, IntentIsOpen,
           OlderLeak
  <1>2. TypeInv /\ HistoryInv /\ LeakInv /\ [PlaneNext]_planeVars => LeakInv'
    <2>1. ASSUME TypeInv, HistoryInv, LeakInv, PlaneNext PROVE LeakInv'
      BY <2>1, LeakStep DEF PlaneNext, HistoryInv
    <2>2. ASSUME LeakInv, UNCHANGED planeVars PROVE LeakInv'
      BY <2>2 DEF LeakInv, LeakIsDiscoverable, AtSnapshot, IntentIsOpen, OlderLeak,
                  planeVars, hostVars
    <2> QED BY <2>1, <2>2
  <1> QED BY <1>1, <1>2, TypeInvariance, HistoryInvariance, PTL DEF PlaneSpec, PlanesInit

\* With one control plane whose provider can roll back, a host that is off its
\* baseline always has a dangling experiment for a recovery pass to find, after
\* any number of crashes, journal errors and failed changes (run_stages: the
\* intent is committed first, the terminal record only after the restore).
THEOREM LeakDiscoverable ==
    ASSUME NEW CONSTANT p, Planes = {p}, "rollback" \notin Faults
    PROVE  PlaneSpec => []LeakIsDiscoverable
  <1>1. PlaneSpec => []LeakInv
    BY LeakInvariance
  <1>2. LeakInv => LeakIsDiscoverable
    BY DEF LeakInv
  <1> QED BY <1>1, <1>2, PTL
-----------------------------------------------------------------------------
\* What the rows of an experiment show

\* The experiment has a record of this stage with this outcome.
Noted(rows, e, stage, note) ==
    \E i \in DOMAIN rows :
        rows[i].exp = e /\ rows[i].stage = stage /\ rows[i].note = note

\* Its change was observed after its intent, ...
Observed(rows, e) ==
    \E a, v \in DOMAIN rows :
        /\ a < v
        /\ rows[a].exp = e /\ rows[a].stage = "apply-intent"
        /\ rows[v].exp = e /\ rows[v].stage = "verify" /\ rows[v].note = "true"

\* ... and its snapshot was read back after that.
ReadBack(rows, e) ==
    \E a, v, r \in DOMAIN rows :
        /\ a < v /\ v < r
        /\ rows[a].exp = e /\ rows[a].stage = "apply-intent"
        /\ rows[v].exp = e /\ rows[v].stage = "verify" /\ rows[v].note = "true"
        /\ rows[r].exp = e /\ rows[r].stage = "rollback-verify" /\ rows[r].note = "true"

\* The snapshot the experiment journaled is this one.
Snapshotted(rows, e, setting) ==
    \A i \in DOMAIN rows :
        rows[i].exp = e /\ rows[i].stage = "snapshot" => rows[i].val = setting

\* What an INSERT of one row adds to that (record).
LEMMA NotedAppend ==
    ASSUME NEW s \in Seq(Rows), NEW r \in Rows, NEW e, NEW stage, NEW note
    PROVE  Noted(s \o <<r>>, e, stage, note) <=>
              Noted(s, e, stage, note) \/ (r.exp = e /\ r.stage = stage /\ r.note = note)
  <1> DEFINE t == s \o <<r>>
  <1>1. /\ DOMAIN t = 1..(Len(s) + 1) /\ DOMAIN s = 1..Len(s) /\ Len(s) \in Nat
        /\ \A i \in DOMAIN s : t[i] = s[i]
        /\ t[Len(s) + 1] = r
    BY AppendRow
  <1> HIDE DEF t
  <1>2. Noted(t, e, stage, note) <=>
           Noted(s, e, stage, note) \/ (r.exp = e /\ r.stage = stage /\ r.note = note)
    BY <1>1 DEF Noted
  <1> QED BY <1>2 DEF t

\* What one row more lets the journal show of an experiment (record).
LEMMA Shown ==
    ASSUME NEW s \in Seq(Rows), NEW r \in Rows, NEW t, t = s \o <<r>>, NEW e
    PROVE  /\ Observed(s, e) => Observed(t, e)
           /\ ReadBack(s, e) => ReadBack(t, e)
           /\ /\ HasStage(s, e, {"apply-intent"})
              /\ r.exp = e /\ r.stage = "verify" /\ r.note = "true"
              => Observed(t, e)
           /\ /\ Observed(s, e)
              /\ r.exp = e /\ r.stage = "rollback-verify" /\ r.note = "true"
              => ReadBack(t, e)
           /\ \A setting : Snapshotted(s, e, setting) /\
                           (r.exp = e /\ r.stage = "snapshot" => r.val = setting)
                           => Snapshotted(t, e, setting)
  <1>1. /\ DOMAIN t = 1..(Len(s) + 1) /\ DOMAIN s = 1..Len(s) /\ Len(s) \in Nat
        /\ \A i \in DOMAIN s : t[i] = s[i] /\ i \in DOMAIN t /\ i < Len(s) + 1
        /\ t[Len(s) + 1] = r /\ Len(s) + 1 \in DOMAIN t
        /\ \A i \in DOMAIN t : i \in DOMAIN s \/ i = Len(s) + 1
    BY AppendRow
  <1>3. Observed(s, e) => Observed(t, e)
    BY <1>1 DEF Observed
  <1>4. ReadBack(s, e) => ReadBack(t, e)
    BY <1>1 DEF ReadBack
  <1>5. /\ HasStage(s, e, {"apply-intent"})
        /\ r.exp = e /\ r.stage = "verify" /\ r.note = "true"
        => Observed(t, e)
    BY <1>1 DEF Observed, HasStage
  <1>6. /\ Observed(s, e)
        /\ r.exp = e /\ r.stage = "rollback-verify" /\ r.note = "true"
        => ReadBack(t, e)
    BY <1>1 DEF Observed, ReadBack
  <1>7. \A setting : Snapshotted(s, e, setting) /\
                     (r.exp = e /\ r.stage = "snapshot" => r.val = setting)
                     => Snapshotted(t, e, setting)
    BY <1>1 DEF Snapshotted
  <1> QED BY <1>3, <1>4, <1>5, <1>6, <1>7

-----------------------------------------------------------------------------
\* What a step does to the plane that takes it

\* The parts of the local state that last as long as the experiment.
Keeps(p) ==
    /\ planes'[p].exp = planes[p].exp /\ planes'[p].snap = planes[p].snap
    /\ planes'[p].reply = planes[p].reply

\* The helpers that move a plane, field by field (run_stages, record_outcome).
LEMMA LocalFields ==
    ASSUME PlaneTypeOK, NEW p \in Planes
    PROVE  /\ \A pc : Goto(p, pc) =>
                 /\ planes'[p].pc = pc /\ Keeps(p)
                 /\ planes'[p].failure = planes[p].failure
                 /\ planes'[p].suppressed = planes[p].suppressed
           /\ \A stage, kind, pc : Fail(p, stage, kind, pc) =>
                 /\ planes'[p].pc = pc /\ Keeps(p)
                 /\ planes'[p].failure.stage = stage
                 /\ planes'[p].suppressed = planes[p].suppressed
           /\ \A stage, kind : FailRestore(p, stage, kind) =>
                 /\ planes'[p].pc = "outcome" /\ Keeps(p)
                 /\ planes'[p].failure.stage = stage
                 /\ planes'[p].suppressed = planes[p].failure.stage
           /\ \A reply : Return(p, reply) =>
                 /\ planes'[p].pc = "idle" /\ planes'[p].exp = 0
                 /\ planes'[p].failure = NoFailure /\ planes'[p].suppressed = "none"
                 /\ planes'[p].reply = reply
  <1>0. planes \in [Planes -> PlaneStates] /\ planes[p] \in PlaneStates
    BY DEF PlaneTypeOK
  <1>1. \A pc : Goto(p, pc) =>
           /\ planes'[p].pc = pc /\ Keeps(p)
           /\ planes'[p].failure = planes[p].failure
           /\ planes'[p].suppressed = planes[p].suppressed
    BY <1>0 DEF Goto, PlaneStates, Keeps
  <1>2. \A stage, kind, pc : Fail(p, stage, kind, pc) =>
           /\ planes'[p].pc = pc /\ Keeps(p)
           /\ planes'[p].failure.stage = stage
           /\ planes'[p].suppressed = planes[p].suppressed
    BY <1>0 DEF Fail, PlaneStates, Keeps
  <1>3. \A stage, kind : FailRestore(p, stage, kind) =>
           /\ planes'[p].pc = "outcome" /\ Keeps(p)
           /\ planes'[p].failure.stage = stage
           /\ planes'[p].suppressed = planes[p].failure.stage
    BY <1>0 DEF FailRestore, PlaneStates, Keeps
  <1>4. \A reply : Return(p, reply) =>
           /\ planes'[p].pc = "idle" /\ planes'[p].exp = 0
           /\ planes'[p].failure = NoFailure /\ planes'[p].suppressed = "none"
           /\ planes'[p].reply = reply
    BY <1>0 DEF Return, Idle
  <1> QED BY <1>1, <1>2, <1>3, <1>4

\* A row is written under an ID that no other plane is working under.
RowOf(p, r) ==
    /\ r \in Rows /\ journal' = journal \o <<r>>
    /\ \A q \in Planes : q # p => planes[q].exp # r.exp

\* A step writes at most one row, and the other planes do not see it as theirs.
LEMMA OneRow ==
    ASSUME TypeInv, UniqueCorrelation, NEW p \in Planes, Kind(p)
    PROVE  /\ \A q \in Planes : q # p => planes'[q] = planes[q]
           /\ journal' = journal \/ \E r : RowOf(p, r)
  <1>0. /\ journal \in Seq(Rows) /\ planes \in [Planes -> PlaneStates]
        /\ \A q \in Planes : HoldsId(q)
    BY DEF TypeInv, PlaneTypeOK
  <1>1. \A q \in Planes : q # p => planes'[q] = planes[q]
    BY DEF Kind, Moves
  <1>2. ASSUME NEW r \in Rows, journal' = journal \o <<r>>, r.exp = planes[p].exp, planes[p].exp # 0
        PROVE  RowOf(p, r)
    BY <1>2 DEF UniqueCorrelation, RowOf
  <1>3. CASE Begins(p)
    <2> DEFINE r == SnapshotRow(NextId(journal), planes[p].snap)
    <2>1. PICK n \in Nat : Ids(journal) = 1..n
      BY DEF TypeInv, GapFree
    <2>2. NextId(journal) = n + 1 /\ NextId(journal) \in Nat \ {0}
      BY <2>1, NextIdValue
    <2>3. planes[p].snap \in Settings
      BY <1>0 DEF PlaneStates
    <2>4. r \in Rows
      BY <2>2, <2>3, RowTypes
    <2>5. r.exp = n + 1
      BY <2>2 DEF SnapshotRow, Row
    <2>6. \A q \in Planes : planes[q].exp # n + 1
      BY <1>0, <2>1 DEF HoldsId
    <2> HIDE DEF r
    <2>7. journal' = journal \o <<r>>
      BY <1>3 DEF Begins, r
    <2> QED BY <1>1, <2>4, <2>5, <2>6, <2>7 DEF RowOf
  <1> QED BY <1>1, <1>2, <1>3 DEF Kind, Outside, Works, Ends

-----------------------------------------------------------------------------
\* The records of an experiment keep up with its lifecycle

RestoreStages == {"rollback", "rollback-verify"}

\* What the journal shows of the experiment of a plane at each of its steps.
Progress(p) ==
    LET s == planes[p]
    IN  /\ s.pc \in {"begin", "preview", "intent", "apply", "applied", "verify"}
              => s.failure = NoFailure
        /\ s.pc # "outcome" => s.suppressed = "none"
        /\ s.pc # "idle" => s.reply = "none"
        /\ s.pc \in {"preview", "intent"} => ~HasStage(journal, s.exp, {"apply-intent"})
        /\ s.pc \in {"preview", "intent", "apply", "applied", "verify"}
              => ~Noted(journal, s.exp, "verify", "true")
        /\ s.pc \in {"apply", "applied", "verify", "rollback", "rolled", "check"}
              => HasStage(journal, s.exp, {"apply-intent"})
        /\ s.pc \in {"rollback", "rolled", "check"} =>
              /\ s.failure.stage = "none" <=> Noted(journal, s.exp, "verify", "true")
              /\ s.failure.stage = "none" => Observed(journal, s.exp)
              /\ s.failure.stage \notin RestoreStages
        /\ s.pc = "outcome" =>
              /\ s.failure.stage = "none" => ReadBack(journal, s.exp)
              /\ s.failure.stage \in RestoreStages =>
                    (s.suppressed = "none" <=> Noted(journal, s.exp, "verify", "true"))
        /\ s.exp # 0 => Snapshotted(journal, s.exp, s.snap)

\* The closed experiments of the journal are told of truthfully.
RecordsInv ==
    /\ CompletedMeansRestored
    /\ SupersededFailureKept
    /\ \A p \in Planes : Progress(p)

\* A step of another plane leaves what the journal shows of q's experiment alone.
LEMMA ProgressOfOthers ==
    ASSUME TypeInv, UniqueCorrelation, NEW p \in Planes, Kind(p), NEW q \in Planes, q # p, Progress(q)
    PROVE  Progress(q)'
  <1>0. journal \in Seq(Rows) /\ planes'[q] = planes[q]
    BY OneRow DEF TypeInv, PlaneTypeOK
  <1>1. CASE journal' = journal
    BY <1>0, <1>1 DEF Progress
  <1>2. ASSUME NEW r, RowOf(p, r) PROVE Progress(q)'
    <2> DEFINE e == planes[q].exp
    <2>0. r \in Rows /\ journal' = journal \o <<r>> /\ r.exp # e
      BY <1>2 DEF RowOf
    <2> HIDE DEF e
    <2>3. \A stage, note : Noted(journal', e, stage, note) <=> Noted(journal, e, stage, note)
      BY <1>0, <2>0, NotedAppend
    <2>1. /\ Observed(journal, e) => Observed(journal', e)
          /\ ReadBack(journal, e) => ReadBack(journal', e)
          /\ \A setting : Snapshotted(journal, e, setting) => Snapshotted(journal', e, setting)
      BY <1>0, <2>0, Shown
    <2>2. HasStage(journal', e, {"apply-intent"}) <=> HasStage(journal, e, {"apply-intent"})
      BY <1>0, <2>0, HasStageAppend
    <2> QED BY <1>0, <2>1, <2>2, <2>3 DEF Progress, e
  <1> QED BY <1>1, <1>2, OneRow

\* What one row under its own ID adds to the experiment of p.
RowShows(p, r) ==
    LET e == planes[p].exp
    IN  /\ \A stage, note : Noted(journal', e, stage, note) <=>
              Noted(journal, e, stage, note) \/ (r.stage = stage /\ r.note = note)
        /\ Observed(journal, e) => Observed(journal', e)
        /\ ReadBack(journal, e) => ReadBack(journal', e)
        /\ HasStage(journal, e, {"apply-intent"}) /\ r.stage = "verify" /\ r.note = "true"
              => Observed(journal', e)
        /\ Observed(journal, e) /\ r.stage = "rollback-verify" /\ r.note = "true"
              => ReadBack(journal', e)
        /\ \A T : HasStage(journal', e, T) <=> HasStage(journal, e, T) \/ r.stage \in T
        /\ r.stage # "snapshot" => \A setting : Snapshotted(journal, e, setting)
                                                 => Snapshotted(journal', e, setting)

\* A row a plane writes adds that to what the journal shows of its experiment.
LEMMA OwnRow ==
    ASSUME journal \in Seq(Rows), NEW p \in Planes, NEW r \in Rows,
           r.exp = planes[p].exp, journal' = journal \o <<r>>
    PROVE  RowShows(p, r)
  <1>1. ASSUME NEW e, r.exp = e
        PROVE  /\ \A stage, note : Noted(journal', e, stage, note) <=>
                     Noted(journal, e, stage, note) \/ (r.stage = stage /\ r.note = note)
               /\ Observed(journal, e) => Observed(journal', e)
               /\ ReadBack(journal, e) => ReadBack(journal', e)
               /\ HasStage(journal, e, {"apply-intent"}) /\ r.stage = "verify" /\ r.note = "true"
                     => Observed(journal', e)
               /\ Observed(journal, e) /\ r.stage = "rollback-verify" /\ r.note = "true"
                     => ReadBack(journal', e)
               /\ r.stage # "snapshot" => \A setting : Snapshotted(journal, e, setting)
                                                        => Snapshotted(journal', e, setting)
    <2>1. \A stage, note : Noted(journal', e, stage, note) <=>
                     Noted(journal, e, stage, note) \/ (r.stage = stage /\ r.note = note)
      BY <1>1, NotedAppend
    <2>2. /\ Observed(journal, e) => Observed(journal', e)
          /\ ReadBack(journal, e) => ReadBack(journal', e)
      BY <1>1, Shown
    <2>3. HasStage(journal, e, {"apply-intent"}) /\ r.stage = "verify" /\ r.note = "true"
             => Observed(journal', e)
      BY <1>1, Shown
    <2>4. Observed(journal, e) /\ r.stage = "rollback-verify" /\ r.note = "true"
             => ReadBack(journal', e)
      BY <1>1, Shown
    <2>5. r.stage # "snapshot" => \A setting : Snapshotted(journal, e, setting)
                                                => Snapshotted(journal', e, setting)
      BY <1>1, Shown
    <2> QED BY <2>1, <2>2, <2>3, <2>4, <2>5
  <1>2. ASSUME NEW e, r.exp = e
        PROVE  \A T : HasStage(journal', e, T) <=> HasStage(journal, e, T) \/ r.stage \in T
    BY <1>2, HasStageAppend
  <1> QED BY <1>1, <1>2 DEF RowShows

\* Every row a plane writes after its first, with its ID, its stage and its note.
LEMMA PlaneRows ==
    ASSUME PlaneTypeOK, NEW p \in Planes, planes[p].exp # 0
    PROVE  LET e == planes[p].exp
           IN  /\ \A stage \in {"preview", "apply", "completed"} :
                     LET r == Row(e, stage)
                     IN  r \in Rows /\ r.exp = e /\ r.stage = stage /\ r.note = "none"
               /\ LET r == IntentRow(e, planes[p].req, now)
                  IN  r \in Rows /\ r.exp = e /\ r.stage = "apply-intent" /\ r.note = "none"
               /\ LET r == [Row(e, "rollback") EXCEPT !.val = planes[p].snap]
                  IN  r \in Rows /\ r.exp = e /\ r.stage = "rollback" /\ r.note = "none"
               /\ \A stage \in {"verify", "rollback-verify"}, note \in {"true", "false"} :
                     LET r == NoteRow(e, stage, note)
                     IN  r \in Rows /\ r.exp = e /\ r.stage = stage /\ r.note = note
               /\ LET r == FailedRow(e, planes[p].failure.stage, planes[p].suppressed)
                  IN  /\ r \in Rows /\ r.exp = e /\ r.stage = "failed"
                      /\ r.note = planes[p].failure.stage /\ r.why = planes[p].suppressed
  <1> DEFINE e == planes[p].exp
  <1>0. planes[p] \in PlaneStates /\ now \in Nat
    BY DEF PlaneTypeOK
  <1>1. /\ e \in Nat \ {0} /\ planes[p].req \in [val : Settings, lease : Nat]
        /\ planes[p].snap \in Settings
        /\ planes[p].failure.stage \in Notes /\ planes[p].suppressed \in Whys
    BY <1>0 DEF PlaneStates, Failures, NoFailure, Notes, Whys
  <1>2. /\ {"preview", "apply", "completed", "verify", "rollback-verify"} \subseteq Stages
        /\ {"true", "false"} \subseteq Notes
    BY DEF Stages, Terminal, Notes
  <1> HIDE DEF e
  <1>3. \A stage \in {"preview", "apply", "completed"} :
           LET r == Row(e, stage)
           IN  r \in Rows /\ r.exp = e /\ r.stage = stage /\ r.note = "none"
    <2>1. \A stage \in {"preview", "apply", "completed"} : Row(e, stage) \in Rows
      BY <1>1, <1>2, RowTypes
    <2> QED BY <2>1 DEF Row
  <1>4. LET r == IntentRow(e, planes[p].req, now)
        IN  r \in Rows /\ r.exp = e /\ r.stage = "apply-intent" /\ r.note = "none"
    <2>1. IntentRow(e, planes[p].req, now) \in Rows
      BY <1>0, <1>1, RowTypes
    <2> QED BY <2>1 DEF IntentRow, Row
  <1>5. LET r == [Row(e, "rollback") EXCEPT !.val = planes[p].snap]
        IN  r \in Rows /\ r.exp = e /\ r.stage = "rollback" /\ r.note = "none"
    <2>1. [Row(e, "rollback") EXCEPT !.val = planes[p].snap] \in Rows
      BY <1>1, RowTypes
    <2> QED BY <2>1 DEF Row
  <1>6. \A stage \in {"verify", "rollback-verify"}, note \in {"true", "false"} :
           LET r == NoteRow(e, stage, note)
           IN  r \in Rows /\ r.exp = e /\ r.stage = stage /\ r.note = note
    <2>1. \A stage \in {"verify", "rollback-verify"}, note \in {"true", "false"} :
             NoteRow(e, stage, note) \in Rows
      BY <1>1, <1>2, RowTypes
    <2> QED BY <2>1 DEF NoteRow, Row
  <1>7. LET r == FailedRow(e, planes[p].failure.stage, planes[p].suppressed)
        IN  /\ r \in Rows /\ r.exp = e /\ r.stage = "failed"
            /\ r.note = planes[p].failure.stage /\ r.why = planes[p].suppressed
    <2>1. FailedRow(e, planes[p].failure.stage, planes[p].suppressed) \in Rows
      BY <1>1, RowTypes
    <2> QED BY <2>1 DEF FailedRow, Row
  <1> QED BY <1>3, <1>4, <1>5, <1>6, <1>7 DEF e

\* A step of run_lifecycle keeps the journal in line with the plane that takes it.
LEMMA ProgressStep ==
    ASSUME TypeInv, NEW p \in Planes, Progress(p), Kind(p),
           (\E request \in Requests : Submit(p, request)) \/ Continue(p) \/ Crash(p)
    PROVE  Progress(p)'
  <1>0. /\ PlaneTypeOK /\ HoldsId(p) /\ journal \in Seq(Rows)
        /\ planes[p] \in PlaneStates /\ planes \in [Planes -> PlaneStates]
    BY DEF TypeInv, PlaneTypeOK
  <1>x. planes[p].pc \notin {"idle", "begin"} => planes[p].exp # 0
    BY <1>0 DEF HoldsId
  <1>f. \A failure \in Failures \cup {NoFailure} : failure.stage = "none" <=> failure = NoFailure
    BY DEF Failures, NoFailure, FailureStages
  <1>g. planes[p].failure \in Failures \cup {NoFailure}
    BY <1>0 DEF PlaneStates
  <1>r. ASSUME NEW reply, Return(p, reply) PROVE Progress(p)'
    BY <1>0, <1>r, LocalFields DEF Progress
  <1>1. ASSUME NEW request \in Requests, Submit(p, request)
        PROVE  Progress(p)'
    <2>1. CASE planes' = [planes EXCEPT ![p] =
                    [Idle("none") EXCEPT
                       !.pc = "begin",
                       !.req = [val |-> request.val, lease |-> request.lease],
                       !.snap = ProviderSnapshot]]
      <3>1. planes'[p] = [Idle("none") EXCEPT
                            !.pc = "begin",
                            !.req = [val |-> request.val, lease |-> request.lease],
                            !.snap = ProviderSnapshot]
        BY <1>0, <2>1
      <3>2. /\ planes'[p].pc = "begin" /\ planes'[p].exp = 0 /\ planes'[p].failure = NoFailure
            /\ planes'[p].suppressed = "none" /\ planes'[p].reply = "none"
        BY <3>1 DEF Idle
      <3> QED BY <3>2 DEF Progress
    <2> QED BY <1>1, <1>r, <2>1 DEF Submit
  <1>2. ASSUME BeginExperiment(p)
        PROVE  Progress(p)'
    <2>1. CASE Insert(<<SnapshotRow(NextId(journal), planes[p].snap)>>) /\
               planes' = [planes EXCEPT ![p].pc = "preview", ![p].exp = NextId(journal)]
      <3> DEFINE e == NextId(journal)
                 r == SnapshotRow(e, planes[p].snap)
      <3>1. PICK n \in Nat : Ids(journal) = 1..n
        BY DEF TypeInv, GapFree
      <3>2. e \in Nat \ {0} /\ e \notin Ids(journal)
        BY <3>1, NextIdValue
      <3>3. planes[p].snap \in Settings
        BY <1>0 DEF PlaneStates
      <3>4. r \in Rows
        BY <3>2, <3>3, RowTypes
      <3>5. r.exp = e /\ r.stage = "snapshot" /\ r.note = "none" /\ r.val = planes[p].snap
        BY DEF SnapshotRow, Row
      <3>6. /\ planes'[p].pc = "preview" /\ planes'[p].exp = e
            /\ planes'[p].snap = planes[p].snap /\ planes'[p].failure = planes[p].failure
            /\ planes'[p].suppressed = planes[p].suppressed
            /\ planes'[p].reply = planes[p].reply
        BY <1>0, <2>1 DEF PlaneStates
      <3>7. journal' = journal \o <<r>>
        BY <2>1 DEF Insert
      <3> HIDE DEF e, r
      <3>8. /\ \A i \in DOMAIN journal : journal[i].exp # e
            /\ \A T : ~HasStage(journal, e, T)
        BY <3>2, UnknownId
      <3>9. /\ ~Noted(journal, e, "verify", "true")
            /\ Snapshotted(journal, e, planes[p].snap)
        BY <3>8 DEF Noted, Snapshotted
      <3>10. ~HasStage(journal', e, {"apply-intent"})
        BY <1>0, <3>4, <3>5, <3>7, <3>8, HasStageAppend
      <3>11. ~Noted(journal', e, "verify", "true")
        BY <1>0, <3>4, <3>5, <3>7, <3>9, NotedAppend
      <3>12. Snapshotted(journal', e, planes[p].snap)
        BY <1>0, <3>4, <3>5, <3>7, <3>9, Shown
      <3>13. planes[p].pc = "begin"
        BY <1>2 DEF BeginExperiment
      <3> QED BY <3>6, <3>10, <3>11, <3>12, <3>13 DEF Progress
    <2> QED BY <1>2, <1>r, <2>1 DEF BeginExperiment
  <1>3. ASSUME Preview(p)
        PROVE  Progress(p)'
    <2> DEFINE r == Row(planes[p].exp, "preview")
    <2>0. planes[p].exp # 0
      BY <1>3, <1>x DEF Preview
    <2>1. r \in Rows /\ r.exp = planes[p].exp /\ r.stage = "preview" /\ r.note = "none"
      BY <1>0, <2>0, PlaneRows
    <2> HIDE DEF r
    <2>2. journal' = journal \o <<r>> => RowShows(p, r)
      BY <1>0, <2>1, OwnRow
    <2>3. \/ /\ journal' = journal \o <<r>>
             /\ planes'[p].pc = "intent" /\ Keeps(p) /\ planes'[p].failure = planes[p].failure
             /\ planes'[p].suppressed = planes[p].suppressed
          \/ /\ journal' = journal
             /\ planes'[p].pc = "outcome" /\ Keeps(p) /\ planes'[p].failure.stage = "preview"
      BY <1>0, <1>3, LocalFields DEF Preview, Record, RecordError, Insert, r
    <2> QED BY <1>0, <1>3, <2>1, <2>2, <2>3 DEF Preview, Progress, RowShows, Keeps, RestoreStages
  <1>4. ASSUME RecordIntent(p)
        PROVE  Progress(p)'
    <2> DEFINE r == IntentRow(planes[p].exp, planes[p].req, now)
    <2>0. planes[p].exp # 0
      BY <1>4, <1>x DEF RecordIntent
    <2>1. r \in Rows /\ r.exp = planes[p].exp /\ r.stage = "apply-intent" /\ r.note = "none"
      BY <1>0, <2>0, PlaneRows
    <2> HIDE DEF r
    <2>2. journal' = journal \o <<r>> => RowShows(p, r)
      BY <1>0, <2>1, OwnRow
    <2>3. \/ /\ journal' = journal \o <<r>>
             /\ planes'[p].pc = "apply" /\ Keeps(p) /\ planes'[p].failure = planes[p].failure
             /\ planes'[p].suppressed = planes[p].suppressed
          \/ /\ journal' = journal
             /\ planes'[p].pc = "outcome" /\ Keeps(p) /\ planes'[p].failure.stage = "apply-intent"
      BY <1>0, <1>4, LocalFields DEF RecordIntent, Record, RecordError, Insert, r
    <2> QED BY <1>0, <1>4, <2>1, <2>2, <2>3 DEF RecordIntent, Progress, RowShows, Keeps, RestoreStages
  <1>5. ASSUME Apply(p)
        PROVE  Progress(p)'
    <2>1. /\ journal' = journal
          /\ \/ /\ planes'[p].pc = "applied" /\ Keeps(p)
                /\ planes'[p].failure = planes[p].failure
             \/ /\ planes'[p].pc = "rollback" /\ Keeps(p)
                /\ planes'[p].failure.stage = "apply"
          /\ planes'[p].suppressed = planes[p].suppressed
      BY <1>0, <1>5, LocalFields DEF Apply
    <2> QED BY <1>0, <1>5, <2>1 DEF Apply, Progress, Keeps, RestoreStages
  <1>6. ASSUME RecordApply(p)
        PROVE  Progress(p)'
    <2> DEFINE r == Row(planes[p].exp, "apply")
    <2>0. planes[p].exp # 0
      BY <1>6, <1>x DEF RecordApply
    <2>1. r \in Rows /\ r.exp = planes[p].exp /\ r.stage = "apply" /\ r.note = "none"
      BY <1>0, <2>0, PlaneRows
    <2> HIDE DEF r
    <2>2. journal' = journal \o <<r>> => RowShows(p, r)
      BY <1>0, <2>1, OwnRow
    <2>3. /\ planes'[p].suppressed = planes[p].suppressed
          /\ \/ /\ journal' = journal \o <<r>>
                /\ planes'[p].pc = "verify" /\ Keeps(p) /\ planes'[p].failure = planes[p].failure
             \/ /\ journal' = journal
                /\ planes'[p].pc = "rollback" /\ Keeps(p) /\ planes'[p].failure.stage = "apply"
      BY <1>0, <1>6, LocalFields DEF RecordApply, Record, RecordError, Insert, r
    <2> QED BY <1>0, <1>6, <2>1, <2>2, <2>3 DEF RecordApply, Progress, RowShows, Keeps, RestoreStages
  <1>7. ASSUME Verify(p)
        PROVE  Progress(p)'
    <2> DEFINE rt == NoteRow(planes[p].exp, "verify", "true")
               rf == NoteRow(planes[p].exp, "verify", "false")
    <2>0. planes[p].exp # 0
      BY <1>7, <1>x DEF Verify
    <2>1. /\ rt \in Rows /\ rt.exp = planes[p].exp /\ rt.stage = "verify" /\ rt.note = "true"
          /\ rf \in Rows /\ rf.exp = planes[p].exp /\ rf.stage = "verify" /\ rf.note = "false"
      BY <1>0, <2>0, PlaneRows, ZenonT(40)
    <2> HIDE DEF rt, rf
    <2>2. /\ journal' = journal \o <<rt>> => RowShows(p, rt)
          /\ journal' = journal \o <<rf>> => RowShows(p, rf)
      BY <1>0, <2>1, OwnRow
    <2>3. /\ planes'[p].suppressed = planes[p].suppressed
          /\ planes'[p].pc = "rollback" /\ Keeps(p)
          /\ \/ journal' = journal \o <<rt>> /\ planes'[p].failure = planes[p].failure
             \/ journal' \in {journal, journal \o <<rf>>} /\ planes'[p].failure.stage = "verify"
      BY <1>0, <1>7, LocalFields DEF Verify, Record, RecordError, Insert, rt, rf
    <2>4. planes[p].pc = "verify" /\ planes[p].failure.stage = "none"
      BY <1>7 DEF Verify, Progress, NoFailure
    <2>5. CASE journal' = journal \o <<rt>> /\ planes'[p].failure = planes[p].failure
      BY <2>1, <2>2, <2>3, <2>4, <2>5 DEF Progress, RowShows, Keeps, RestoreStages
    <2>6. CASE journal' = journal \o <<rf>> /\ planes'[p].failure.stage = "verify"
      BY <2>1, <2>2, <2>3, <2>4, <2>6 DEF Progress, RowShows, Keeps, RestoreStages
    <2>7. CASE journal' = journal /\ planes'[p].failure.stage = "verify"
      BY <2>3, <2>4, <2>7 DEF Progress, Keeps, RestoreStages
    <2> QED BY <2>3, <2>5, <2>6, <2>7
  <1>8. ASSUME Rollback(p)
        PROVE  Progress(p)'
    <2>1. /\ journal' = journal
          /\ \/ /\ planes'[p].pc = "rolled" /\ Keeps(p)
                /\ planes'[p].failure = planes[p].failure
                /\ planes'[p].suppressed = planes[p].suppressed
             \/ /\ planes'[p].pc = "outcome" /\ Keeps(p)
                /\ planes'[p].failure.stage = "rollback"
                /\ planes'[p].suppressed = planes[p].failure.stage
      BY <1>0, <1>8, LocalFields DEF Rollback
    <2> QED BY <1>0, <1>8, <2>1 DEF Rollback, Progress, Keeps, RestoreStages
  <1>9. ASSUME RecordRollback(p)
        PROVE  Progress(p)'
    <2> DEFINE r == [Row(planes[p].exp, "rollback") EXCEPT !.val = planes[p].snap]
    <2>0. planes[p].exp # 0
      BY <1>9, <1>x DEF RecordRollback
    <2>1. r \in Rows /\ r.exp = planes[p].exp /\ r.stage = "rollback" /\ r.note = "none"
      BY <1>0, <2>0, PlaneRows
    <2> HIDE DEF r
    <2>2. journal' = journal \o <<r>> => RowShows(p, r)
      BY <1>0, <2>1, OwnRow
    <2>3. \/ /\ journal' = journal \o <<r>>
             /\ planes'[p].pc = "check" /\ Keeps(p) /\ planes'[p].failure = planes[p].failure
             /\ planes'[p].suppressed = planes[p].suppressed
          \/ /\ journal' = journal
             /\ planes'[p].pc = "outcome" /\ Keeps(p) /\ planes'[p].failure.stage = "rollback"
             /\ planes'[p].suppressed = planes[p].failure.stage
      BY <1>0, <1>9, LocalFields DEF RecordRollback, Record, RecordError, Insert, r
    <2> QED BY <1>0, <1>9, <2>1, <2>2, <2>3 DEF RecordRollback, Progress, RowShows, Keeps, RestoreStages
  <1>10. ASSUME RollbackVerify(p)
        PROVE  Progress(p)'
    <2> DEFINE rt == NoteRow(planes[p].exp, "rollback-verify", "true")
               rf == NoteRow(planes[p].exp, "rollback-verify", "false")
    <2>0. planes[p].exp # 0
      BY <1>10, <1>x DEF RollbackVerify
    <2>1. /\ rt \in Rows /\ rt.exp = planes[p].exp
          /\ rt.stage = "rollback-verify" /\ rt.note = "true"
          /\ rf \in Rows /\ rf.exp = planes[p].exp
          /\ rf.stage = "rollback-verify" /\ rf.note = "false"
      BY <1>0, <2>0, PlaneRows
    <2> HIDE DEF rt, rf
    <2>2. /\ journal' = journal \o <<rt>> => RowShows(p, rt)
          /\ journal' = journal \o <<rf>> => RowShows(p, rf)
      BY <1>0, <2>1, OwnRow
    <2>3. /\ planes'[p].pc = "outcome" /\ Keeps(p)
          /\ \/ /\ journal' = journal \o <<rt>>
                /\ planes'[p].failure = planes[p].failure
                /\ planes'[p].suppressed = planes[p].suppressed
             \/ /\ journal' \in {journal, journal \o <<rf>>}
                /\ planes'[p].failure.stage = "rollback-verify"
                /\ planes'[p].suppressed = planes[p].failure.stage
      BY <1>0, <1>10, LocalFields DEF RollbackVerify, Record, RecordError, Insert, rt, rf
    <2>4. planes[p].pc = "check"
      BY <1>10 DEF RollbackVerify
    <2>5. CASE /\ journal' = journal \o <<rt>>
               /\ planes'[p].failure = planes[p].failure
               /\ planes'[p].suppressed = planes[p].suppressed
      BY <2>1, <2>2, <2>3, <2>4, <2>5 DEF Progress, RowShows, Keeps, RestoreStages
    <2>6. CASE /\ journal' = journal \o <<rf>>
               /\ planes'[p].failure.stage = "rollback-verify"
               /\ planes'[p].suppressed = planes[p].failure.stage
      BY <2>1, <2>2, <2>3, <2>4, <2>6 DEF Progress, RowShows, Keeps, RestoreStages
    <2>7. CASE /\ journal' = journal
               /\ planes'[p].failure.stage = "rollback-verify"
               /\ planes'[p].suppressed = planes[p].failure.stage
      BY <2>3, <2>4, <2>7 DEF Progress, Keeps, RestoreStages
    <2> QED BY <2>3, <2>5, <2>6, <2>7
  <1>11. ASSUME RecordOutcome(p)
        PROVE  Progress(p)'
    BY <1>11, <1>r DEF RecordOutcome
  <1>12. ASSUME Crash(p)
        PROVE  Progress(p)'
    BY <1>12, <1>r DEF Crash
  <1> QED
    BY <1>1, <1>2, <1>3, <1>4, <1>5, <1>6, <1>7, <1>8, <1>9, <1>10, <1>11, <1>12 DEF Continue

-----------------------------------------------------------------------------
\* Only record_outcome closes an experiment, and it tells the truth

\* A plane leaves its experiment by record_outcome or by dying (run_lifecycle).
LEMMA EndsBy ==
    ASSUME TypeInv, NEW p \in Planes, planes[p].exp # 0, planes'[p].pc = "idle",
           (\E request \in Requests : Submit(p, request)) \/ Continue(p) \/ Crash(p)
    PROVE  RecordOutcome(p) \/ journal' = journal
  <1>0. PlaneTypeOK /\ HoldsId(p)
    BY DEF TypeInv
  <1>1. planes[p].pc \notin {"idle", "begin"}
    BY <1>0 DEF HoldsId
  <1>2. \A pc : Goto(p, pc) => pc = "idle"
    BY <1>0, LocalFields
  <1>3. \A stage, kind, pc : Fail(p, stage, kind, pc) => pc = "idle"
    BY <1>0, LocalFields
  <1>4. \A stage, kind : ~FailRestore(p, stage, kind)
    BY <1>0, LocalFields
  <1>5. ~Preview(p) /\ ~RecordIntent(p) /\ ~RecordApply(p)
    BY <1>2, <1>3 DEF Preview, RecordIntent, RecordApply, Record, RecordError
  <1>6. ~Apply(p) /\ ~Rollback(p)
    BY <1>2, <1>3, <1>4 DEF Apply, Rollback
  <1>7. ~Verify(p)
    BY <1>2, <1>3 DEF Verify, Record, RecordError
  <1>8. ~RecordRollback(p) /\ ~RollbackVerify(p)
    BY <1>2, <1>4 DEF RecordRollback, RollbackVerify, Record
  <1>9. ~BeginExperiment(p) /\ \A request \in Requests : ~Submit(p, request)
    BY <1>1 DEF BeginExperiment, Submit
  <1>10. Crash(p) => journal' = journal
    BY DEF Crash
  <1> QED BY <1>5, <1>6, <1>7, <1>8, <1>9, <1>10 DEF Continue

\* A row keeps the records truthful if it is, when it is a terminal one.
LEMMA TruthfulRow ==
    ASSUME journal \in Seq(Rows), NEW r \in Rows, journal' = journal \o <<r>>,
           CompletedMeansRestored, SupersededFailureKept,
           r.stage = "completed" => ReadBack(journal, r.exp),
           r.stage = "failed" /\ r.note \in RestoreStages
              => (r.why = "none" <=> Noted(journal, r.exp, "verify", "true"))
    PROVE  CompletedMeansRestored' /\ SupersededFailureKept'
  <1> DEFINE L == Len(journal)
  <1>1. /\ L \in Nat /\ DOMAIN journal = 1..L /\ DOMAIN journal' = 1..(L + 1)
        /\ \A i \in DOMAIN journal : journal'[i] = journal[i]
        /\ journal'[L + 1] = r
    BY Inserted
  <1> HIDE DEF L
  <1>2. \A c \in DOMAIN journal : \A i \in 1..c : i \in DOMAIN journal /\ journal'[i] = journal[i]
    BY <1>1
  <1>3. CompletedMeansRestored'
    <2>1. ASSUME NEW c \in DOMAIN journal', journal'[c].stage = "completed"
          PROVE  \E a, v, k \in 1..c :
                    /\ a < v /\ v < k
                    /\ \A i \in {a, v, k} : journal'[i].exp = journal'[c].exp
                    /\ journal'[a].stage = "apply-intent"
                    /\ journal'[v].stage = "verify" /\ journal'[v].note = "true"
                    /\ journal'[k].stage = "rollback-verify" /\ journal'[k].note = "true"
      <3>1. CASE c \in DOMAIN journal
        <4>1. PICK a, v, k \in 1..c :
                    /\ a < v /\ v < k
                    /\ \A i \in {a, v, k} : journal[i].exp = journal[c].exp
                    /\ journal[a].stage = "apply-intent"
                    /\ journal[v].stage = "verify" /\ journal[v].note = "true"
                    /\ journal[k].stage = "rollback-verify" /\ journal[k].note = "true"
          <5>1. journal[c].stage = "completed"
            BY <1>1, <2>1, <3>1
          <5> QED BY <3>1, <5>1 DEF CompletedMeansRestored
        <4>2. \A i \in {a, v, k} : journal'[i] = journal[i]
          BY <1>2, <3>1
        <4>3. journal'[c] = journal[c]
          BY <1>1, <3>1
        <4> QED BY <4>1, <4>2, <4>3
      <3>2. CASE c = L + 1
        <4>1. ReadBack(journal, r.exp) /\ journal'[c] = r
          BY <1>1, <2>1, <3>2
        <4>2. \A i \in DOMAIN journal : i \in 1..c
          BY <1>1, <3>2
        <4>3. PICK a, v, k \in DOMAIN journal :
                    /\ a < v /\ v < k
                    /\ journal[a].exp = r.exp /\ journal[a].stage = "apply-intent"
                    /\ journal[v].exp = r.exp
                    /\ journal[v].stage = "verify" /\ journal[v].note = "true"
                    /\ journal[k].exp = r.exp
                    /\ journal[k].stage = "rollback-verify" /\ journal[k].note = "true"
          BY <4>1 DEF ReadBack
        <4>4. \A i \in {a, v, k} : i \in 1..c /\ journal'[i] = journal[i]
          BY <1>1, <4>2
        <4> QED BY <4>1, <4>3, <4>4
      <3>3. c \in DOMAIN journal \/ c = L + 1
        BY <1>1
      <3> QED BY <3>1, <3>2, <3>3
    <2> QED BY <2>1 DEF CompletedMeansRestored
  <1>4. SupersededFailureKept'
    <2>1. ASSUME NEW f \in DOMAIN journal', journal'[f].stage = "failed",
                 journal'[f].note \in {"rollback", "rollback-verify"}
          PROVE  (journal'[f].why = "none") <=>
                    \E v \in 1..f : /\ journal'[v].exp = journal'[f].exp
                                    /\ journal'[v].stage = "verify"
                                    /\ journal'[v].note = "true"
      <3>1. CASE f \in DOMAIN journal
        <4>1. \A i \in 1..f : journal'[i] = journal[i]
          BY <1>2, <3>1
        <4>2. journal'[f] = journal[f]
          BY <1>1, <3>1
        <4>3. (journal[f].why = "none") <=>
                 \E v \in 1..f : /\ journal[v].exp = journal[f].exp
                                 /\ journal[v].stage = "verify"
                                 /\ journal[v].note = "true"
          BY <2>1, <3>1, <4>2 DEF SupersededFailureKept
        <4> QED BY <4>1, <4>2, <4>3
      <3>2. CASE f = L + 1
        <4>1. journal'[f] = r
          BY <1>1, <3>2
        <4>2. r.why = "none" <=> Noted(journal, r.exp, "verify", "true")
          BY <2>1, <4>1 DEF RestoreStages
        <4>3. Noted(journal, r.exp, "verify", "true") <=>
                 \E v \in 1..f : /\ journal'[v].exp = r.exp
                                 /\ journal'[v].stage = "verify"
                                 /\ journal'[v].note = "true"
          BY <1>1, <2>1, <3>2, <4>1 DEF Noted
        <4> QED BY <4>1, <4>2, <4>3
      <3> QED BY <1>1, <3>1, <3>2
    <2> QED BY <2>1 DEF SupersededFailureKept
  <1> QED BY <1>3, <1>4

\* Every step of run_lifecycle keeps the records truthful.
LEMMA RecordsStep ==
    ASSUME TypeInv, UniqueCorrelation, RecordsInv, [PlaneNext]_planeVars
    PROVE  RecordsInv'
  <1>0. journal \in Seq(Rows) /\ PlaneTypeOK
    BY DEF TypeInv, PlaneTypeOK
  <1>1. CASE UNCHANGED planeVars
    BY <1>1 DEF RecordsInv, CompletedMeansRestored, SupersededFailureKept, Progress,
                planeVars, hostVars
  <1>2. ASSUME NEW p \in Planes,
               (\E request \in Requests : Submit(p, request)) \/ Continue(p) \/ Crash(p)
        PROVE  RecordsInv'
    <2>0. Kind(p) /\ Progress(p)
      BY <1>2, StepKind DEF RecordsInv
    <2>1. Progress(p)'
      BY <1>2, <2>0, ProgressStep
    <2>2. \A q \in Planes : q # p => Progress(q)'
      BY <2>0, ProgressOfOthers DEF RecordsInv
    <2> SUFFICES CompletedMeansRestored' /\ SupersededFailureKept'
      BY <2>1, <2>2 DEF RecordsInv
    <2>3. CASE journal' = journal
      BY <2>3 DEF RecordsInv, CompletedMeansRestored, SupersededFailureKept
    <2>4. ASSUME NEW r \in Rows, journal' = journal \o <<r>>, r.stage \notin Terminal
          PROVE  CompletedMeansRestored' /\ SupersededFailureKept'
      BY <1>0, <2>4, TruthfulRow DEF RecordsInv, Terminal
    <2>5. CASE RecordOutcome(p)
      <3> DEFINE c == Row(planes[p].exp, "completed")
                 f == FailedRow(planes[p].exp, planes[p].failure.stage, planes[p].suppressed)
      <3>0. planes[p].exp # 0 /\ planes[p].pc = "outcome"
        BY <2>5 DEF RecordOutcome, TypeInv, HoldsId
      <3>1. /\ c \in Rows /\ c.exp = planes[p].exp /\ c.stage = "completed"
            /\ f \in Rows /\ f.exp = planes[p].exp /\ f.stage = "failed"
            /\ f.note = planes[p].failure.stage /\ f.why = planes[p].suppressed
        BY <1>0, <3>0, PlaneRows, ZenonT(40)
      <3> HIDE DEF c, f
      <3>2. \/ journal' = journal
            \/ journal' = journal \o <<c>> /\ planes[p].failure = NoFailure
            \/ journal' = journal \o <<f>>
        BY <2>5 DEF RecordOutcome, Insert, c, f
      <3>3. planes[p].failure = NoFailure => ReadBack(journal, c.exp)
        BY <2>0, <3>0, <3>1 DEF Progress, NoFailure
      <3>4. f.note \in RestoreStages
               => (f.why = "none" <=> Noted(journal, f.exp, "verify", "true"))
        BY <2>0, <3>0, <3>1 DEF Progress
      <3>5. CASE journal' = journal \o <<c>> /\ planes[p].failure = NoFailure
        BY <1>0, <3>1, <3>3, <3>5, TruthfulRow DEF RecordsInv
      <3>6. CASE journal' = journal \o <<f>>
        BY <1>0, <3>1, <3>4, <3>6, TruthfulRow DEF RecordsInv
      <3> QED BY <2>3, <3>2, <3>5, <3>6
    <2>6. CASE Begins(p)
      <3> DEFINE r == SnapshotRow(NextId(journal), planes[p].snap)
      <3>1. PICK n \in Nat : Ids(journal) = 1..n
        BY DEF TypeInv, GapFree
      <3>2. NextId(journal) \in Nat \ {0}
        BY <3>1, NextIdValue
      <3>3. planes[p].snap \in Settings
        BY <1>0 DEF PlaneTypeOK, PlaneStates
      <3>4. r \in Rows
        BY <3>2, <3>3, RowTypes
      <3>5. r.stage \notin Terminal
        BY DEF SnapshotRow, Row, Terminal
      <3> HIDE DEF r
      <3>6. journal' = journal \o <<r>>
        BY <2>6 DEF Begins, r
      <3> QED BY <2>4, <3>4, <3>5, <3>6
    <2>7. CASE Ends(p)
      BY <1>2, <2>3, <2>5, <2>7, EndsBy DEF Ends
    <2> QED BY <2>0, <2>3, <2>4, <2>6, <2>7 DEF Kind, Outside, Works
  <1> QED BY <1>1, <1>2 DEF PlaneNext

\* The records are truthful in every state of the planes.
LEMMA RecordsInvariance == PlaneSpec => []RecordsInv
  <1>1. HostInit /\ PlaneInit => RecordsInv
    BY DEF HostInit, PlaneInit, Idle, RecordsInv, CompletedMeansRestored,
           SupersededFailureKept, Progress
  <1>2. TypeInv /\ HistoryInv /\ RecordsInv /\ [PlaneNext]_planeVars => RecordsInv'
    BY RecordsStep DEF HistoryInv
  <1> QED BY <1>1, <1>2, TypeInvariance, HistoryInvariance, PTL DEF PlaneSpec, PlanesInit

\* A `completed` record is never written without the observation of the change
\* and, after it, the read-back of the baseline, in that order and under the same
\* correlation ID, with any number of planes, faults and crashes (run_stages,
\* restore, record_outcome).
THEOREM CompletedIsRestored == PlaneSpec => []CompletedMeansRestored
  <1>1. RecordsInv => CompletedMeansRestored
    BY DEF RecordsInv
  <1> QED BY <1>1, RecordsInvariance, PTL

\* A restore failure never hides the failure it supersedes: the `failed` record
\* names a suppressed stage exactly when no verified change is on record
\* (run_stages, record_outcome).
THEOREM SupersededIsKept == PlaneSpec => []SupersededFailureKept
  <1>1. RecordsInv => SupersededFailureKept
    BY DEF RecordsInv
  <1> QED BY <1>1, RecordsInvariance, PTL

-----------------------------------------------------------------------------
\* What the caller is told

\* Only the branch of record_outcome that committed `completed` answers "ok".
LEMMA OkComesFrom ==
    ASSUME TypeInv, NEW p \in Planes, Progress(p),
           planes[p].pc # "idle", planes'[p].reply = "ok",
           (\E request \in Requests : Submit(p, request)) \/ Continue(p) \/ Crash(p)
    PROVE  /\ planes[p].pc = "outcome" /\ planes[p].failure = NoFailure
           /\ journal' = journal \o <<Row(planes[p].exp, "completed")>>
           /\ knob' = knob
  <1>0. /\ PlaneTypeOK /\ HoldsId(p) /\ planes[p] \in PlaneStates
        /\ planes \in [Planes -> PlaneStates]
    BY DEF TypeInv, PlaneTypeOK
  <1>1. planes[p].reply = "none"
    BY DEF Progress
  <1>2. /\ \A pc : ~Goto(p, pc)
        /\ \A stage, kind, pc : ~Fail(p, stage, kind, pc)
        /\ \A stage, kind : ~FailRestore(p, stage, kind)
    <2>1. \A pc : ~Goto(p, pc)
      BY <1>0, <1>1, LocalFields DEF Keeps
    <2>2. \A stage, kind, pc : ~Fail(p, stage, kind, pc)
      BY <1>0, <1>1, LocalFields DEF Keeps
    <2>3. \A stage, kind : ~FailRestore(p, stage, kind)
      BY <1>0, <1>1, LocalFields DEF Keeps
    <2> QED BY <2>1, <2>2, <2>3
  <1>3. \A reply : Return(p, reply) => reply = "ok"
    BY <1>0, LocalFields
  <1>4. ~Preview(p) /\ ~RecordIntent(p) /\ ~RecordApply(p)
    BY <1>2 DEF Preview, RecordIntent, RecordApply, Record, RecordError
  <1>5. ~Apply(p) /\ ~Rollback(p)
    BY <1>2 DEF Apply, Rollback
  <1>6. ~Verify(p)
    BY <1>2 DEF Verify, Record, RecordError
  <1>7. ~RecordRollback(p) /\ ~RollbackVerify(p)
    BY <1>2 DEF RecordRollback, RollbackVerify, Record
  <1>8. ~BeginExperiment(p)
    <2>1. planes' # [planes EXCEPT ![p].pc = "preview", ![p].exp = NextId(journal)]
      BY <1>0, <1>1 DEF PlaneStates
    <2> QED BY <1>3, <2>1 DEF BeginExperiment
  <1>9. ~Crash(p) /\ \A request \in Requests : ~Submit(p, request)
    BY <1>3 DEF Crash, Submit
  <1>10. RecordOutcome(p)
    BY <1>4, <1>5, <1>6, <1>7, <1>8, <1>9 DEF Continue
  <1>11. planes[p].failure # NoFailure => planes[p].failure.kind # "ok"
    BY <1>0 DEF PlaneStates, Failures, FailureKinds
  <1> QED BY <1>3, <1>10, <1>11 DEF RecordOutcome, Insert

\* A lifecycle that reached its outcome without a failure left the host at its
\* snapshot (the comparison in restore).
CleanOutcome ==
    \A p \in Planes :
        planes[p].pc = "outcome" /\ planes[p].failure = NoFailure => knob = planes[p].snap

\* The only plane keeps that: nothing moves the setting after the comparison.
LEMMA CleanStep ==
    ASSUME TypeInv, CleanOutcome, NEW p, Planes = {p}, Progress(p),
           (\E request \in Requests : Submit(p, request)) \/ Continue(p) \/ Crash(p)
    PROVE  CleanOutcome'
  <1>0. /\ PlaneTypeOK /\ p \in Planes /\ planes[p] \in PlaneStates
        /\ planes \in [Planes -> PlaneStates]
    BY DEF TypeInv, PlaneTypeOK
  <1> SUFFICES ASSUME planes'[p].pc = "outcome", planes'[p].failure = NoFailure
               PROVE  knob' = planes'[p].snap
    BY DEF CleanOutcome
  <1>1. planes'[p].failure.stage = "none"
    BY DEF NoFailure
  <1>2. \A pc : Goto(p, pc) =>
           pc = "outcome" /\ planes'[p].snap = planes[p].snap
           /\ planes[p].failure = NoFailure
    BY <1>0, LocalFields DEF Keeps
  <1>3. \A stage, kind, pc : Fail(p, stage, kind, pc) => stage = "none"
    BY <1>0, <1>1, LocalFields
  <1>4. \A stage, kind : FailRestore(p, stage, kind) => stage = "none"
    BY <1>0, <1>1, LocalFields
  <1>5. \A reply : ~Return(p, reply)
    BY <1>0, LocalFields
  <1>6. ~Preview(p) /\ ~RecordIntent(p) /\ ~RecordApply(p)
    BY <1>2, <1>3 DEF Preview, RecordIntent, RecordApply, Record, RecordError
  <1>7. ~Apply(p) /\ ~Rollback(p)
    BY <1>2, <1>3, <1>4 DEF Apply, Rollback
  <1>8. ~Verify(p)
    BY <1>2, <1>3 DEF Verify, Record, RecordError
  <1>9. ~RecordRollback(p)
    BY <1>2, <1>4 DEF RecordRollback, Record
  <1>10. ~RecordOutcome(p) /\ ~Crash(p)
    BY <1>5 DEF RecordOutcome, Crash
  <1>11. ~BeginExperiment(p)
    <2>1. planes' # [planes EXCEPT ![p].pc = "preview", ![p].exp = NextId(journal)]
      BY <1>0 DEF PlaneStates
    <2> QED BY <1>5, <2>1 DEF BeginExperiment
  <1>12. \A request \in Requests : ~Submit(p, request)
    <2>1. ASSUME NEW request \in Requests
          PROVE  planes' # [planes EXCEPT ![p] =
                    [Idle("none") EXCEPT
                       !.pc = "begin",
                       !.req = [val |-> request.val, lease |-> request.lease],
                       !.snap = ProviderSnapshot]]
      BY <1>0 DEF Idle
    <2> QED BY <1>5, <2>1 DEF Submit
  <1>13. RollbackVerify(p)
    BY <1>6, <1>7, <1>8, <1>9, <1>10, <1>11, <1>12 DEF Continue
  <1> QED BY <1>2, <1>4, <1>13 DEF RollbackVerify, Record, ProviderSnapshot

\* A caller of the only plane is told "ok" in a step that leaves the host at the
\* snapshot its own lifecycle took and the `completed` record committed: never
\* after a failed change, a failed restore or a lost record (record_outcome).
THEOREM OkIsRestored ==
    ASSUME NEW CONSTANT p, Planes = {p}
    PROVE  PlaneSpec => OkMeansRestored
  <1>1. HostInit /\ PlaneInit => CleanOutcome
    BY DEF HostInit, PlaneInit, Idle, CleanOutcome
  <1>2. TypeInv /\ RecordsInv /\ CleanOutcome /\ [PlaneNext]_planeVars => CleanOutcome'
    <2>1. ASSUME TypeInv, RecordsInv, CleanOutcome, PlaneNext PROVE CleanOutcome'
      BY <2>1, CleanStep DEF PlaneNext, RecordsInv
    <2>2. ASSUME CleanOutcome, UNCHANGED planeVars PROVE CleanOutcome'
      BY <2>2 DEF CleanOutcome, planeVars, hostVars
    <2> QED BY <2>1, <2>2
  <1>3. TypeInv /\ RecordsInv /\ CleanOutcome /\ [PlaneNext]_planeVars => [OkIsEarned]_planeVars
    <2> SUFFICES ASSUME TypeInv, RecordsInv, CleanOutcome, [PlaneNext]_planeVars
                 PROVE  [OkIsEarned]_planeVars
      OBVIOUS
    <2>1. CASE UNCHANGED planeVars
      BY <2>1
    <2>2. CASE PlaneNext
      <3> SUFFICES ASSUME planes[p].pc # "idle", planes'[p].reply = "ok"
                   PROVE  knob' = planes[p].snap /\ HasStage(journal', planes[p].exp, {"completed"})
        BY DEF OkIsEarned
      <3>0. /\ (\E request \in Requests : Submit(p, request)) \/ Continue(p) \/ Crash(p)
            /\ p \in Planes /\ Progress(p) /\ PlaneTypeOK /\ journal \in Seq(Rows)
        BY <2>2 DEF PlaneNext, RecordsInv, TypeInv, PlaneTypeOK
      <3> DEFINE r == Row(planes[p].exp, "completed")
      <3>1. /\ planes[p].pc = "outcome" /\ planes[p].failure = NoFailure
            /\ journal' = journal \o <<r>> /\ knob' = knob
        BY <3>0, OkComesFrom
      <3>2. planes[p].exp # 0
        BY <3>0, <3>1 DEF TypeInv, HoldsId
      <3>3. r \in Rows /\ r.exp = planes[p].exp /\ r.stage = "completed"
        BY <3>0, <3>2, PlaneRows
      <3> HIDE DEF r
      <3>4. HasStage(journal', planes[p].exp, {"completed"})
        BY <3>0, <3>1, <3>3, HasStageAppend
      <3>5. knob' = planes[p].snap
        BY <3>0, <3>1 DEF CleanOutcome
      <3> QED BY <3>4, <3>5
    <2> QED BY <2>1, <2>2
  <1> QED BY <1>1, <1>2, <1>3, TypeInvariance, RecordsInvariance, PTL
          DEF PlaneSpec, PlanesInit, OkMeansRestored

-----------------------------------------------------------------------------
\* Every write is leased: the planes implement LeasedChange

\* What a row does to the leases the journal stands for (Dangling, ClosedIds).
LEMMA LeasesAfter ==
    ASSUME journal \in Seq(Rows), NEW r \in Rows, journal' = journal \o <<r>>
    PROVE  /\ r.stage \notin Terminal \cup {"apply-intent"} =>
                 /\ Dangling(journal') = Dangling(journal)
                 /\ ClosedIds(journal') = ClosedIds(journal)
           /\ r.stage = "apply-intent" /\ ~Closed(journal, r.exp) =>
                 /\ Dangling(journal') = Dangling(journal) \cup {r.exp}
                 /\ ClosedIds(journal') = ClosedIds(journal)
           /\ r.stage \in Terminal =>
                 /\ Dangling(journal') = Dangling(journal) \ {r.exp}
                 /\ ClosedIds(journal') = ClosedIds(journal) \cup {r.exp}
  <1>0. "apply-intent" \notin Terminal
    BY DEF Terminal
  <1>1. /\ Ids(journal') = Ids(journal) \cup {r.exp}
        /\ \A e, T : HasStage(journal', e, T) <=>
                       HasStage(journal, e, T) \/ (r.exp = e /\ r.stage \in T)
    BY Inserted
  <1>2. \A e : Closed(journal', e) <=> Closed(journal, e) \/ (r.exp = e /\ r.stage \in Terminal)
    BY <1>1 DEF Closed
  <1>3. \A e : HasStage(journal', e, {"apply-intent"}) <=>
                  HasStage(journal, e, {"apply-intent"}) \/ (r.exp = e /\ r.stage = "apply-intent")
    BY <1>1
  <1>4. \A e, T : HasStage(journal, e, T) => e \in Ids(journal)
    BY UnknownId
  <1>5. \A e : Closed(journal, e) => e \in Ids(journal)
    BY <1>4 DEF Closed
  <1>6. /\ \A e : e \in Dangling(journal) <=>
                     HasStage(journal, e, {"apply-intent"}) /\ ~Closed(journal, e)
        /\ \A e : e \in ClosedIds(journal) <=> Closed(journal, e)
    BY <1>4, <1>5 DEF Dangling, ClosedIds
  <1>7. /\ \A e : e \in Dangling(journal') <=>
                     HasStage(journal', e, {"apply-intent"}) /\ ~Closed(journal', e)
        /\ \A e : e \in ClosedIds(journal') <=> Closed(journal', e)
    BY <1>1, <1>2, <1>3, <1>4, <1>5 DEF Dangling, ClosedIds
  <1>8. CASE r.stage \notin Terminal \cup {"apply-intent"}
    BY <1>2, <1>3, <1>6, <1>7, <1>8
  <1>9. CASE r.stage = "apply-intent"
    BY <1>0, <1>2, <1>3, <1>6, <1>7, <1>9
  <1>10. CASE r.stage \in Terminal
    BY <1>0, <1>2, <1>3, <1>6, <1>7, <1>10
  <1> QED BY <1>8, <1>9, <1>10

\* A plane that may move the setting has an open lease (the write-ahead intent).
LEMMA HoldsLease ==
    ASSUME TypeInv, WorksOnOpen, NEW p \in Planes, Progress(p),
           planes[p].pc \in {"apply", "applied", "verify", "rollback", "rolled", "check"}
    PROVE  planes[p].exp \in Dangling(journal)
  <1>1. planes[p].exp # 0 /\ planes[p].exp \in Ids(journal)
    BY DEF TypeInv, HoldsId
  <1>2. HasStage(journal, planes[p].exp, {"apply-intent"})
    BY DEF Progress
  <1>3. ~Closed(journal, planes[p].exp)
    BY <1>1 DEF WorksOnOpen
  <1> QED BY <1>1, <1>2, <1>3 DEF Dangling

\* The records between the intent and the outcome open and close nothing.
Quiet(p) ==
    /\ knob' = knob
    /\ \/ journal' = journal
       \/ \E r \in Rows : /\ r.stage \notin Terminal \cup {"apply-intent", "watchdog-restore"}
                           /\ journal' = journal \o <<r>>

\* The steps of run_stages and restore that only record what they saw.
LEMMA QuietSteps ==
    ASSUME TypeInv, NEW p \in Planes,
           \/ \E request \in Requests : Submit(p, request)
           \/ BeginExperiment(p) \/ Preview(p) \/ RecordApply(p) \/ Verify(p)
           \/ RecordRollback(p) \/ RollbackVerify(p) \/ Crash(p)
    PROVE  Quiet(p)
  <1>0. PlaneTypeOK /\ HoldsId(p) /\ planes[p] \in PlaneStates
    BY DEF TypeInv, PlaneTypeOK
  <1>1. ASSUME \E request \in Requests : Submit(p, request)
        PROVE  Quiet(p)
    BY <1>1 DEF Submit, Quiet
  <1>2. ASSUME BeginExperiment(p) PROVE Quiet(p)
    <2> DEFINE r == SnapshotRow(NextId(journal), planes[p].snap)
    <2>1. PICK n \in Nat : Ids(journal) = 1..n
      BY DEF TypeInv, GapFree
    <2>2. NextId(journal) \in Nat \ {0}
      BY <2>1, NextIdValue
    <2>3. planes[p].snap \in Settings
      BY <1>0 DEF PlaneStates
    <2>4. r \in Rows
      BY <2>2, <2>3, RowTypes
    <2>5. r.stage \notin Terminal \cup {"apply-intent", "watchdog-restore"}
      BY DEF SnapshotRow, Row, Terminal
    <2> HIDE DEF r
    <2>6. knob' = knob /\ (journal' = journal \/ journal' = journal \o <<r>>)
      BY <1>2 DEF BeginExperiment, Insert, r
    <2> QED BY <2>4, <2>5, <2>6 DEF Quiet
  <1>x. planes[p].pc \notin {"idle", "begin"} => planes[p].exp # 0
    BY <1>0 DEF HoldsId
  <1>3. ASSUME Preview(p) PROVE Quiet(p)
    <2> DEFINE r == Row(planes[p].exp, "preview")
    <2>1. planes[p].exp # 0
      BY <1>3, <1>x DEF Preview
    <2>2. r \in Rows /\ r.stage = "preview"
      BY <1>0, <2>1, PlaneRows
    <2> HIDE DEF r
    <2>3. knob' = knob /\ (journal' = journal \/ journal' = journal \o <<r>>)
      BY <1>3 DEF Preview, Record, RecordError, Insert, r
    <2> QED BY <2>2, <2>3 DEF Quiet, Terminal
  <1>4. ASSUME RecordApply(p) PROVE Quiet(p)
    <2> DEFINE r == Row(planes[p].exp, "apply")
    <2>1. planes[p].exp # 0
      BY <1>4, <1>x DEF RecordApply
    <2>2. r \in Rows /\ r.stage = "apply"
      BY <1>0, <2>1, PlaneRows
    <2> HIDE DEF r
    <2>3. knob' = knob /\ (journal' = journal \/ journal' = journal \o <<r>>)
      BY <1>4 DEF RecordApply, Record, RecordError, Insert, r
    <2> QED BY <2>2, <2>3 DEF Quiet, Terminal
  <1>5. ASSUME Verify(p) PROVE Quiet(p)
    <2> DEFINE r(note) == NoteRow(planes[p].exp, "verify", note)
    <2>1. planes[p].exp # 0
      BY <1>5, <1>x DEF Verify
    <2>2. \A note \in {"true", "false"} : r(note) \in Rows /\ r(note).stage = "verify"
      BY <1>0, <2>1, PlaneRows, ZenonT(40)
    <2> HIDE DEF r
    <2>3. /\ knob' = knob
          /\ journal' = journal \/ \E note \in {"true", "false"} : journal' = journal \o <<r(note)>>
      BY <1>5 DEF Verify, Record, RecordError, Insert, r
    <2> QED BY <2>2, <2>3 DEF Quiet, Terminal
  <1>6. ASSUME RecordRollback(p) PROVE Quiet(p)
    <2> DEFINE r == [Row(planes[p].exp, "rollback") EXCEPT !.val = planes[p].snap]
    <2>1. planes[p].exp # 0
      BY <1>6, <1>x DEF RecordRollback
    <2>2. r \in Rows /\ r.stage = "rollback"
      BY <1>0, <2>1, PlaneRows
    <2> HIDE DEF r
    <2>3. knob' = knob /\ (journal' = journal \/ journal' = journal \o <<r>>)
      BY <1>6 DEF RecordRollback, Record, Insert, r
    <2> QED BY <2>2, <2>3 DEF Quiet, Terminal
  <1>7. ASSUME RollbackVerify(p) PROVE Quiet(p)
    <2> DEFINE r(note) == NoteRow(planes[p].exp, "rollback-verify", note)
    <2>1. planes[p].exp # 0
      BY <1>7, <1>x DEF RollbackVerify
    <2>2. \A note \in {"true", "false"} : r(note) \in Rows /\ r(note).stage = "rollback-verify"
      BY <1>0, <2>1, PlaneRows, ZenonT(40)
    <2> HIDE DEF r
    <2>3. /\ knob' = knob
          /\ journal' = journal \/ \E note \in {"true", "false"} : journal' = journal \o <<r(note)>>
      BY <1>7 DEF RollbackVerify, Record, Insert, r
    <2> QED BY <2>2, <2>3 DEF Quiet, Terminal
  <1>8. ASSUME Crash(p) PROVE Quiet(p)
    BY <1>8 DEF Crash, Quiet
  <1> QED BY <1>1, <1>2, <1>3, <1>4, <1>5, <1>6, <1>7, <1>8

\* What the step of a plane is to the leases the journal stands for: its intent
\* takes one, its provider calls change the setting under it, its outcome closes it.
LeaseMove(p) ==
    \/ UNCHANGED Leases!vars
    \/ RecordIntent(p) /\ Leases!Lease(planes[p].exp)
    \/ (Apply(p) \/ Rollback(p)) /\ Leases!Change
    \/ RecordOutcome(p) /\ Leases!Close(planes[p].exp)

\* Every step of run_lifecycle is such a move.
LEMMA LeaseMoves ==
    ASSUME TypeInv, WorksOnOpen, RecordsInv, NEW p \in Planes,
           (\E request \in Requests : Submit(p, request)) \/ Continue(p) \/ Crash(p)
    PROVE  LeaseMove(p)
  <1>0. journal \in Seq(Rows) /\ PlaneTypeOK
    BY DEF TypeInv, PlaneTypeOK
  <1>1. ASSUME knob' = knob, Dangling(journal') = Dangling(journal),
               ClosedIds(journal') = ClosedIds(journal)
        PROVE  UNCHANGED Leases!vars
    BY <1>1 DEF Leases!vars
  <1>3. ASSUME Quiet(p)
        PROVE  UNCHANGED Leases!vars
    <2>1. CASE journal' = journal
      BY <1>1, <1>3, <2>1 DEF Quiet
    <2>2. ASSUME NEW r \in Rows, r.stage \notin Terminal \cup {"apply-intent"},
                 journal' = journal \o <<r>>
          PROVE  UNCHANGED Leases!vars
      <3>1. Dangling(journal') = Dangling(journal) /\ ClosedIds(journal') = ClosedIds(journal)
        BY <1>0, <2>2, LeasesAfter
      <3> QED BY <1>1, <1>3, <3>1 DEF Quiet
    <2> QED BY <1>3, <2>1, <2>2 DEF Quiet
  <1>4. ASSUME RecordIntent(p)
        PROVE  LeaseMove(p)
    <2> DEFINE e == planes[p].exp
               r == IntentRow(planes[p].exp, planes[p].req, now)
    <2>1. e # 0 /\ Progress(p) /\ planes[p].pc = "intent" /\ knob' = knob
      BY <1>4 DEF RecordIntent, TypeInv, HoldsId, RecordsInv
    <2>2. ~Closed(journal, e) /\ ~HasStage(journal, e, {"apply-intent"})
      BY <2>1 DEF WorksOnOpen, Progress
    <2>3. r \in Rows /\ r.exp = e /\ r.stage = "apply-intent"
      BY <1>0, <2>1, PlaneRows
    <2>4. journal' = journal \/ journal' = journal \o <<r>>
      BY <1>4 DEF RecordIntent, Record, RecordError, Insert
    <2> HIDE DEF e, r
    <2>5. CASE journal' = journal
      BY <1>1, <2>1, <2>5 DEF LeaseMove
    <2>6. CASE journal' = journal \o <<r>>
      <3>1. /\ Dangling(journal') = Dangling(journal) \cup {e}
            /\ ClosedIds(journal') = ClosedIds(journal)
        BY <1>0, <2>2, <2>3, <2>6, LeasesAfter
      <3>2. e \notin Dangling(journal) \cup ClosedIds(journal)
        BY <2>2 DEF Dangling, ClosedIds
      <3> QED BY <1>4, <2>1, <3>1, <3>2 DEF LeaseMove, Leases!Lease, e
    <2> QED BY <2>4, <2>5, <2>6
  <1>5. ASSUME Apply(p) \/ Rollback(p)
        PROVE  LeaseMove(p)
    <2>1. /\ planes[p].pc \in {"apply", "rollback"} /\ journal' = journal /\ Progress(p)
      BY <1>5 DEF Apply, Rollback, RecordsInv
    <2>2. planes[p].exp \in Dangling(journal)
      BY <2>1, HoldsLease
    <2>3. Kind(p)
      BY <1>5, StepKind DEF Continue
    <2>4. knob' \in Settings
      BY <2>3 DEF Kind, Moves
    <2> QED BY <1>5, <2>1, <2>2, <2>4 DEF LeaseMove, Leases!Change
  <1>6. ASSUME RecordOutcome(p)
        PROVE  LeaseMove(p)
    <2> DEFINE e == planes[p].exp
               c == Row(planes[p].exp, "completed")
               f == FailedRow(planes[p].exp, planes[p].failure.stage, planes[p].suppressed)
    <2>1. e # 0 /\ knob' = knob
      BY <1>6 DEF RecordOutcome, TypeInv, HoldsId
    <2>2. ~Closed(journal, e)
      BY <2>1 DEF WorksOnOpen
    <2>3. /\ c \in Rows /\ c.exp = e /\ c.stage = "completed"
          /\ f \in Rows /\ f.exp = e /\ f.stage = "failed"
      BY <1>0, <2>1, PlaneRows
    <2>4. journal' = journal \/ journal' = journal \o <<c>> \/ journal' = journal \o <<f>>
      BY <1>6 DEF RecordOutcome, Insert
    <2> HIDE DEF e, c, f
    <2>5. CASE journal' = journal
      BY <1>1, <2>1, <2>5 DEF LeaseMove
    <2>6. ASSUME NEW r \in Rows, r.exp = e, r.stage \in Terminal, journal' = journal \o <<r>>
          PROVE  LeaseMove(p)
      <3>1. /\ Dangling(journal') = Dangling(journal) \ {e}
            /\ ClosedIds(journal') = ClosedIds(journal) \cup {e}
        BY <1>0, <2>6, LeasesAfter
      <3>2. e \notin ClosedIds(journal)
        BY <2>2 DEF ClosedIds
      <3> QED BY <1>6, <2>1, <3>1, <3>2 DEF LeaseMove, Leases!Close, e
    <2> QED BY <2>3, <2>4, <2>5, <2>6 DEF Terminal
  <1> QED BY <1>3, <1>4, <1>5, <1>6, QuietSteps DEF Continue, LeaseMove

\* Every step of the planes is a step of the abstract leased change, or none.
LEMMA LeasedStep ==
    ASSUME TypeInv, HistoryInv, RecordsInv, [PlaneNext]_planeVars
    PROVE  [Leases!Next]_(Leases!vars)
  <1>1. CASE UNCHANGED planeVars
    BY <1>1 DEF planeVars, hostVars, Leases!vars
  <1>2. ASSUME NEW p \in Planes,
               (\E request \in Requests : Submit(p, request)) \/ Continue(p) \/ Crash(p)
        PROVE  [Leases!Next]_(Leases!vars)
    <2>1. LeaseMove(p)
      BY <1>2, LeaseMoves DEF HistoryInv
    <2>2. \A e : Leases!Lease(e) => e \in Dangling(journal')
      BY DEF Leases!Lease
    <2>3. \A e : Leases!Close(e) => e \in ClosedIds(journal')
      BY DEF Leases!Close
    <2> QED BY <2>1, <2>2, <2>3 DEF LeaseMove, Leases!Next
  <1> QED BY <1>1, <1>2 DEF PlaneNext

\* Any number of control planes sharing a journal and a setting implement the
\* abstract leased change: an experiment is leased once and closed once, and the
\* setting moves only while some lease is open (run_stages, record_outcome).
THEOREM PlanesImplementLeases == PlaneSpec => WritesAreLeased
  <1>1. HostInit /\ PlaneInit => Leases!Init
    BY DEF HostInit, PlaneInit, Leases!Init, Dangling, ClosedIds, Ids
  <1>2. TypeInv /\ HistoryInv /\ RecordsInv /\ [PlaneNext]_planeVars => [Leases!Next]_(Leases!vars)
    BY LeasedStep
  <1> QED BY <1>1, <1>2, TypeInvariance, HistoryInvariance, RecordsInvariance, PTL
          DEF PlaneSpec, PlanesInit, WritesAreLeased, Leases!Spec

-----------------------------------------------------------------------------
\* No baseline is lost without a trace

\* The journal owns up to a lost baseline: a snapshot that is not the baseline,
\* or a restore that failed.
OwnsUp(rows) ==
    \E i \in DOMAIN rows :
        \/ rows[i].stage = "snapshot" /\ rows[i].val # Baseline
        \/ rows[i].stage = "failed" /\ rows[i].note \in RestoreStages

\* A plane that has changed the setting, or failed to restore it.
Unrestored(s) ==
    \/ s.pc \in {"applied", "verify", "rollback", "rolled", "check"}
    \/ s.pc = "outcome" /\ s.failure.stage \in RestoreStages

\* The dangling experiment e is to blame: its plane is gone, or not done with it.
ToBlame(e) == \A q \in Planes : planes[q].exp = e => Unrestored(planes[q])

LossInv ==
    /\ knob # Baseline => OwnsUp(journal) \/ \E e \in Dangling(journal) : ToBlame(e)
    /\ \A q \in Planes : planes[q].exp # 0 /\ planes[q].snap # Baseline => OwnsUp(journal)

\* What the journal has owned up to stays on record (nothing deletes a row).
LEMMA OwnsUpAfter ==
    ASSUME journal \in Seq(Rows), NEW r \in Rows, journal' = journal \o <<r>>
    PROVE  /\ OwnsUp(journal) => OwnsUp(journal')
           /\ r.stage = "snapshot" /\ r.val # Baseline => OwnsUp(journal')
           /\ r.stage = "failed" /\ r.note \in RestoreStages => OwnsUp(journal')
  <1>1. /\ DOMAIN journal' = 1..(Len(journal) + 1) /\ DOMAIN journal = 1..Len(journal)
        /\ Len(journal) \in Nat
        /\ \A i \in DOMAIN journal : journal'[i] = journal[i]
        /\ journal'[Len(journal) + 1] = r
    BY Inserted
  <1>2. /\ Len(journal) + 1 \in DOMAIN journal'
        /\ \A i \in DOMAIN journal : i \in DOMAIN journal'
    BY <1>1
  <1> QED BY <1>1, <1>2 DEF OwnsUp

\* Every step keeps a lost baseline on record.
LEMMA LossStep ==
    ASSUME TypeInv, HistoryInv, RecordsInv, LossInv, NEW p \in Planes,
           (\E request \in Requests : Submit(p, request)) \/ Continue(p) \/ Crash(p)
    PROVE  LossInv'
  <1> DEFINE D == Dangling(journal)
             D1 == Dangling(journal')
             Kept == knob' # Baseline => OwnsUp(journal') \/ \E e \in D1 : ToBlame(e)'
  <1>0. /\ PlaneTypeOK /\ HoldsId(p) /\ Progress(p) /\ journal \in Seq(Rows)
        /\ planes[p] \in PlaneStates /\ planes \in [Planes -> PlaneStates]
    BY DEF TypeInv, PlaneTypeOK, RecordsInv
  <1>k. /\ Kind(p) /\ \A q \in Planes : q # p => planes'[q] = planes[q]
    BY StepKind DEF Kind, Moves
  <1>d. /\ D \ {planes[p].exp} \subseteq D1
        /\ planes'[p].pc # "idle" \/ journal' = journal => D \subseteq D1
    <2>1. planes'[p].pc # "idle" => ~Ends(p)
      BY DEF Ends
    <2> QED BY <1>k, <2>1, DanglingKept
  <1>o. OwnsUp(journal) => OwnsUp(journal')
    <2>1. journal' = journal \/ \E r \in Rows : journal' = journal \o <<r>>
      BY <1>k, OneRow DEF RowOf, HistoryInv
    <2> QED BY <1>0, <2>1, OwnsUpAfter
  <1>z. 0 \notin D /\ \A e \in D : e \in Ids(journal)
    BY DEF TypeInv, GapFree, Dangling
  <1>u. planes[p].exp # 0 => \A q \in Planes : planes[q].exp = planes[p].exp => q = p
    BY DEF HistoryInv, UniqueCorrelation
  <1> HIDE DEF D, D1
  \* Every plane's own snapshot is on record.
  <1>s. ASSUME NEW q \in Planes, planes'[q].exp # 0, planes'[q].snap # Baseline
        PROVE  OwnsUp(journal')
    <2>1. CASE planes'[q].exp = planes[q].exp /\ planes'[q].snap = planes[q].snap
      BY <1>o, <1>s, <2>1 DEF LossInv
    <2>2. CASE q = p /\ planes[p].exp # 0
      <3>1. planes'[p].snap = planes[p].snap
        <4>1. planes[p].pc \notin {"idle", "begin"}
          BY <1>0, <2>2 DEF HoldsId
        <4>2. planes'[p].pc # "idle"
          BY <1>k, <1>s, <2>2 DEF Kind, Outside, Begins, Works, Ends
        <4>3. /\ \A pc : Goto(p, pc) => planes'[p].snap = planes[p].snap
              /\ \A stage, kind, pc : Fail(p, stage, kind, pc) => planes'[p].snap = planes[p].snap
              /\ \A stage, kind : FailRestore(p, stage, kind) => planes'[p].snap = planes[p].snap
              /\ \A reply : ~Return(p, reply)
          BY <1>0, <4>2, SnapshotKept
        <4>4. Preview(p) \/ RecordIntent(p) \/ RecordApply(p) \/ Verify(p)
                 => planes'[p].snap = planes[p].snap
          BY <4>3 DEF Preview, RecordIntent, RecordApply, Verify, Record, RecordError
        <4>5. Apply(p) \/ Rollback(p) \/ RecordRollback(p) \/ RollbackVerify(p)
                 => planes'[p].snap = planes[p].snap
          BY <4>3 DEF Apply, Rollback, RecordRollback, RollbackVerify, Record
        <4>6. /\ ~RecordOutcome(p) /\ ~Crash(p) /\ ~BeginExperiment(p)
              /\ \A request \in Requests : ~Submit(p, request)
          BY <4>1, <4>3 DEF RecordOutcome, Crash, BeginExperiment, Submit
        <4> QED BY <4>4, <4>5, <4>6 DEF Continue
      <3>2. planes'[p].exp = planes[p].exp
        BY <1>k, <1>s, <2>2 DEF Kind, Outside, Begins, Works, Ends
      <3> QED BY <2>1, <2>2, <3>1, <3>2
    <2>3. CASE q = p /\ planes[p].exp = 0
      <3>1. Begins(p)
        BY <1>k, <1>s, <2>3 DEF Kind, Outside, Works, Ends
      <3> DEFINE r == SnapshotRow(NextId(journal), planes[p].snap)
      <3>2. PICK n \in Nat : Ids(journal) = 1..n
        BY DEF TypeInv, GapFree
      <3>3. NextId(journal) \in Nat \ {0} /\ planes[p].snap \in Settings
        BY <1>0, <3>2, NextIdValue DEF PlaneStates
      <3>4. r \in Rows
        BY <3>3, RowTypes
      <3>5. r.stage = "snapshot" /\ r.val = planes[p].snap
        BY DEF SnapshotRow, Row
      <3>6. journal' = journal \o <<r>> /\ planes'[p].pc = "preview"
        BY <3>1 DEF Begins
      <3> HIDE DEF r
      <3>7. planes'[p].snap = planes[p].snap
        <4>1. planes[p].pc \in {"idle", "begin"}
          BY <1>0, <2>3 DEF HoldsId
        <4>2. \A reply : ~Return(p, reply)
          BY <1>0, <3>6, SnapshotKept
        <4>3. ~RecordOutcome(p) /\ ~Crash(p)
          BY <4>2 DEF RecordOutcome, Crash
        <4>4. ASSUME NEW request \in Requests, Submit(p, request) PROVE FALSE
          <5>1. journal' = journal
            BY <4>4 DEF Submit
          <5>2. Len(journal) \in Nat /\ 1..Len(journal) = 1..(Len(journal) + 1)
            BY <1>0, <3>4, <3>6, <5>1, Inserted
          <5> QED BY <5>2
        <4>5. BeginExperiment(p)
          BY <4>1, <4>3, <4>4 DEF Continue, Preview, RecordIntent, Apply, RecordApply, Verify,
                 Rollback, RecordRollback, RollbackVerify
        <4>6. planes' = [planes EXCEPT ![p].pc = "preview", ![p].exp = NextId(journal)]
          BY <4>2, <4>5 DEF BeginExperiment
        <4> QED BY <1>0, <4>6 DEF PlaneStates
      <3> QED BY <1>0, <1>s, <2>3, <3>4, <3>5, <3>6, <3>7, OwnsUpAfter
    <2> QED BY <1>k, <2>1, <2>2, <2>3
  \* A blamed experiment stays blamed while its plane is not done with it.
  <1>c. ASSUME knob' = knob, D \subseteq D1,
               planes'[p].exp \in D => /\ planes'[p].exp = planes[p].exp
                                       /\ Unrestored(planes[p]) => Unrestored(planes'[p])
        PROVE  Kept
    <2>1. CASE knob = Baseline \/ OwnsUp(journal)
      BY <1>c, <1>o, <2>1
    <2>2. ASSUME NEW e \in D, ToBlame(e) PROVE ToBlame(e)'
      BY <1>c, <1>k, <2>2 DEF ToBlame
    <2> QED BY <1>c, <2>1, <2>2 DEF LossInv, D
  \* A plane that moves the setting takes the blame.
  <1>b. ASSUME planes[p].exp \in D, journal' = journal, planes'[p].exp = planes[p].exp,
               Unrestored(planes'[p])
        PROVE  Kept
    <2>1. PICK e : e = planes[p].exp
      OBVIOUS
    <2>2. e \in D1
      BY <1>b, <1>d, <2>1
    <2>3. ToBlame(e)'
      BY <1>b, <1>k, <1>u, <1>z, <2>1 DEF ToBlame
    <2> QED BY <2>2, <2>3
  <1> SUFFICES Kept
    BY <1>s DEF LossInv, D1
  <1>1. ASSUME NEW request \in Requests, Submit(p, request)
        PROVE  Kept
    <2>1. journal' = journal /\ knob' = knob
      BY <1>1 DEF Submit
    <2>2. planes'[p].exp = 0
      <3>1. planes[p].exp = 0
        BY <1>0, <1>1 DEF Submit, HoldsId
      <3>2. ~Begins(p)
        <4>1. planes'[p].pc # "preview"
          <5>1. \A reply : Return(p, reply) => planes'[p].pc = "idle"
            BY <1>0, LocalFields
          <5>2. planes' = [planes EXCEPT ![p] =
                    [Idle("none") EXCEPT
                       !.pc = "begin",
                       !.req = [val |-> request.val, lease |-> request.lease],
                       !.snap = ProviderSnapshot]] => planes'[p].pc = "begin"
            BY <1>0 DEF Idle
          <5> QED BY <1>1, <5>1, <5>2 DEF Submit
        <4> QED BY <4>1 DEF Begins
      <3> QED BY <1>k, <3>1, <3>2 DEF Kind, Outside, Works, Ends
    <2> QED BY <1>c, <1>d, <1>z, <2>1, <2>2
  <1>2. ASSUME BeginExperiment(p)
        PROVE  Kept
    <2>1. knob' = knob /\ planes[p].exp = 0
      BY <1>0, <1>2 DEF BeginExperiment, HoldsId
    <2>2. planes'[p].exp \in {0, NextId(journal)} /\ ~Ends(p)
      BY <1>k, <2>1 DEF Kind, Outside, Begins, Works, Ends
    <2>3. NextId(journal) \notin D
      <3>1. PICK n \in Nat : Ids(journal) = 1..n
        BY DEF TypeInv, GapFree
      <3> QED BY <1>z, <3>1, NextIdValue
    <2>4. D \subseteq D1
      BY <1>k, <2>2, DanglingKept DEF D, D1
    <2> QED BY <1>c, <1>z, <2>1, <2>2, <2>3, <2>4
  <1>3. ASSUME Preview(p) \/ RecordIntent(p)
        PROVE  Kept
    <2>1. /\ knob' = knob /\ planes'[p].exp = planes[p].exp
          /\ planes[p].pc \in {"preview", "intent"} /\ planes'[p].pc # "idle"
      BY <1>0, <1>3, SnapshotKept DEF Preview, RecordIntent, Record, RecordError
    <2>2. ~Unrestored(planes[p])
      BY <2>1 DEF Unrestored
    <2> QED BY <1>c, <1>d, <2>1, <2>2
  <1>4. ASSUME RecordApply(p) \/ Verify(p)
        PROVE  Kept
    <2>1. /\ knob' = knob /\ planes'[p].exp = planes[p].exp
          /\ planes'[p].pc \in {"verify", "rollback"}
      BY <1>0, <1>4, SnapshotKept DEF RecordApply, Verify, Record, RecordError
    <2>2. Unrestored(planes'[p])
      BY <2>1 DEF Unrestored
    <2> QED BY <1>c, <1>d, <2>1, <2>2
  <1>5. ASSUME Apply(p)
        PROVE  Kept
    <2>1. /\ journal' = journal /\ planes'[p].exp = planes[p].exp /\ planes[p].pc = "apply"
          /\ planes'[p].pc \in {"applied", "rollback"}
      BY <1>0, <1>5, SnapshotKept DEF Apply
    <2>2. planes[p].exp \in D
      BY <1>0, <2>1, HoldsLease DEF D, HistoryInv
    <2> QED BY <1>b, <2>1, <2>2 DEF Unrestored
  <1>6. ASSUME Rollback(p)
        PROVE  Kept
    <2>1. /\ journal' = journal /\ planes'[p].exp = planes[p].exp /\ planes[p].pc = "rollback"
      BY <1>0, <1>6, SnapshotKept DEF Rollback
    <2>2. \/ planes'[p].pc = "rolled"
          \/ planes'[p].pc = "outcome" /\ planes'[p].failure.stage = "rollback"
      BY <1>0, <1>6, LocalFields DEF Rollback
    <2>3. planes[p].exp \in D
      BY <1>0, <2>1, HoldsLease DEF D, HistoryInv
    <2> QED BY <1>b, <2>1, <2>2, <2>3 DEF Unrestored, RestoreStages
  <1>7. ASSUME RecordRollback(p)
        PROVE  Kept
    <2>1. knob' = knob /\ planes'[p].exp = planes[p].exp
      BY <1>0, <1>7, SnapshotKept DEF RecordRollback, Record
    <2>2. \/ planes'[p].pc = "check"
          \/ planes'[p].pc = "outcome" /\ planes'[p].failure.stage = "rollback"
      BY <1>0, <1>7, LocalFields DEF RecordRollback, Record
    <2>3. Unrestored(planes'[p])
      BY <2>2 DEF Unrestored, RestoreStages
    <2> QED BY <1>c, <1>d, <2>1, <2>2, <2>3
  <1>8. ASSUME RollbackVerify(p)
        PROVE  Kept
    <2>1. /\ knob' = knob /\ planes'[p].exp = planes[p].exp /\ planes'[p].pc = "outcome"
          /\ planes[p].pc = "check"
      BY <1>0, <1>8, SnapshotKept DEF RollbackVerify, Record
    <2>2. planes[p].exp # 0
      BY <1>0, <2>1 DEF HoldsId
    <2>3. knob = planes[p].snap \/ planes'[p].failure.stage = "rollback-verify"
      BY <1>0, <1>8, LocalFields DEF RollbackVerify, ProviderSnapshot
    <2>4. CASE knob = planes[p].snap
      <3>1. knob' # Baseline => OwnsUp(journal)
        BY <2>1, <2>2, <2>4 DEF LossInv
      <3> QED BY <1>o, <3>1
    <2>5. CASE planes'[p].failure.stage = "rollback-verify"
      <3>1. Unrestored(planes'[p])
        BY <2>1, <2>5 DEF Unrestored, RestoreStages
      <3> QED BY <1>c, <1>d, <2>1, <3>1
    <2> QED BY <2>3, <2>4, <2>5
  <1>9. ASSUME RecordOutcome(p)
        PROVE  Kept
    <2> DEFINE f == FailedRow(planes[p].exp, planes[p].failure.stage, planes[p].suppressed)
    <2>1. /\ knob' = knob /\ planes[p].pc = "outcome"
          /\ planes'[p].exp = 0 /\ planes'[p].pc = "idle"
      BY <1>0, <1>9, LocalFields DEF RecordOutcome
    <2>2. CASE journal' = journal
      BY <1>c, <1>d, <1>z, <2>1, <2>2
    <2>3. CASE ~Unrestored(planes[p])
      <3>1. ASSUME NEW e \in D, ToBlame(e) PROVE e \in D1 /\ ToBlame(e)'
        <4>1. e # planes[p].exp
          BY <2>3, <3>1 DEF ToBlame
        <4>2. e \in D1
          BY <1>d, <4>1
        <4>3. ToBlame(e)'
          BY <1>k, <1>z, <2>1, <3>1 DEF ToBlame
        <4> QED BY <4>2, <4>3
      <3> QED BY <1>o, <2>1, <3>1 DEF LossInv, D
    <2>4. CASE Unrestored(planes[p]) /\ journal' # journal
      <3>1. planes[p].failure.stage \in RestoreStages /\ planes[p].failure # NoFailure
        BY <2>1, <2>4 DEF Unrestored, NoFailure, RestoreStages
      <3>2. planes[p].exp # 0
        BY <1>0, <2>1 DEF HoldsId
      <3>3. f \in Rows /\ f.stage = "failed" /\ f.note = planes[p].failure.stage
        BY <1>0, <3>2, PlaneRows
      <3>4. journal' = journal \o <<f>>
        BY <1>9, <2>4, <3>1 DEF RecordOutcome, Insert
      <3> HIDE DEF f
      <3>5. OwnsUp(journal')
        BY <1>0, <3>1, <3>3, <3>4, OwnsUpAfter
      <3> QED BY <3>5
    <2> QED BY <2>2, <2>3, <2>4
  <1>10. ASSUME Crash(p)
        PROVE  Kept
    <2>1. journal' = journal /\ knob' = knob /\ planes'[p].exp = 0
      BY <1>0, <1>10, LocalFields DEF Crash
    <2> QED BY <1>c, <1>d, <1>z, <2>1
  <1> QED BY <1>1, <1>2, <1>3, <1>4, <1>5, <1>6, <1>7, <1>8, <1>9, <1>10 DEF Continue

\* However many planes drive one setting at once, and whatever fails, a host off
\* its baseline has an unclosed experiment to find, or the journal says how the
\* baseline was lost: no interleaving loses it in silence (run_lifecycle).
THEOREM LossVisible == PlaneSpec => []LossIsVisible
  <1>1. HostInit /\ PlaneInit => LossInv
    BY DEF HostInit, PlaneInit, Idle, LossInv
  <1>2. TypeInv /\ HistoryInv /\ RecordsInv /\ LossInv /\ [PlaneNext]_planeVars => LossInv'
    <2>1. ASSUME TypeInv, HistoryInv, RecordsInv, LossInv, PlaneNext PROVE LossInv'
      BY <2>1, LossStep DEF PlaneNext
    <2>2. ASSUME LossInv, UNCHANGED planeVars PROVE LossInv'
      BY <2>2 DEF LossInv, OwnsUp, ToBlame, planeVars, hostVars
    <2> QED BY <2>1, <2>2
  <1>3. LossInv => LossIsVisible
    BY DEF LossInv, LossIsVisible, OwnsUp, RestoreStages
  <1> QED BY <1>1, <1>2, <1>3, TypeInvariance, HistoryInvariance, RecordsInvariance, PTL
          DEF PlaneSpec, PlanesInit

-----------------------------------------------------------------------------
\* The oldest leak holds the baseline

\* The experiment of the only plane is the newest one: no other allocates IDs.
OwnsNewest ==
    \A p \in Planes : planes[p].exp # 0 => \A e \in Ids(journal) : e <= planes[p].exp

\* A leaked experiment that snapshotted a leak has an older leak before it.
OlderLeakFirst ==
    \A k \in DOMAIN journal :
        /\ journal[k].stage = "snapshot" /\ journal[k].val # Baseline
        /\ journal[k].exp \in Dangling(journal)
        => \E d \in Dangling(journal) : d < journal[k].exp

OldestInv == OwnsNewest /\ OlderLeakFirst

\* The inductive step, for the only plane p.
LEMMA OldestStep ==
    ASSUME TypeInv, HistoryInv, RecordsInv, LeakInv, OldestInv, NEW p, Planes = {p}, Kind(p)
    PROVE  OldestInv'
  <1> DEFINE D == Dangling(journal)
             e0 == planes[p].exp
  <1>0. /\ p \in Planes /\ journal \in Seq(Rows) /\ planes[p] \in PlaneStates /\ HoldsId(p)
        /\ Progress(p) /\ OlderLeak(p)
    BY DEF TypeInv, PlaneTypeOK, RecordsInv, LeakInv
  <1>n. PICK n \in Nat : Ids(journal) = 1..n
    BY DEF TypeInv, GapFree
  <1>m. /\ \A e \in D : e \in 1..n
        /\ e0 # 0 => e0 = n
    BY <1>0, <1>n DEF Dangling, HoldsId, OldestInv, OwnsNewest
  <1>1. CASE journal' = journal /\ planes'[p].exp \in {0, planes[p].exp}
    BY <1>1 DEF OldestInv, OwnsNewest, OlderLeakFirst
  <1>2. CASE Begins(p)
    <2> DEFINE r == SnapshotRow(NextId(journal), planes[p].snap)
    <2>1. NextId(journal) = n + 1 /\ NextId(journal) \in Nat \ {0} /\ planes[p].snap \in Settings
      BY <1>0, <1>n, NextIdValue DEF PlaneStates
    <2>2. r \in Rows
      BY <2>1, RowTypes
    <2>3. r.exp = n + 1 /\ r.stage = "snapshot"
      BY <2>1 DEF SnapshotRow, Row
    <2>4. journal' = journal \o <<r>> /\ planes'[p].exp = n + 1
      BY <1>2, <2>1 DEF Begins
    <2> HIDE DEF r
    <2>5. Dangling(journal') = D
      BY <1>0, <2>2, <2>3, <2>4, LeasesAfter DEF Terminal
    <2>6. /\ DOMAIN journal = 1..Len(journal) /\ DOMAIN journal' = 1..(Len(journal) + 1)
          /\ Len(journal) \in Nat /\ \A i \in DOMAIN journal : journal'[i] = journal[i]
          /\ journal'[Len(journal) + 1] = r
          /\ Ids(journal') = Ids(journal) \cup {r.exp}
      BY <1>0, <2>2, <2>4, Inserted
    <2>7. OwnsNewest'
      BY <1>n, <2>3, <2>4, <2>6 DEF OwnsNewest
    <2>8. OlderLeakFirst'
      <3>1. ASSUME NEW k \in DOMAIN journal', journal'[k].stage = "snapshot",
                   journal'[k].val # Baseline, journal'[k].exp \in D
            PROVE  \E d \in D : d < journal'[k].exp
        <4>1. k # Len(journal) + 1
          BY <1>m, <2>3, <2>6, <3>1
        <4>2. k \in DOMAIN journal /\ journal'[k] = journal[k]
          BY <2>6, <4>1
        <4> QED BY <3>1, <4>2 DEF OldestInv, OlderLeakFirst
      <3> QED BY <2>5, <3>1 DEF OlderLeakFirst
    <2> QED BY <2>7, <2>8 DEF OldestInv
  <1>3. ASSUME NEW r \in Rows, r.exp = e0, e0 # 0, r.stage # "snapshot",
               journal' = journal \o <<r>>, planes'[p].exp \in {0, e0}
        PROVE  OldestInv'
    <2>1. /\ DOMAIN journal = 1..Len(journal) /\ DOMAIN journal' = 1..(Len(journal) + 1)
          /\ Len(journal) \in Nat /\ \A i \in DOMAIN journal : journal'[i] = journal[i]
          /\ journal'[Len(journal) + 1] = r
          /\ Ids(journal') = Ids(journal) \cup {r.exp}
      BY <1>0, <1>3, Inserted
    <2>2. OwnsNewest'
      BY <1>m, <1>n, <1>3, <2>1 DEF OwnsNewest
    <2>3. ASSUME NEW k \in DOMAIN journal', journal'[k].stage = "snapshot",
                 journal'[k].val # Baseline, journal'[k].exp \in Dangling(journal')
          PROVE  \E d \in Dangling(journal') : d < journal'[k].exp
      <3>1. k \in DOMAIN journal /\ journal'[k] = journal[k]
        BY <1>3, <2>1, <2>3
      <3>2. CASE r.stage \notin Terminal \cup {"apply-intent"}
        <4>1. Dangling(journal') = D
          BY <1>0, <1>3, <3>2, LeasesAfter
        <4> QED BY <2>3, <3>1, <4>1 DEF OldestInv, OlderLeakFirst
      <3>3. CASE r.stage = "apply-intent"
        <4>1. ~Closed(journal, e0)
          BY <1>0, <1>3 DEF HistoryInv, WorksOnOpen
        <4>2. Dangling(journal') = D \cup {e0}
          BY <1>0, <1>3, <3>3, <4>1, LeasesAfter
        <4>3. CASE journal[k].exp = e0
          <5>1. planes[p].snap # Baseline
            BY <1>0, <1>3, <2>3, <3>1, <4>3 DEF Progress, Snapshotted
          <5>2. planes[p].pc # "idle"
            BY <1>0, <1>3 DEF HoldsId
          <5>3. PICK e \in D : e # e0
            BY <1>0, <5>1, <5>2 DEF OlderLeak
          <5>4. e < e0
            BY <1>m, <1>3, <5>3
          <5> QED BY <3>1, <4>2, <4>3, <5>3, <5>4
        <4>4. CASE journal[k].exp # e0
          BY <2>3, <3>1, <4>2, <4>4 DEF OldestInv, OlderLeakFirst
        <4> QED BY <4>3, <4>4
      <3>4. CASE r.stage \in Terminal
        <4>1. Dangling(journal') = D \ {e0}
          BY <1>0, <1>3, <3>4, LeasesAfter
        <4>2. PICK d \in D : d < journal[k].exp
          BY <2>3, <3>1, <4>1 DEF OldestInv, OlderLeakFirst
        <4>3. journal[k].exp \in 1..n /\ d \in 1..n
          BY <1>m, <2>3, <3>1, <4>1
        <4>4. d # e0
          BY <1>m, <1>3, <4>2, <4>3
        <4> QED BY <3>1, <4>1, <4>2, <4>4
      <3> QED BY <3>2, <3>3, <3>4
    <2> QED BY <2>2, <2>3 DEF OldestInv, OlderLeakFirst
  <1>4. "snapshot" \notin Terminal
    BY DEF Terminal
  <1> QED BY <1>1, <1>2, <1>3, <1>4 DEF Kind, Outside, Works, Ends

\* The scan selects every intent of an open experiment, with its snapshot.
LEMMA Selected ==
    ASSUME NEW rows, NEW time, NEW i \in DOMAIN rows, NEW k \in DOMAIN rows,
           rows[i].stage = "apply-intent", rows[k].stage = "snapshot",
           rows[i].exp = rows[k].exp, ~Closed(rows, rows[i].exp)
    PROVE  [exp |-> rows[i].exp, snap |-> rows[k].val,
            expired |-> LeaseExpired(Age(rows[i].at, time), rows[i].lease)]
              \in UnclosedExperiments(rows, time)
  <1>1. <<i, k>> \in (DOMAIN rows) \X (DOMAIN rows) /\ <<i, k>>[1] = i /\ <<i, k>>[2] = k
    OBVIOUS
  <1> QED BY <1>1 DEF UnclosedExperiments

\* With one plane whose provider can roll back, the oldest experiment a recovery
\* pass selects is one whose snapshot is the true baseline, however many crashed
\* experiments captured a leaked setting after it (unclosed_experiments).
THEOREM OldestHoldsBaseline ==
    ASSUME NEW CONSTANT p, Planes = {p}, "rollback" \notin Faults
    PROVE  PlaneSpec => []OldestLeakHoldsBaseline
  <1>1. HostInit /\ PlaneInit => OldestInv
    BY DEF HostInit, PlaneInit, Idle, OldestInv, OwnsNewest, OlderLeakFirst
  <1>2. TypeInv /\ HistoryInv /\ RecordsInv /\ LeakInv /\ OldestInv /\ [PlaneNext]_planeVars
           => OldestInv'
    <2>1. ASSUME TypeInv, HistoryInv, RecordsInv, LeakInv, OldestInv, PlaneNext PROVE OldestInv'
      <3>1. Kind(p)
        BY <2>1, StepKind DEF PlaneNext
      <3> QED BY <2>1, <3>1, OldestStep
    <2>2. ASSUME OldestInv, UNCHANGED planeVars PROVE OldestInv'
      BY <2>2 DEF OldestInv, OwnsNewest, OlderLeakFirst, planeVars, hostVars
    <2> QED BY <2>1, <2>2
  <1>3. TypeInv /\ HistoryInv /\ OldestInv => OldestLeakHoldsBaseline
    <2> SUFFICES ASSUME TypeInv, HistoryInv, OldestInv,
                        NEW c \in UnclosedExperiments(journal, now),
                        \A d \in UnclosedExperiments(journal, now) : c.exp <= d.exp,
                        c.snap # Baseline
                 PROVE  FALSE
      BY DEF OldestLeakHoldsBaseline
    <2>1. PICK i, k \in DOMAIN journal :
             /\ journal[i].stage = "apply-intent" /\ journal[k].stage = "snapshot"
             /\ journal[i].exp = journal[k].exp /\ ~Closed(journal, journal[i].exp)
             /\ c.exp = journal[i].exp /\ c.snap = journal[k].val
      BY DEF UnclosedExperiments
    <2>2. c.exp \in Dangling(journal)
      BY <2>1 DEF Dangling, Ids, HasStage
    <2>3. PICK d \in Dangling(journal) : d < c.exp
      BY <2>1, <2>2 DEF OldestInv, OlderLeakFirst
    <2>4. d \in Ids(journal) /\ ~Closed(journal, d)
          /\ HasStage(journal, d, {"apply-intent"}) /\ HasStage(journal, d, {"snapshot"})
      BY DEF Dangling, HistoryInv, UniqueCorrelation
    <2>5. PICK a, b \in DOMAIN journal :
             /\ journal[a].exp = d /\ journal[a].stage = "apply-intent"
             /\ journal[b].exp = d /\ journal[b].stage = "snapshot"
      BY <2>4 DEF HasStage
    <2>6. \E u \in UnclosedExperiments(journal, now) : u.exp = d
      <3> DEFINE u == [exp |-> journal[a].exp, snap |-> journal[b].val,
                       expired |-> LeaseExpired(Age(journal[a].at, now), journal[a].lease)]
      <3>1. u \in UnclosedExperiments(journal, now)
        BY <2>4, <2>5, Selected
      <3>2. u.exp = d
        BY <2>5
      <3> HIDE DEF u
      <3> QED BY <3>1, <3>2
    <2>7. PICK u \in UnclosedExperiments(journal, now) : u.exp = d
      BY <2>6
    <2>8. c.exp <= u.exp
      OBVIOUS
    <2>9. c.exp \in Nat /\ d \in Nat
      BY <2>2, <2>4 DEF TypeInv, GapFree, Dangling
    <2> QED BY <2>3, <2>7, <2>8, <2>9
  <1>4. PlaneSpec => []LeakInv
    BY LeakInvariance
  <1> QED BY <1>1, <1>2, <1>3, <1>4, TypeInvariance, HistoryInvariance, RecordsInvariance, PTL
          DEF PlaneSpec, PlanesInit
=============================================================================
