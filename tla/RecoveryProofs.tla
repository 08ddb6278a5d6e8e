--------------------------- MODULE RecoveryProofs ----------------------------
(***************************************************************************)
(* Control planes and watchdogs together, for any number of each: what the *)
(* journal keeps to whoever reclaims an experiment, and what the operating *)
(* discipline adds for the plane and the polling watchdog of one host.     *)
(***************************************************************************)
EXTENDS Recovery, ControlPlaneProofs, WellFoundedInduction, FiniteSetTheorems

-----------------------------------------------------------------------------
\* The candidate at hand

\* A set of natural numbers that is not empty has a least one.
LEMMA LeastNat ==
    ASSUME NEW T, T \subseteq Nat, T # {}
    PROVE  \E x \in T : \A y \in T : x <= y
  <1>1. \E x \in T : \A y \in T : ~(<<y, x>> \in OpToRel(<, Nat))
    BY NatLessThanWellFounded, WFMin
  <1>2. PICK x \in T : \A y \in T : ~(<<y, x>> \in OpToRel(<, Nat))
    BY <1>1
  <1>3. ASSUME NEW y \in T PROVE x <= y
    <2>1. x \in Nat /\ y \in Nat
      OBVIOUS
    <2>2. ~(y < x)
      BY <1>2, <2>1 DEF OpToRel
    <2> QED BY <2>1, <2>2
  <1> QED BY <1>2, <1>3

\* The watchdog works on a candidate of its scan (ORDER BY experiment_id).
LEMMA CurrentChosen ==
    ASSUME NEW w \in Watchdogs, dogs[w].todo \subseteq Candidates, dogs[w].todo # {}
    PROVE  Current(w) \in dogs[w].todo
  <1> DEFINE T == {c.exp : c \in dogs[w].todo}
  <1>1. T \subseteq Nat /\ T # {}
    BY DEF Candidates
  <1>2. PICK x \in T : \A y \in T : x <= y
    BY <1>1, LeastNat
  <1>3. \E c \in dogs[w].todo : \A d \in dogs[w].todo : c.exp <= d.exp
    BY <1>2
  <1> QED BY <1>3 DEF Current

-----------------------------------------------------------------------------
\* The rows of a watchdog

\* A pass adds rows of the watchdog to experiments the journal knows, or none.
Reclaimed ==
    /\ journal' \in Seq(Rows)
    /\ Len(journal) \in Nat /\ DOMAIN journal = 1..Len(journal)
    /\ \E m \in Nat : DOMAIN journal' = 1..(Len(journal) + m)
    /\ \A i \in DOMAIN journal : journal'[i] = journal[i]
    /\ \A i \in DOMAIN journal' \ DOMAIN journal :
          /\ journal'[i].exp \in Ids(journal)
          /\ journal'[i].stage \in {"watchdog-restore", "failed"}
          /\ journal'[i].note \notin RestoreStages

\* A scan finds rows of the table (unclosed_experiments).
LEMMA ScanTypes ==
    ASSUME journal \in Seq(Rows), now \in Nat, NEW c \in UnclosedExperiments(journal, now)
    PROVE  /\ c \in Candidates /\ c.exp \in Dangling(journal)
           /\ \E i, k \in DOMAIN journal :
                 /\ journal[i].stage = "apply-intent" /\ journal[k].stage = "snapshot"
                 /\ journal[i].exp = c.exp /\ journal[k].exp = c.exp
                 /\ c = [exp |-> journal[i].exp, snap |-> journal[k].val,
                         expired |-> LeaseExpired(Age(journal[i].at, now), journal[i].lease)]
  <1>1. PICK i, k \in DOMAIN journal :
             /\ journal[i].stage = "apply-intent" /\ journal[k].stage = "snapshot"
             /\ journal[i].exp = journal[k].exp /\ ~Closed(journal, journal[i].exp)
             /\ c = [exp |-> journal[i].exp, snap |-> journal[k].val,
                     expired |-> LeaseExpired(Age(journal[i].at, now), journal[i].lease)]
    BY DEF UnclosedExperiments
  <1>2. journal[i] \in Rows /\ journal[k] \in Rows
    OBVIOUS
  <1>3. journal[i].exp \in Nat \ {0} /\ journal[k].val \in Settings
    BY <1>2 DEF Rows
  <1>4. LeaseExpired(Age(journal[i].at, now), journal[i].lease) \in BOOLEAN
    BY DEF LeaseExpired
  <1>5. c \in Candidates
    BY <1>1, <1>3, <1>4 DEF Candidates
  <1>6. c.exp = journal[i].exp
    BY <1>1
  <1>7. c.exp \in Dangling(journal)
    BY <1>1, <1>6 DEF Dangling, Ids, HasStage
  <1> QED BY <1>1, <1>5, <1>6, <1>7

\* The watchdog rows are rows of the table (record_success, record_failure).
LEMMA DogRows ==
    ASSUME NEW c \in Candidates, now \in Nat
    PROVE  /\ \A note \in Notes :
                 LET r == RestoreRow(c.exp, c.snap, Reason(c), note, now)
                 IN  r \in Rows /\ r.exp = c.exp /\ r.stage = "watchdog-restore" /\ r.note = note
           /\ LET r == FailedRow(c.exp, "watchdog", Reason(c))
              IN  r \in Rows /\ r.exp = c.exp /\ r.stage = "failed" /\ r.note = "watchdog"
  <1>1. c.exp \in Nat \ {0} /\ c.snap \in Settings
    BY DEF Candidates
  <1>2. /\ Reason(c) \in Whys /\ "watchdog" \in Notes /\ 0 \in Nat
        /\ "watchdog-restore" \in Stages
    BY DEF Reason, Whys, Reasons, Notes, Stages
  <1>3. FailedRow(c.exp, "watchdog", Reason(c)) \in Rows
    BY <1>1, <1>2, RowTypes
  <1>4. LET r == FailedRow(c.exp, "watchdog", Reason(c))
        IN  r \in Rows /\ r.exp = c.exp /\ r.stage = "failed" /\ r.note = "watchdog"
    BY <1>3 DEF FailedRow, Row
  <1>5. ASSUME NEW note \in Notes
        PROVE  LET r == RestoreRow(c.exp, c.snap, Reason(c), note, now)
               IN  r \in Rows /\ r.exp = c.exp /\ r.stage = "watchdog-restore" /\ r.note = note
    BY <1>1, <1>2, <1>5 DEF RestoreRow, Row, Rows
  <1> QED BY <1>4, <1>5

\* Where each watchdog is in its pass.
DogInv(w) ==
    /\ dogs[w].pc = "asleep" <=> dogs[w].todo = {}
    /\ \A c \in dogs[w].todo : c.exp \in Ids(journal)

DogsInv == WatchdogTypeOK /\ \A w \in Watchdogs : DogInv(w)

DogStates == [pc : WatchdogPCs, todo : SUBSET Candidates, error : RestoreErrors \cup {"none"}]

\* Only watchdog w moves, and stays in a pass exactly while it has candidates.
Follows(w) ==
    /\ dogs' \in [Watchdogs -> DogStates]
    /\ \A v \in Watchdogs : v # w => dogs'[v] = dogs[v]
    /\ dogs'[w].pc = "asleep" <=> dogs'[w].todo = {}

\* The helpers that move a watchdog (reclaim's loop over its scan).
LEMMA DogMoves ==
    ASSUME DogsInv, NEW w \in Watchdogs
    PROVE  /\ \A todo \in SUBSET Candidates : Pass(w, todo) =>
                 Follows(w) /\ dogs'[w].todo = todo /\ dogs'[w].pc \in {"asleep", "rollback"}
           /\ \A pc \in WatchdogPCs \ {"asleep"}, error \in RestoreErrors \cup {"none"} :
                 WGoto(w, pc, error) /\ dogs[w].todo # {} =>
                 /\ Follows(w) /\ dogs'[w].todo = dogs[w].todo
                 /\ dogs'[w].pc = pc /\ dogs'[w].error = error
  <1>0. dogs \in [Watchdogs -> DogStates] /\ dogs[w] \in DogStates
    BY DEF DogsInv, WatchdogTypeOK, DogStates
  <1>1. ASSUME NEW todo \in SUBSET Candidates, Pass(w, todo)
        PROVE  Follows(w) /\ dogs'[w].todo = todo /\ dogs'[w].pc \in {"asleep", "rollback"}
    <2>1. CASE todo = {}
      <3>1. Asleep \in DogStates /\ Asleep.pc = "asleep" /\ Asleep.todo = {}
        BY DEF Asleep, DogStates, WatchdogPCs
      <3>2. dogs' = [dogs EXCEPT ![w] = Asleep]
        BY <1>1, <2>1 DEF Pass
      <3> QED BY <1>0, <2>1, <3>1, <3>2 DEF Follows
    <2>2. CASE todo # {}
      <3> DEFINE s == [pc |-> "rollback", todo |-> todo, error |-> "none"]
      <3>1. s \in DogStates /\ s.pc = "rollback" /\ s.todo = todo
        BY DEF DogStates, WatchdogPCs
      <3>2. dogs' = [dogs EXCEPT ![w] = s]
        BY <1>1, <2>2 DEF Pass
      <3> HIDE DEF s
      <3> QED BY <1>0, <2>2, <3>1, <3>2 DEF Follows
    <2> QED BY <2>1, <2>2
  <1>2. ASSUME NEW pc \in WatchdogPCs \ {"asleep"}, NEW error \in RestoreErrors \cup {"none"},
               WGoto(w, pc, error), dogs[w].todo # {}
        PROVE  /\ Follows(w) /\ dogs'[w].todo = dogs[w].todo
               /\ dogs'[w].pc = pc /\ dogs'[w].error = error
    BY <1>0, <1>2 DEF WGoto, Follows, DogStates
  <1> QED BY <1>1, <1>2

\* An unchanged journal, and one or two rows of the watchdog.
LEMMA ReclaimedRows ==
    ASSUME journal \in Seq(Rows), NEW e \in Ids(journal)
    PROVE  /\ journal' = journal => Reclaimed
           /\ \A r \in Rows :
                 /\ r.exp = e /\ r.stage = "watchdog-restore" /\ r.note \notin RestoreStages
                 /\ journal' = journal \o <<r>>
                 => Reclaimed
           /\ \A r, t \in Rows :
                 /\ r.exp = e /\ r.stage = "watchdog-restore" /\ r.note \notin RestoreStages
                 /\ t.exp = e /\ t.stage = "failed" /\ t.note \notin RestoreStages
                 /\ journal' = journal \o <<r, t>>
                 => Reclaimed
  <1>0. Len(journal) \in Nat /\ DOMAIN journal = 1..Len(journal)
    OBVIOUS
  <1>1. ASSUME journal' = journal PROVE Reclaimed
    <2>1. DOMAIN journal' = 1..(Len(journal) + 0) /\ 0 \in Nat
      BY <1>0, <1>1
    <2> QED BY <1>0, <1>1, <2>1 DEF Reclaimed
  <1>2. ASSUME NEW r \in Rows, r.exp = e, r.stage = "watchdog-restore", r.note \notin RestoreStages,
               journal' = journal \o <<r>>
        PROVE  Reclaimed
    <2>1. /\ journal' \in Seq(Rows) /\ DOMAIN journal' = 1..(Len(journal) + 1)
          /\ \A i \in DOMAIN journal : journal'[i] = journal[i]
          /\ journal'[Len(journal) + 1] = r
      BY <1>2, AppendRow
    <2>2. \A i \in DOMAIN journal' \ DOMAIN journal : i = Len(journal) + 1
      BY <1>0, <2>1
    <2> QED BY <1>0, <1>2, <2>1, <2>2 DEF Reclaimed
  <1>3. ASSUME NEW r \in Rows, NEW t \in Rows,
               r.exp = e, r.stage = "watchdog-restore", r.note \notin RestoreStages,
               t.exp = e, t.stage = "failed", t.note \notin RestoreStages,
               journal' = journal \o <<r, t>>
        PROVE  Reclaimed
    <2>1. /\ journal' \in Seq(Rows) /\ DOMAIN journal' = 1..(Len(journal) + 2)
          /\ \A i \in DOMAIN journal : journal'[i] = journal[i]
          /\ journal'[Len(journal) + 1] = r /\ journal'[Len(journal) + 2] = t
      BY <1>3
    <2>2. \A i \in DOMAIN journal' \ DOMAIN journal : i \in {Len(journal) + 1, Len(journal) + 2}
      BY <1>0, <2>1
    <2> QED BY <1>0, <1>3, <2>1, <2>2 DEF Reclaimed
  <1> QED BY <1>1, <1>2, <1>3

\* A watchdog step keeps to the rows of the watchdog and to what its scan saw.
LEMMA DogStep ==
    ASSUME TypeInv, DogsInv, NEW w \in Watchdogs, Reclaim(w) \/ WatchdogCrash(w)
    PROVE  /\ Reclaimed /\ Follows(w)
           /\ knob' \in Settings /\ now' = now /\ faults' \in 0..MaxFaults
           /\ dogs[w].pc # "asleep" => dogs'[w].todo \subseteq dogs[w].todo
           /\ dogs[w].pc = "asleep" => dogs'[w].todo \subseteq
                 {c \in UnclosedExperiments(journal, now) : SelectedBy(Policy[w], c)}
  <1> DEFINE cur == Current(w)
             Good == /\ Reclaimed /\ Follows(w)
                     /\ knob' \in Settings /\ now' = now /\ faults' \in 0..MaxFaults
                     /\ dogs[w].pc # "asleep" => dogs'[w].todo \subseteq dogs[w].todo
                     /\ dogs[w].pc = "asleep" => dogs'[w].todo \subseteq
                           {c \in UnclosedExperiments(journal, now) : SelectedBy(Policy[w], c)}
  <1>0. /\ journal \in Seq(Rows) /\ now \in Nat /\ knob \in Settings /\ faults \in 0..MaxFaults
        /\ dogs[w] \in DogStates /\ DogInv(w)
    BY DEF TypeInv, PlaneTypeOK, DogsInv, WatchdogTypeOK, DogStates
  <1>t. dogs[w].todo \subseteq Candidates /\ dogs[w].error \in RestoreErrors \cup {"none"}
    BY <1>0 DEF DogStates
  <1>c. dogs[w].pc # "asleep" =>
           /\ dogs[w].todo # {} /\ cur \in dogs[w].todo /\ cur \in Candidates
           /\ cur.exp \in Ids(journal) /\ cur.snap \in Settings
    BY <1>0, <1>t, CurrentChosen DEF DogInv, Candidates
  <1>u. journal' = journal => Reclaimed
    <2>1. Len(journal) \in Nat /\ DOMAIN journal = 1..Len(journal)
      BY <1>0
    <2>2. 0 \in Nat /\ 1..Len(journal) = 1..(Len(journal) + 0)
      BY <2>1
    <2> QED BY <1>0, <2>1, <2>2 DEF Reclaimed
  <1>f. NoFault \/ faults' = faults \/ (\E kind : Fault(kind)) => faults' \in 0..MaxFaults
    BY <1>0, FaultTypes DEF NoFault
  <1>p. \A todo \in SUBSET Candidates : Pass(w, todo) => Follows(w) /\ dogs'[w].todo = todo
    BY DogMoves
  <1>g. \A pc \in WatchdogPCs \ {"asleep"}, error \in RestoreErrors \cup {"none"} :
           WGoto(w, pc, error) /\ dogs[w].todo # {} => Follows(w) /\ dogs'[w].todo = dogs[w].todo
    BY DogMoves
  <1>a. AbortPass(w) => /\ Reclaimed /\ Follows(w) /\ dogs'[w].todo = {}
                        /\ faults' \in 0..MaxFaults
    BY <1>f, <1>p, <1>u DEF AbortPass
  <1>n. dogs[w].todo \ {cur} \in SUBSET Candidates
    BY <1>t
  <1> HIDE DEF cur
  <1>1. ASSUME Scan(w) PROVE Good
    <2>1. knob' = knob /\ now' = now /\ dogs[w].pc = "asleep"
      BY <1>1 DEF Scan
    <2> DEFINE T == {c \in UnclosedExperiments(journal, now) : SelectedBy(Policy[w], c)}
    <2>2. T \in SUBSET Candidates
      BY <1>0, ScanTypes
    <2> HIDE DEF T
    <2>3. CASE Pass(w, T) /\ UNCHANGED <<journal, faults>>
      BY <1>0, <1>p, <1>u, <2>1, <2>2, <2>3 DEF T
    <2>4. CASE AbortPass(w)
      BY <1>0, <1>a, <2>1, <2>4
    <2> QED BY <1>1, <2>3, <2>4 DEF Scan, T
  <1>2. ASSUME ReclaimRollback(w) PROVE Good
    <2>1. journal' = journal /\ now' = now /\ dogs[w].pc = "rollback"
      BY <1>2 DEF ReclaimRollback
    <2>2. {"check", "failure"} \subseteq WatchdogPCs \ {"asleep"}
          /\ "rollback-error" \in RestoreErrors
      BY DEF WatchdogPCs, RestoreErrors
    <2>3. knob' \in Settings /\ faults' \in 0..MaxFaults
      BY <1>0, <1>c, <1>f, <1>2, <2>1
         DEF ReclaimRollback, ProviderRollback, ProviderCorruptRollback, cur
    <2>4. Follows(w) /\ dogs'[w].todo = dogs[w].todo
      BY <1>c, <1>g, <1>2, <2>1, <2>2 DEF ReclaimRollback
    <2> QED BY <1>u, <2>1, <2>3, <2>4
  <1>3. ASSUME ReclaimCheck(w) PROVE Good
    <2>1. journal' = journal /\ now' = now /\ knob' = knob /\ dogs[w].pc = "check"
      BY <1>3 DEF ReclaimCheck
    <2>2. {"success", "failure"} \subseteq WatchdogPCs \ {"asleep"}
          /\ {"mismatch", "probe-error"} \subseteq RestoreErrors
      BY DEF WatchdogPCs, RestoreErrors
    <2>3. faults' \in 0..MaxFaults
      BY <1>f, <1>3 DEF ReclaimCheck
    <2>4. Follows(w) /\ dogs'[w].todo = dogs[w].todo
      BY <1>c, <1>g, <1>3, <2>1, <2>2 DEF ReclaimCheck
    <2> QED BY <1>0, <1>u, <2>1, <2>3, <2>4
  <1>4. ASSUME RecordSuccess(w) PROVE Good
    <2>1. now' = now /\ knob' = knob /\ dogs[w].pc = "success"
      BY <1>4 DEF RecordSuccess
    <2> DEFINE r == RestoreRow(cur.exp, cur.snap, Reason(cur), "restored", now)
               f == FailedRow(cur.exp, "watchdog", Reason(cur))
    <2>2. "restored" \in Notes /\ "restored" \notin RestoreStages /\ "watchdog" \notin RestoreStages
      BY DEF Notes, RestoreStages
    <2>3. /\ r \in Rows /\ r.exp = cur.exp /\ r.stage = "watchdog-restore" /\ r.note = "restored"
          /\ f \in Rows /\ f.exp = cur.exp /\ f.stage = "failed" /\ f.note = "watchdog"
      BY <1>0, <1>c, <2>1, <2>2, DogRows
    <2> HIDE DEF r, f
    <2>4. CASE journal' = journal \o <<r, f>> /\ NextCandidate(w) /\ NoFault
      <3>1. Reclaimed
        BY <1>0, <1>c, <2>1, <2>2, <2>3, <2>4, ReclaimedRows
      <3>2. Follows(w) /\ dogs'[w].todo = dogs[w].todo \ {cur}
        BY <1>n, <1>p, <2>4 DEF NextCandidate, cur
      <3> QED BY <1>0, <1>f, <2>1, <2>4, <3>1, <3>2
    <2>5. CASE AbortPass(w)
      BY <1>0, <1>a, <2>1, <2>5
    <2> QED BY <1>4, <2>4, <2>5 DEF RecordSuccess, Insert, r, f, cur
  <1>5. ASSUME RecordFailure(w) PROVE Good
    <2>1. now' = now /\ knob' = knob /\ dogs[w].pc = "failure"
      BY <1>5 DEF RecordFailure
    <2>2. CASE AbortPass(w)
      BY <1>0, <1>a, <2>1, <2>2
    <2>3. CASE NextCandidate(w) /\ UNCHANGED <<journal, faults>>
      <3>1. Follows(w) /\ dogs'[w].todo = dogs[w].todo \ {cur}
        BY <1>n, <1>p, <2>3 DEF NextCandidate, cur
      <3> QED BY <1>0, <1>u, <2>1, <2>3, <3>1
    <2>4. CASE WGoto(w, "append", dogs[w].error) /\ UNCHANGED <<journal, faults>>
      <3>1. "append" \in WatchdogPCs \ {"asleep"}
        BY DEF WatchdogPCs
      <3>2. Follows(w) /\ dogs'[w].todo = dogs[w].todo
        BY <1>c, <1>g, <1>t, <2>1, <2>4, <3>1
      <3> QED BY <1>0, <1>u, <2>1, <2>4, <3>2
    <2> QED BY <1>5, <2>2, <2>3, <2>4 DEF RecordFailure
  <1>6. ASSUME AppendFailure(w) PROVE Good
    <2>1. now' = now /\ knob' = knob /\ dogs[w].pc = "append"
      BY <1>6 DEF AppendFailure
    <2> DEFINE r == RestoreRow(cur.exp, cur.snap, Reason(cur), dogs[w].error, now)
    <2>2. dogs[w].error \in Notes /\ dogs[w].error \notin RestoreStages
      BY <1>t DEF Notes, RestoreStages, RestoreErrors
    <2>3. r \in Rows /\ r.exp = cur.exp /\ r.stage = "watchdog-restore" /\ r.note = dogs[w].error
      BY <1>0, <1>c, <2>1, <2>2, DogRows
    <2> HIDE DEF r
    <2>4. CASE journal' = journal \o <<r>> /\ NextCandidate(w) /\ NoFault
      <3>1. Reclaimed
        BY <1>0, <1>c, <2>1, <2>2, <2>3, <2>4, ReclaimedRows
      <3>2. Follows(w) /\ dogs'[w].todo = dogs[w].todo \ {cur}
        BY <1>n, <1>p, <2>4 DEF NextCandidate, cur
      <3> QED BY <1>0, <1>f, <2>1, <2>4, <3>1, <3>2
    <2>5. CASE AbortPass(w)
      BY <1>0, <1>a, <2>1, <2>5
    <2> QED BY <1>6, <2>4, <2>5 DEF AppendFailure, Insert, r, cur
  <1>7. ASSUME WatchdogCrash(w) PROVE Good
    <2>1. /\ now' = now /\ knob' = knob /\ journal' = journal /\ dogs[w].pc # "asleep"
          /\ faults' \in 0..MaxFaults
      BY <1>f, <1>7 DEF WatchdogCrash
    <2>2. Follows(w) /\ dogs'[w].todo = {}
      BY <1>p, <1>7 DEF WatchdogCrash
    <2> QED BY <1>0, <1>u, <2>1, <2>2
  <1> QED BY <1>1, <1>2, <1>3, <1>4, <1>5, <1>6, <1>7 DEF Reclaim

-----------------------------------------------------------------------------
\* What the journal keeps to, whoever reclaims an experiment

\* An experiment has one intent: its lease is read from one row.
IntentOnce ==
    \A i, k \in DOMAIN journal :
        /\ journal[i].stage = "apply-intent" /\ journal[k].stage = "apply-intent"
        /\ journal[i].exp = journal[k].exp
        => i = k

SharedInv == TypeInv /\ DogsInv /\ UniqueCorrelation /\ RecordsInv /\ IntentOnce

\* Rows of the watchdog change nothing of what the lifecycle's own rows show.
LEMMA ReclaimedShows ==
    ASSUME Reclaimed
    PROVE  /\ Ids(journal') = Ids(journal)
           /\ \A e, T : T \cap {"watchdog-restore", "failed"} = {} =>
                 (HasStage(journal', e, T) <=> HasStage(journal, e, T))
           /\ \A e, stage, note : stage \notin {"watchdog-restore", "failed"} =>
                 (Noted(journal', e, stage, note) <=> Noted(journal, e, stage, note))
           /\ \A e : Observed(journal, e) => Observed(journal', e)
           /\ \A e : ReadBack(journal, e) => ReadBack(journal', e)
           /\ \A e, setting : Snapshotted(journal, e, setting) => Snapshotted(journal', e, setting)
  <1>1. /\ \A i \in DOMAIN journal : i \in DOMAIN journal' /\ journal'[i] = journal[i]
        /\ \A i \in DOMAIN journal' : i \notin DOMAIN journal =>
              /\ journal'[i].exp \in Ids(journal)
              /\ journal'[i].stage \in {"watchdog-restore", "failed"}
    BY DEF Reclaimed
  <1>2. Ids(journal') = Ids(journal)
    BY <1>1 DEF Ids
  <1>3. ASSUME NEW e, NEW T, T \cap {"watchdog-restore", "failed"} = {}
        PROVE  HasStage(journal', e, T) <=> HasStage(journal, e, T)
    BY <1>1, <1>3 DEF HasStage
  <1>4. ASSUME NEW e, NEW stage, NEW note, stage \notin {"watchdog-restore", "failed"}
        PROVE  Noted(journal', e, stage, note) <=> Noted(journal, e, stage, note)
    BY <1>1, <1>4 DEF Noted
  <1>5. \A e : Observed(journal, e) => Observed(journal', e)
    BY <1>1 DEF Observed
  <1>6. \A e : ReadBack(journal, e) => ReadBack(journal', e)
    BY <1>1 DEF ReadBack
  <1>7. ASSUME NEW e, NEW setting, Snapshotted(journal, e, setting)
        PROVE  Snapshotted(journal', e, setting)
    BY <1>1, <1>7 DEF Snapshotted
  <1> QED BY <1>2, <1>3, <1>4, <1>5, <1>6, <1>7

\* The records stay truthful when a watchdog adds to them (record_success,
\* record_failure): its `failed` rows name no restore stage.
LEMMA ReclaimedRecords ==
    ASSUME Reclaimed, CompletedMeansRestored, SupersededFailureKept
    PROVE  CompletedMeansRestored' /\ SupersededFailureKept'
  <1>1. /\ \A i \in DOMAIN journal : journal'[i] = journal[i]
        /\ \A i \in DOMAIN journal' : i \notin DOMAIN journal =>
              /\ journal'[i].stage \in {"watchdog-restore", "failed"}
              /\ journal'[i].note \notin RestoreStages
    BY DEF Reclaimed
  <1>2. \A c \in DOMAIN journal : \A i \in 1..c : i \in DOMAIN journal /\ journal'[i] = journal[i]
    BY DEF Reclaimed
  <1>3. CompletedMeansRestored'
    <2> SUFFICES ASSUME NEW c \in DOMAIN journal', journal'[c].stage = "completed"
                 PROVE  \E a, v, k \in 1..c :
                           /\ a < v /\ v < k
                           /\ \A i \in {a, v, k} : journal'[i].exp = journal'[c].exp
                           /\ journal'[a].stage = "apply-intent"
                           /\ journal'[v].stage = "verify" /\ journal'[v].note = "true"
                           /\ journal'[k].stage = "rollback-verify" /\ journal'[k].note = "true"
      BY DEF CompletedMeansRestored
    <2>1. c \in DOMAIN journal /\ journal'[c] = journal[c]
      BY <1>1
    <2>2. PICK a, v, k \in 1..c :
             /\ a < v /\ v < k
             /\ \A i \in {a, v, k} : journal[i].exp = journal[c].exp
             /\ journal[a].stage = "apply-intent"
             /\ journal[v].stage = "verify" /\ journal[v].note = "true"
             /\ journal[k].stage = "rollback-verify" /\ journal[k].note = "true"
      BY <2>1 DEF CompletedMeansRestored
    <2>3. \A i \in {a, v, k} : journal'[i] = journal[i]
      BY <1>2, <2>1
    <2> QED BY <2>1, <2>2, <2>3
  <1>4. SupersededFailureKept'
    <2> SUFFICES ASSUME NEW f \in DOMAIN journal', journal'[f].stage = "failed",
                        journal'[f].note \in {"rollback", "rollback-verify"}
                 PROVE  (journal'[f].why = "none") <=>
                           \E v \in 1..f : /\ journal'[v].exp = journal'[f].exp
                                           /\ journal'[v].stage = "verify"
                                           /\ journal'[v].note = "true"
      BY DEF SupersededFailureKept
    <2>1. f \in DOMAIN journal /\ journal'[f] = journal[f]
      BY <1>1 DEF RestoreStages
    <2>2. \A i \in 1..f : journal'[i] = journal[i]
      BY <1>2, <2>1
    <2>3. (journal[f].why = "none") <=>
             \E v \in 1..f : /\ journal[v].exp = journal[f].exp
                             /\ journal[v].stage = "verify"
                             /\ journal[v].note = "true"
      BY <2>1 DEF SupersededFailureKept
    <2> QED BY <2>1, <2>2, <2>3
  <1> QED BY <1>3, <1>4

\* A watchdog step keeps the shared invariant (reclaim).
LEMMA SharedDogStep ==
    ASSUME SharedInv, NEW w \in Watchdogs, Reclaim(w) \/ WatchdogCrash(w), planes' = planes
    PROVE  SharedInv'
  <1>0. /\ TypeInv /\ DogsInv /\ UniqueCorrelation /\ RecordsInv /\ IntentOnce
        /\ journal \in Seq(Rows) /\ now \in Nat
    BY DEF SharedInv, TypeInv, PlaneTypeOK
  <1>1. /\ Reclaimed /\ Follows(w)
        /\ knob' \in Settings /\ now' = now /\ faults' \in 0..MaxFaults
        /\ dogs[w].pc # "asleep" => dogs'[w].todo \subseteq dogs[w].todo
        /\ dogs[w].pc = "asleep" => dogs'[w].todo \subseteq
              {c \in UnclosedExperiments(journal, now) : SelectedBy(Policy[w], c)}
    BY <1>0, DogStep
  <1>2. Ids(journal') = Ids(journal)
    BY <1>1, ReclaimedShows
  <1>3. TypeInv'
    BY <1>0, <1>1, <1>2 DEF TypeInv, PlaneTypeOK, Reclaimed, GapFree, HoldsId
  <1>4. DogsInv'
    <2>1. \A c \in dogs'[w].todo : c.exp \in Ids(journal)
      <3>1. CASE dogs[w].pc # "asleep"
        BY <1>0, <1>1, <3>1 DEF DogsInv, DogInv
      <3>2. ASSUME dogs[w].pc = "asleep", NEW c \in dogs'[w].todo
            PROVE  c.exp \in Ids(journal)
        <4>1. c.exp \in Dangling(journal)
          BY <1>0, <1>1, <3>2, ScanTypes
        <4> QED BY <4>1 DEF Dangling
      <3> QED BY <3>1, <3>2
    <2>2. WatchdogTypeOK'
      BY <1>1 DEF Follows, DogStates, WatchdogTypeOK
    <2>3. ASSUME NEW v \in Watchdogs PROVE DogInv(v)'
      <3>1. CASE v = w
        BY <1>1, <1>2, <2>1, <3>1 DEF Follows, DogInv
      <3>2. CASE v # w
        BY <1>0, <1>1, <1>2, <3>2 DEF Follows, DogsInv, DogInv
      <3> QED BY <3>1, <3>2
    <2> QED BY <2>2, <2>3 DEF DogsInv
  <1>5. UniqueCorrelation'
    <2>1. \A i, k \in DOMAIN journal' :
             journal'[i].exp = journal'[k].exp /\ journal'[k].stage = "snapshot" => k <= i
      <3> SUFFICES ASSUME NEW i \in DOMAIN journal', NEW k \in DOMAIN journal',
                          journal'[i].exp = journal'[k].exp, journal'[k].stage = "snapshot"
                   PROVE  k <= i
        OBVIOUS
      <3>1. k \in DOMAIN journal /\ journal'[k] = journal[k]
        BY <1>1 DEF Reclaimed
      <3>2. CASE i \in DOMAIN journal
        BY <1>0, <1>1, <3>1, <3>2 DEF Reclaimed, UniqueCorrelation
      <3>3. CASE i \notin DOMAIN journal
        BY <1>1, <3>1, <3>3 DEF Reclaimed
      <3> QED BY <3>2, <3>3
    <2>2. \A e \in Ids(journal') : HasStage(journal', e, {"snapshot"})
      <3>1. \A e \in Ids(journal) : HasStage(journal, e, {"snapshot"})
        BY <1>0 DEF UniqueCorrelation
      <3>2. {"snapshot"} \cap {"watchdog-restore", "failed"} = {}
        OBVIOUS
      <3> QED BY <1>1, <1>2, <3>1, <3>2, ReclaimedShows
    <2> QED BY <1>0, <2>1, <2>2 DEF UniqueCorrelation
  <1>6. RecordsInv'
    <2>1. CompletedMeansRestored' /\ SupersededFailureKept'
      BY <1>0, <1>1, ReclaimedRecords DEF RecordsInv
    <2>2. ASSUME NEW p \in Planes PROVE Progress(p)'
      <3> DEFINE e == planes[p].exp
      <3>1. {"apply-intent"} \cap {"watchdog-restore", "failed"} = {}
            /\ "verify" \notin {"watchdog-restore", "failed"}
        OBVIOUS
      <3>2. /\ HasStage(journal', e, {"apply-intent"}) <=> HasStage(journal, e, {"apply-intent"})
            /\ Noted(journal', e, "verify", "true") <=> Noted(journal, e, "verify", "true")
            /\ Observed(journal, e) => Observed(journal', e)
            /\ ReadBack(journal, e) => ReadBack(journal', e)
            /\ \A setting : Snapshotted(journal, e, setting) => Snapshotted(journal', e, setting)
        BY <1>1, <3>1, ReclaimedShows
      <3>3. Progress(p)
        BY <1>0 DEF RecordsInv
      <3> QED BY <3>2, <3>3 DEF Progress
    <2> QED BY <2>1, <2>2 DEF RecordsInv
  <1>7. IntentOnce'
    <2>1. \A i \in DOMAIN journal' : journal'[i].stage = "apply-intent" =>
             i \in DOMAIN journal /\ journal'[i] = journal[i]
      BY <1>1 DEF Reclaimed
    <2> QED BY <1>0, <2>1 DEF IntentOnce
  <1> QED BY <1>3, <1>4, <1>5, <1>6, <1>7 DEF SharedInv

\* A row keeps that, unless it is a second intent.
LEMMA IntentKept ==
    ASSUME journal \in Seq(Rows), IntentOnce, NEW r \in Rows, journal' = journal \o <<r>>,
           r.stage = "apply-intent" => ~HasStage(journal, r.exp, {"apply-intent"})
    PROVE  IntentOnce'
  <1>1. /\ Len(journal) \in Nat /\ DOMAIN journal = 1..Len(journal)
        /\ DOMAIN journal' = 1..(Len(journal) + 1)
        /\ \A i \in DOMAIN journal : journal'[i] = journal[i]
        /\ journal'[Len(journal) + 1] = r
    BY Inserted
  <1>2. \A i \in DOMAIN journal' : i \in DOMAIN journal \/ i = Len(journal) + 1
    BY <1>1
  <1>3. r.stage = "apply-intent" =>
           \A i \in DOMAIN journal : ~(journal[i].exp = r.exp /\ journal[i].stage = "apply-intent")
    BY DEF HasStage
  <1> QED BY <1>1, <1>2, <1>3 DEF IntentOnce

\* Only RecordIntent writes an intent, and its experiment has none yet.
LEMMA IntentStep ==
    ASSUME TypeInv, RecordsInv, IntentOnce, NEW p \in Planes,
           (\E request \in Requests : Submit(p, request)) \/ Continue(p) \/ Crash(p)
    PROVE  IntentOnce'
  <1>0. journal \in Seq(Rows) /\ PlaneTypeOK
    BY DEF TypeInv, PlaneTypeOK
  <1>1. CASE journal' = journal
    BY <1>1 DEF IntentOnce
  <1>2. ASSUME NEW r \in Rows, journal' = journal \o <<r>>, r.stage # "apply-intent"
        PROVE  IntentOnce'
    BY <1>0, <1>2, IntentKept
  <1>3. ASSUME Quiet(p) PROVE IntentOnce'
    BY <1>1, <1>2, <1>3 DEF Quiet
  <1>4. ASSUME RecordIntent(p) PROVE IntentOnce'
    <2> DEFINE r == IntentRow(planes[p].exp, planes[p].req, now)
    <2>1. planes[p].exp # 0 /\ planes[p].pc = "intent" /\ Progress(p)
      BY <1>4 DEF RecordIntent, TypeInv, HoldsId, RecordsInv
    <2>2. r \in Rows /\ r.exp = planes[p].exp
      BY <1>0, <2>1, PlaneRows
    <2>3. ~HasStage(journal, r.exp, {"apply-intent"})
      BY <2>1, <2>2 DEF Progress
    <2>4. journal' = journal \/ journal' = journal \o <<r>>
      BY <1>4 DEF RecordIntent, Record, RecordError, Insert
    <2> HIDE DEF r
    <2> QED BY <1>0, <1>1, <2>2, <2>3, <2>4, IntentKept
  <1>5. ASSUME Apply(p) \/ Rollback(p) PROVE IntentOnce'
    BY <1>1, <1>5 DEF Apply, Rollback
  <1>6. ASSUME RecordOutcome(p) PROVE IntentOnce'
    <2> DEFINE c == Row(planes[p].exp, "completed")
               f == FailedRow(planes[p].exp, planes[p].failure.stage, planes[p].suppressed)
    <2>1. planes[p].exp # 0
      BY <1>6 DEF RecordOutcome, TypeInv, HoldsId
    <2>2. c \in Rows /\ c.stage = "completed" /\ f \in Rows /\ f.stage = "failed"
      BY <1>0, <2>1, PlaneRows
    <2>3. journal' = journal \/ journal' = journal \o <<c>> \/ journal' = journal \o <<f>>
      BY <1>6 DEF RecordOutcome, Insert
    <2> HIDE DEF c, f
    <2> QED BY <1>1, <1>2, <2>2, <2>3
  <1> QED BY <1>3, <1>4, <1>5, <1>6, QuietSteps DEF Continue

\* A step of a plane keeps the shared invariant (run_lifecycle).
LEMMA SharedPlaneStep ==
    ASSUME SharedInv, PlaneNext, dogs' = dogs
    PROVE  SharedInv'
  <1>0. /\ TypeInv /\ DogsInv /\ UniqueCorrelation /\ RecordsInv /\ IntentOnce
        /\ journal \in Seq(Rows)
    BY DEF SharedInv, TypeInv, PlaneTypeOK
  <1>1. PICK p \in Planes :
           (\E request \in Requests : Submit(p, request)) \/ Continue(p) \/ Crash(p)
    BY DEF PlaneNext
  <1>2. Kind(p)
    BY <1>0, <1>1, StepKind
  <1>3. TypeInv' /\ UniqueCorrelation' /\ RecordsInv' /\ IntentOnce'
    BY <1>0, <1>1, <1>2, TypeInvStep, UniqueStep, RecordsStep, IntentStep
  <1>4. Ids(journal) \subseteq Ids(journal')
    <2>1. ASSUME NEW r, RowOf(p, r) PROVE Ids(journal) \subseteq Ids(journal')
      BY <1>0, <2>1, Inserted DEF RowOf
    <2> QED BY <1>0, <1>2, <2>1, OneRow
  <1>5. DogsInv'
    BY <1>0, <1>4 DEF DogsInv, DogInv, WatchdogTypeOK
  <1> QED BY <1>3, <1>5 DEF SharedInv

\* The clock touches neither rows nor processes (Tick, StepBack).
LEMMA SharedClockStep ==
    ASSUME SharedInv, Tick \/ StepBack \/ UNCHANGED hostVars, planes' = planes, dogs' = dogs
    PROVE  SharedInv'
  <1>1. journal' = journal /\ knob' = knob /\ now' \in Nat /\ faults' \in 0..MaxFaults
    BY FaultTypes, HostAssumption
       DEF SharedInv, TypeInv, PlaneTypeOK, Tick, StepBack, hostVars
  <1>2. TypeInv'
    BY <1>1 DEF SharedInv, TypeInv, PlaneTypeOK, GapFree, HoldsId
  <1>3. DogsInv' /\ UniqueCorrelation' /\ IntentOnce'
    BY <1>1 DEF SharedInv, DogsInv, DogInv, WatchdogTypeOK, UniqueCorrelation, IntentOnce
  <1>4. RecordsInv'
    BY <1>1 DEF SharedInv, RecordsInv, CompletedMeansRestored, SupersededFailureKept, Progress
  <1> QED BY <1>2, <1>3, <1>4 DEF SharedInv

\* Planes and watchdogs start with an empty journal and nothing at hand.
LEMMA SharedInit ==
    ASSUME Init
    PROVE  SharedInv
  <1>0. HostInit /\ PlaneInit /\ WatchdogInit
    BY DEF Init
  <1>1. TypeInv
    BY <1>0, TypeInvInit
  <1>2. DogsInv
    BY <1>0 DEF WatchdogInit, Asleep, DogsInv, DogInv, WatchdogTypeOK, WatchdogPCs
  <1>3. UniqueCorrelation
    <2>1. Ids(<< >>) = {}
      BY DEF Ids
    <2> QED BY <1>0, <2>1 DEF HostInit, PlaneInit, Idle, UniqueCorrelation
  <1>4. RecordsInv /\ IntentOnce
    BY <1>0 DEF HostInit, PlaneInit, Idle, RecordsInv, CompletedMeansRestored,
                SupersededFailureKept, Progress, IntentOnce
  <1> QED BY <1>1, <1>2, <1>3, <1>4 DEF SharedInv

\* Any number of planes and watchdogs keep the shared invariant.
LEMMA SharedStep ==
    ASSUME SharedInv, [Next]_vars
    PROVE  SharedInv'
  <1>1. CASE UNCHANGED vars
    BY <1>1, SharedClockStep DEF vars
  <1>2. CASE PlaneNext /\ UNCHANGED dogs
    BY <1>2, SharedPlaneStep
  <1>3. CASE WatchdogNext /\ UNCHANGED planes
    BY <1>3, SharedDogStep DEF WatchdogNext
  <1>4. CASE (Tick \/ StepBack) /\ UNCHANGED <<planes, dogs>>
    BY <1>4, SharedClockStep
  <1> QED BY <1>1, <1>2, <1>3, <1>4 DEF Next

\* The shared invariant holds in every state of the host.
LEMMA SharedInvariance == Spec => []SharedInv
  <1>1. Init => SharedInv
    BY SharedInit
  <1>2. SharedInv /\ [Next]_vars => SharedInv'
    BY SharedStep
  <1> QED BY <1>1, <1>2, PTL DEF Spec

\* Type correctness of the host: for any number of planes and watchdogs, any
\* faults, crashes and clock steps, no process sets, snapshots or restores a
\* setting past the policy ceiling (validate, unclosed_experiments).
THEOREM HostTypeCorrect == Spec => []TypeOK
  <1>1. SharedInv => TypeOK
    BY DEF SharedInv, TypeInv, DogsInv, TypeOK
  <1> QED BY <1>1, SharedInvariance, PTL

\* Reclaiming keeps what the planes promise of the journal: correlation IDs stay
\* unique, `completed` still means restored and a superseded failure is still on
\* record, although a watchdog may close an experiment whose owner is alive
\* (record_success looks at nothing).
THEOREM RecordsSurviveReclaim ==
    Spec => [](UniqueCorrelation /\ CompletedMeansRestored /\ SupersededFailureKept)
  <1>1. SharedInv => UniqueCorrelation /\ CompletedMeansRestored /\ SupersededFailureKept
    BY DEF SharedInv, RecordsInv
  <1> QED BY <1>1, SharedInvariance, PTL

-----------------------------------------------------------------------------
\* A scan respects the lease

\* Whole seconds are at most one second less than the time they stand for (Age).
LEMMA WholeSeconds ==
    ASSUME NEW t \in Nat
    PROVE  LET s == t \div TicksPerSecond
           IN  s \in Nat /\ TicksPerSecond * s <= t /\ t < TicksPerSecond * s + TicksPerSecond
  BY TicksAssumption

\* A lease whose truncated age is up has less than a second left (LeaseExpired).
LEMMA AgeOverstates ==
    ASSUME NEW from \in Nat, NEW to \in Nat, NEW lease \in Nat,
           LeaseExpired(Age(from, to), lease)
    PROVE  to - from > (lease - 1) * TicksPerSecond
  <1> DEFINE T == TicksPerSecond
             x == to \div T
             y == from \div T
  <1>1. /\ T \in Nat /\ x \in Nat /\ y \in Nat /\ T * x <= to
        /\ from < T * y + T
    BY WholeSeconds, TicksAssumption
  <1>2. x - y >= lease
    BY DEF LeaseExpired, Age
  <1> HIDE DEF T, x, y
  <1>3. PICK d \in Nat : x = y + lease + d
    <2>1. x - y - lease \in Nat /\ x = y + lease + (x - y - lease)
      BY <1>1, <1>2
    <2> QED BY <2>1
  <1>4. T * x = T * y + T * lease + T * d
    BY <1>1, <1>3
  <1>5. T * d >= 0 /\ T * d \in Nat /\ T * y \in Nat /\ T * lease \in Nat
    BY <1>1
  <1>6. (lease - 1) * T = T * lease - T
    BY <1>1
  <1>7. to - from > T * lease - T
    BY <1>1, <1>4, <1>5
  <1> QED BY <1>6, <1>7 DEF T

\* The watchdog at rest has nothing left of an earlier pass, so what it has
\* after a step is what that step's scan selected.
LEMMA ScanSelects ==
    ASSUME SharedInv, [Next]_vars, NEW w \in Watchdogs, dogs[w].pc = "asleep",
           NEW c \in dogs'[w].todo
    PROVE  c \in UnclosedExperiments(journal, now) /\ SelectedBy(Policy[w], c)
  <1>0. TypeInv /\ DogsInv /\ dogs[w].todo = {}
    BY DEF SharedInv, DogsInv, DogInv
  <1>1. dogs' # dogs
    BY <1>0
  <1>2. PICK v \in Watchdogs : Reclaim(v) \/ WatchdogCrash(v)
    BY <1>1 DEF Next, WatchdogNext, vars
  <1>3. v = w
    <2>1. Follows(v)
      BY <1>0, <1>2, DogStep
    <2> QED BY <1>0, <2>1 DEF Follows
  <1> QED BY <1>0, <1>2, <1>3, DogStep

\* In steady state, for any number of planes and watchdogs and however the clock
\* moves, a scan selects an experiment only when less than a second is left of
\* its lease (lease_expired).
THEOREM ScanIsPatient == Spec => ScanRespectsLease
  <1>1. SharedInv /\ [Next]_vars => SelectsExpired
    <2> SUFFICES ASSUME SharedInv, [Next]_vars, NEW w \in Watchdogs,
                        Policy[w] = "ExpiredLeasesOnly", dogs[w].pc = "asleep",
                        NEW c \in dogs'[w].todo
                 PROVE  LET intent == journal[IntentOf(c.exp)]
                        IN  now - intent.at > (intent.lease - 1) * TicksPerSecond
      BY DEF SelectsExpired
    <2>0. journal \in Seq(Rows) /\ now \in Nat /\ IntentOnce
      BY DEF SharedInv, TypeInv, PlaneTypeOK
    <2>1. c \in UnclosedExperiments(journal, now) /\ c.expired
      BY ScanSelects DEF SelectedBy
    <2>2. PICK i, k \in DOMAIN journal :
             /\ journal[i].stage = "apply-intent" /\ journal[k].stage = "snapshot"
             /\ journal[i].exp = c.exp /\ journal[k].exp = c.exp
             /\ c = [exp |-> journal[i].exp, snap |-> journal[k].val,
                     expired |-> LeaseExpired(Age(journal[i].at, now), journal[i].lease)]
      BY <2>0, <2>1, ScanTypes
    <2>3. LeaseExpired(Age(journal[i].at, now), journal[i].lease)
      BY <2>1, <2>2
    <2>4. journal[i].at \in Nat /\ journal[i].lease \in Nat
      <3>1. journal[i] \in Rows
        BY <2>0, <2>2
      <3> QED BY <3>1 DEF Rows
    <2>5. IntentOf(c.exp) = i
      BY <2>0, <2>2 DEF IntentOf, IntentOnce
    <2>6. now - journal[i].at > (journal[i].lease - 1) * TicksPerSecond
      BY <2>0, <2>3, <2>4, AgeOverstates
    <2> QED BY <2>5, <2>6
  <1> QED BY <1>1, SharedInvariance, PTL DEF Spec, ScanRespectsLease

-----------------------------------------------------------------------------
\* The operating discipline, for one plane and watchdogs that poll

\* At most one experiment is leaked at a time, ...
OneLeak == \A d, e \in Dangling(journal) : d = e

\* ... by the plane that is still working on it, if one is working; ...
LeakIsOwn(p) == planes[p].pc # "idle" => Dangling(journal) \subseteq {planes[p].exp}

\* ... so that no snapshot is ever taken of a leaked setting, ...
SnapshotsAreBaseline ==
    \A i \in DOMAIN journal : journal[i].stage = "snapshot" => journal[i].val = Baseline

\* (there is one watchdog at most)
Sole == \A v, w \in Watchdogs : v = w

\* ... and a watchdog works on the one leak, whose plane is gone, or on one that
\* another watchdog has closed since.
WorksOnLeak(w) ==
    /\ \A c \in dogs[w].todo :
          /\ c.snap = Baseline
          /\ c.exp \in Dangling(journal) \cup ClosedIds(journal)
          /\ c.exp \in Dangling(journal) => \A p \in Planes : planes[p].pc = "idle"
          /\ Sole => c.exp \in Dangling(journal)
          /\ dogs[w].pc = "success" /\ c.exp \in Dangling(journal) => knob = Baseline
    /\ \A c, d \in dogs[w].todo : c = d

DisciplineInv ==
    /\ OwnersInLease /\ WorksOnOpen /\ LeakInv /\ OneLeak /\ SnapshotsAreBaseline
    /\ Sole => OneTerminal
    /\ \A p \in Planes : LeakIsOwn(p)
    /\ \A w \in Watchdogs : WorksOnLeak(w)

\* A terminal row of an open experiment is its first (record_outcome).
LEMMA TerminalKept ==
    ASSUME journal \in Seq(Rows), OneTerminal, NEW r \in Rows, journal' = journal \o <<r>>,
           r.stage \in Terminal => ~Closed(journal, r.exp)
    PROVE  OneTerminal'
  <1>1. /\ Len(journal) \in Nat /\ DOMAIN journal = 1..Len(journal)
        /\ DOMAIN journal' = 1..(Len(journal) + 1)
        /\ \A i \in DOMAIN journal : journal'[i] = journal[i]
        /\ journal'[Len(journal) + 1] = r
    BY Inserted
  <1>2. \A i \in DOMAIN journal' : i \in DOMAIN journal \/ i = Len(journal) + 1
    BY <1>1
  <1>3. r.stage \in Terminal =>
           \A i \in DOMAIN journal : ~(journal[i].exp = r.exp /\ journal[i].stage \in Terminal)
    BY DEF Closed, HasStage
  <1> QED BY <1>1, <1>2, <1>3 DEF OneTerminal

\* The journal after record_success: the restore row and the terminal row.
LEMMA RestoredAndClosed ==
    ASSUME journal \in Seq(Rows), NEW r \in Rows, NEW t \in Rows,
           r.stage = "watchdog-restore", t.stage = "failed", r.exp = t.exp, t.exp \in Ids(journal),
           journal' = journal \o <<r, t>>
    PROVE  /\ Len(journal) \in Nat /\ DOMAIN journal = 1..Len(journal)
           /\ DOMAIN journal' = 1..(Len(journal) + 2)
           /\ \A i \in DOMAIN journal : journal'[i] = journal[i]
           /\ journal'[Len(journal) + 1] = r /\ journal'[Len(journal) + 2] = t
           /\ Dangling(journal') = Dangling(journal) \ {t.exp}
           /\ ClosedIds(journal') = ClosedIds(journal) \cup {t.exp}
           /\ Ids(journal') = Ids(journal)
  <1>1. /\ Len(journal) \in Nat /\ DOMAIN journal = 1..Len(journal)
        /\ DOMAIN journal' = 1..(Len(journal) + 2)
        /\ \A i \in DOMAIN journal : journal'[i] = journal[i]
        /\ journal'[Len(journal) + 1] = r /\ journal'[Len(journal) + 2] = t
    OBVIOUS
  <1>2. /\ \A i \in DOMAIN journal : i \in DOMAIN journal'
        /\ Len(journal) + 1 \in DOMAIN journal' /\ Len(journal) + 2 \in DOMAIN journal'
        /\ \A i \in DOMAIN journal' :
              i \in DOMAIN journal \/ i = Len(journal) + 1 \/ i = Len(journal) + 2
    BY <1>1, SMTT(30)
  <1>3. \A e, T : HasStage(journal', e, T) <=>
           \/ HasStage(journal, e, T)
           \/ t.exp = e /\ (r.stage \in T \/ t.stage \in T)
    BY <1>1, <1>2 DEF HasStage
  <1>4. Ids(journal') = Ids(journal)
    BY <1>1, <1>2 DEF Ids
  <1>5. \A e : Closed(journal', e) <=> Closed(journal, e) \/ t.exp = e
    BY <1>3 DEF Closed, Terminal
  <1>6. \A e : HasStage(journal', e, {"apply-intent"}) <=> HasStage(journal, e, {"apply-intent"})
    BY <1>3
  <1>7. Dangling(journal') = Dangling(journal) \ {t.exp}
    BY <1>4, <1>5, <1>6 DEF Dangling
  <1>8. ClosedIds(journal') = ClosedIds(journal) \cup {t.exp}
    BY <1>4, <1>5 DEF ClosedIds
  <1> QED BY <1>1, <1>4, <1>7, <1>8

\* A plane outside of run_lifecycle can only be called.
LEMMA IdleStep ==
    ASSUME TypeInv, NEW p \in Planes, planes[p].pc = "idle",
           (\E request \in Requests : Submit(p, request)) \/ Continue(p) \/ Crash(p)
    PROVE  /\ journal' = journal /\ knob' = knob
           /\ planes'[p].pc \in {"idle", "begin"} /\ planes'[p].exp = 0
  <1>1. \E request \in Requests : Submit(p, request)
    BY DEF Continue, Crash, BeginExperiment, Preview, RecordIntent, Apply, RecordApply, Verify,
           Rollback, RecordRollback, RollbackVerify, RecordOutcome
  <1>2. journal' = journal /\ knob' = knob
    BY <1>1 DEF Submit
  <1>3. Kind(p) /\ HoldsId(p) /\ journal \in Seq(Rows)
    BY <1>1, StepKind DEF TypeInv, PlaneTypeOK
  <1>4. ~Begins(p)
    <2>1. \A x : journal # journal \o <<x>>
      BY <1>3
    <2> QED BY <1>2, <2>1 DEF Begins
  <1> QED BY <1>2, <1>3, <1>4 DEF Kind, Outside, Works, Ends, HoldsId

\* A step of the plane keeps the discipline's invariant, and is a step of the
\* exclusive leases.
LEMMA DisciplinePlaneStep ==
    ASSUME SharedInv, DisciplineInv, NEW p, Planes = {p}, "rollback" \notin Faults,
           (\E request \in Requests : Submit(p, request)) \/ Continue(p) \/ Crash(p),
           dogs' = dogs, SharedInv', OwnersInLease', BeginsOnCleanJournal
    PROVE  DisciplineInv' /\ [Leases!ExclusiveNext]_(Leases!vars)
  <1> DEFINE D == Dangling(journal)
             e0 == planes[p].exp
  <1>0. /\ p \in Planes /\ TypeInv /\ UniqueCorrelation /\ RecordsInv
        /\ journal \in Seq(Rows) /\ HoldsId(p) /\ Progress(p)
        /\ planes \in [Planes -> PlaneStates]
        /\ WorksOnOpen /\ LeakInv /\ OneLeak /\ SnapshotsAreBaseline /\ (Sole => OneTerminal)
        /\ LeakIsOwn(p) /\ \A w \in Watchdogs : WorksOnLeak(w)
    BY DEF SharedInv, TypeInv, PlaneTypeOK, RecordsInv, DisciplineInv
  <1>k. Kind(p)
    BY <1>0, StepKind
  <1>m. LeaseMove(p)
    BY <1>0, LeaseMoves
  <1>l. LeakInv'
    BY <1>0, LeakStep
  <1>o. WorksOnOpen'
    BY <1>0, <1>k, OpenStep
  <1>z. 0 \notin Dangling(journal')
    BY DEF SharedInv, TypeInv, GapFree, Dangling
  <1>i. planes[p].pc = "idle" =>
           /\ journal' = journal /\ knob' = knob
           /\ planes'[p].pc \in {"idle", "begin"} /\ planes'[p].exp = 0
    BY <1>0, IdleStep
  <1>b. planes[p].pc = "idle" /\ planes'[p].pc = "begin" => D = {}
    BY <1>0 DEF BeginsOnCleanJournal
  <1>d. Dangling(journal') \subseteq D \cup {e0}
    BY <1>m DEF LeaseMove, Leases!vars, Leases!Lease, Leases!Change, Leases!Close
  <1>1. OneLeak'
    <2>1. CASE planes[p].pc = "idle"
      BY <1>0, <1>i, <2>1 DEF OneLeak
    <2>2. CASE planes[p].pc # "idle"
      <3>1. Dangling(journal') \subseteq {e0}
        BY <1>0, <1>d, <2>2 DEF LeakIsOwn
      <3> QED BY <3>1 DEF OneLeak
    <2> QED BY <2>1, <2>2
  <1>2. LeakIsOwn(p)'
    <2>1. CASE planes[p].pc = "idle"
      BY <1>i, <1>b, <2>1 DEF LeakIsOwn
    <2>2. CASE planes[p].pc # "idle"
      <3>1. Dangling(journal') \subseteq {e0}
        BY <1>0, <1>d, <2>2 DEF LeakIsOwn
      <3>2. planes'[p].pc = "idle" \/ planes'[p].exp = e0 \/ e0 = 0
        BY <1>k DEF Kind, Outside, Begins, Works, Ends
      <3> QED BY <1>z, <3>1, <3>2 DEF LeakIsOwn
    <2> QED BY <2>1, <2>2
  <1>3. (Sole => OneTerminal') /\ SnapshotsAreBaseline'
    <2>1. CASE journal' = journal
      BY <1>0, <2>1 DEF OneTerminal, SnapshotsAreBaseline
    <2>2. ASSUME NEW r \in Rows, journal' = journal \o <<r>>,
                 r.stage \in Terminal => r.exp = e0 /\ e0 # 0,
                 r.stage = "snapshot" => planes'[p].pc = "preview" /\ r.exp = planes'[p].exp
                                         /\ planes'[p].exp # 0
          PROVE  (Sole => OneTerminal') /\ SnapshotsAreBaseline'
      <3>1. Sole => OneTerminal'
        BY <1>0, <2>2, TerminalKept DEF WorksOnOpen
      <3>2. /\ Len(journal) \in Nat /\ DOMAIN journal = 1..Len(journal)
            /\ DOMAIN journal' = 1..(Len(journal) + 1)
            /\ \A i \in DOMAIN journal : journal'[i] = journal[i]
            /\ journal'[Len(journal) + 1] = r
        BY <1>0, <2>2, Inserted
      <3>3. r.stage = "snapshot" => r.val = Baseline
        <4> SUFFICES ASSUME r.stage = "snapshot" PROVE r.val = Baseline
          OBVIOUS
        <4>1. planes'[p].snap = Baseline
          <5>1. OlderLeak(p)'
            BY <1>0, <1>l DEF LeakInv
          <5> QED BY <1>2, <2>2, <5>1 DEF OlderLeak, LeakIsOwn
        <4>2. Progress(p)'
          BY <1>0 DEF SharedInv, RecordsInv
        <4>3. Snapshotted(journal', planes'[p].exp, planes'[p].snap)
          BY <2>2, <4>2 DEF Progress
        <4> QED BY <2>2, <3>2, <4>1, <4>3 DEF Snapshotted
      <3>4. SnapshotsAreBaseline'
        BY <1>0, <3>2, <3>3 DEF SnapshotsAreBaseline
      <3> QED BY <3>1, <3>4
    <2>3. CASE Begins(p)
      <3> DEFINE r == SnapshotRow(NextId(journal), planes[p].snap)
      <3>1. PICK n \in Nat : Ids(journal) = 1..n
        BY <1>0 DEF TypeInv, GapFree
      <3>2. NextId(journal) \in Nat \ {0} /\ planes[p].snap \in Settings
        BY <1>0, <3>1, NextIdValue DEF PlaneStates
      <3>3. r \in Rows
        BY <3>2, RowTypes
      <3>4. r.stage = "snapshot" /\ r.exp = NextId(journal) /\ "snapshot" \notin Terminal
        BY DEF SnapshotRow, Row, Terminal
      <3>5. journal' = journal \o <<r>> /\ planes'[p].pc = "preview"
            /\ planes'[p].exp = NextId(journal)
        BY <2>3 DEF Begins
      <3> HIDE DEF r
      <3> QED BY <2>2, <3>2, <3>3, <3>4, <3>5
    <2>4. "snapshot" \notin Terminal
      BY DEF Terminal
    <2> QED BY <1>k, <2>1, <2>2, <2>3, <2>4 DEF Kind, Outside, Works, Ends
  <1>c. D \cup ClosedIds(journal) \subseteq Dangling(journal') \cup ClosedIds(journal')
        /\ ClosedIds(journal) \subseteq ClosedIds(journal')
    BY <1>m DEF LeaseMove, Leases!vars, Leases!Lease, Leases!Change, Leases!Close
  <1>4. ASSUME NEW w \in Watchdogs PROVE WorksOnLeak(w)'
    <2>1. CASE \E c \in dogs[w].todo : c.exp \in D
      <3>1. D # {} /\ planes[p].pc = "idle"
        BY <1>0, <2>1 DEF WorksOnLeak
      <3>2. planes'[p].pc = "idle" /\ journal' = journal /\ knob' = knob
        BY <1>i, <1>b, <3>1
      <3> QED BY <1>0, <3>2 DEF WorksOnLeak
    <2>2. CASE \A c \in dogs[w].todo : c.exp \notin D
      <3>1. ASSUME NEW c \in dogs[w].todo PROVE c.exp \in ClosedIds(journal') /\ ~Sole
        BY <1>0, <1>c, <2>2 DEF WorksOnLeak
      <3>2. ASSUME NEW c \in dogs[w].todo PROVE c.exp \notin Dangling(journal')
        BY <3>1 DEF ClosedIds, Dangling
      <3> QED BY <1>0, <3>1, <3>2 DEF WorksOnLeak
    <2> QED BY <2>1, <2>2
  <1>5. DisciplineInv'
    BY <1>1, <1>2, <1>3, <1>4, <1>l, <1>o DEF DisciplineInv
  <1>6. [Leases!ExclusiveNext]_(Leases!vars)
    <2>1. CASE RecordIntent(p) /\ Leases!Lease(e0)
      <3>1. planes[p].pc = "intent" /\ e0 \notin D
        BY <2>1 DEF RecordIntent, Leases!Lease
      <3>2. D = {}
        BY <1>0, <3>1 DEF LeakIsOwn
      <3>3. e0 \in Dangling(journal')
        BY <2>1 DEF Leases!Lease
      <3> QED BY <2>1, <3>2, <3>3 DEF Leases!ExclusiveNext
    <2>2. CASE RecordOutcome(p) /\ Leases!Close(e0)
      <3>1. planes[p].pc = "outcome" /\ e0 \in ClosedIds(journal')
        BY <2>2 DEF RecordOutcome, Leases!Close
      <3>2. knob = Baseline
        BY <1>0, <3>1 DEF LeakInv, AtSnapshot, OlderLeak, LeakIsOwn
      <3> QED BY <2>2, <3>1, <3>2 DEF Leases!ExclusiveNext
    <2> QED BY <1>m, <2>1, <2>2 DEF LeaseMove, Leases!ExclusiveNext
  <1> QED BY <1>5, <1>6

\* What the scan of the disciplined watchdog selects: the one leak, whose plane
\* is gone because a live owner is within its lease (unclosed_experiments).
LEMMA DisciplineScan ==
    ASSUME SharedInv, DisciplineInv, NEW w \in Watchdogs, Policy[w] = "ExpiredLeasesOnly",
           NEW T, T \subseteq {c \in UnclosedExperiments(journal, now) : SelectedBy(Policy[w], c)}
    PROVE  /\ \A c \in T : /\ c.exp \in Dangling(journal) /\ c.snap = Baseline
                           /\ \A p \in Planes : planes[p].pc = "idle"
           /\ \A c, d \in T : c = d
  <1>0. /\ journal \in Seq(Rows) /\ now \in Nat /\ IntentOnce /\ UniqueCorrelation
        /\ OwnersInLease /\ OneLeak /\ SnapshotsAreBaseline /\ \A p \in Planes : LeakIsOwn(p)
    BY DEF SharedInv, TypeInv, PlaneTypeOK, DisciplineInv
  <1>f. ASSUME NEW c \in T
        PROVE  /\ c.exp \in Dangling(journal) /\ c.expired
               /\ \E i, k \in DOMAIN journal :
                     /\ journal[i].stage = "apply-intent" /\ journal[k].stage = "snapshot"
                     /\ journal[i].exp = c.exp /\ journal[k].exp = c.exp
                     /\ c = [exp |-> journal[i].exp, snap |-> journal[k].val,
                             expired |-> LeaseExpired(Age(journal[i].at, now), journal[i].lease)]
    BY <1>0, ScanTypes DEF SelectedBy
  <1>1. ASSUME NEW c \in T
        PROVE  /\ c.exp \in Dangling(journal) /\ c.snap = Baseline
               /\ \A p \in Planes : planes[p].pc = "idle"
    <2>1. PICK i, k \in DOMAIN journal :
             /\ journal[i].stage = "apply-intent" /\ journal[k].stage = "snapshot"
             /\ journal[i].exp = c.exp /\ journal[k].exp = c.exp
             /\ c = [exp |-> journal[i].exp, snap |-> journal[k].val,
                     expired |-> LeaseExpired(Age(journal[i].at, now), journal[i].lease)]
      BY <1>f
    <2>2. LeaseExpired(Age(journal[i].at, now), journal[i].lease) /\ c.snap = journal[k].val
      BY <1>f, <2>1
    <2>3. ASSUME NEW p \in Planes, planes[p].pc # "idle" PROVE FALSE
      <3>1. c.exp = planes[p].exp
        BY <1>0, <1>f, <2>3 DEF LeakIsOwn
      <3>2. HasStage(journal, planes[p].exp, {"apply-intent"})
        BY <2>1, <3>1 DEF HasStage
      <3>3. IntentOf(planes[p].exp) = i
        BY <1>0, <2>1, <3>1 DEF IntentOf, IntentOnce
      <3> QED BY <1>0, <2>2, <3>2, <3>3 DEF OwnersInLease
    <2> QED BY <1>0, <1>f, <2>1, <2>2, <2>3 DEF SnapshotsAreBaseline
  <1>2. ASSUME NEW c \in T, NEW d \in T PROVE c = d
    <2>1. PICK i, k \in DOMAIN journal :
             /\ journal[i].stage = "apply-intent" /\ journal[k].stage = "snapshot"
             /\ journal[i].exp = c.exp /\ journal[k].exp = c.exp
             /\ c = [exp |-> journal[i].exp, snap |-> journal[k].val,
                     expired |-> LeaseExpired(Age(journal[i].at, now), journal[i].lease)]
      BY <1>f
    <2>2. PICK a, b \in DOMAIN journal :
             /\ journal[a].stage = "apply-intent" /\ journal[b].stage = "snapshot"
             /\ journal[a].exp = d.exp /\ journal[b].exp = d.exp
             /\ d = [exp |-> journal[a].exp, snap |-> journal[b].val,
                     expired |-> LeaseExpired(Age(journal[a].at, now), journal[a].lease)]
      BY <1>f
    <2>3. c.exp = d.exp
      BY <1>0, <1>f DEF OneLeak
    <2>4. i = a
      BY <1>0, <2>1, <2>2, <2>3 DEF IntentOnce
    <2>5. k \in Nat /\ b \in Nat /\ k <= b /\ b <= k
      BY <1>0, <2>1, <2>2, <2>3 DEF UniqueCorrelation
    <2>6. k = b
      BY <2>5
    <2> QED BY <2>1, <2>2, <2>4, <2>6
  <1> QED BY <1>1, <1>2

\* A step of a watchdog keeps the discipline's invariant, and is a step of the
\* exclusive leases.  A restore that fails needs the experiment still open: one
\* that another watchdog has closed is put back a second time.
LEMMA DisciplineDogStep ==
    ASSUME SharedInv, DisciplineInv, NEW p, Planes = {p}, NEW w \in Watchdogs,
           Policy[w] = "ExpiredLeasesOnly", "restore" \in Faults => Sole,
           Reclaim(w) \/ WatchdogCrash(w), planes' = planes, OwnersInLease'
    PROVE  DisciplineInv' /\ [Leases!ExclusiveNext]_(Leases!vars)
  <1> DEFINE D == Dangling(journal)
             cur == Current(w)
             Good == DisciplineInv' /\ [Leases!ExclusiveNext]_(Leases!vars)
             Turned == knob' = knob \/ (dogs[w].pc # "asleep" /\ (knob' = Baseline \/ Sole))
  <1>0. /\ p \in Planes /\ TypeInv /\ DogsInv /\ DogInv(w) /\ HoldsId(p)
        /\ journal \in Seq(Rows) /\ now \in Nat
        /\ WorksOnOpen /\ (Sole => OneTerminal) /\ LeakInv /\ OneLeak /\ SnapshotsAreBaseline
        /\ LeakIsOwn(p) /\ \A v \in Watchdogs : WorksOnLeak(v)
    BY DEF SharedInv, TypeInv, PlaneTypeOK, DogsInv, DisciplineInv
  <1>g. /\ Follows(w) /\ knob' \in Settings
        /\ dogs[w].pc # "asleep" => dogs'[w].todo \subseteq dogs[w].todo
        /\ dogs[w].pc = "asleep" => dogs'[w].todo \subseteq
              {c \in UnclosedExperiments(journal, now) : SelectedBy(Policy[w], c)}
    BY <1>0, DogStep
  <1>v. \A v \in Watchdogs : v # w => dogs'[v] = dogs[v] /\ ~Sole
    BY <1>g DEF Follows, Sole
  <1>t. dogs[w].todo \subseteq Candidates
    BY <1>0 DEF DogsInv, WatchdogTypeOK
  <1>c. dogs[w].pc # "asleep" =>
           /\ cur \in dogs[w].todo /\ cur \in Candidates /\ dogs[w].todo = {cur}
           /\ cur.snap = Baseline /\ cur.exp \in Ids(journal)
           /\ cur.exp \in D \cup ClosedIds(journal) /\ (Sole => cur.exp \in D)
           /\ cur.exp \in D => planes[p].pc = "idle" /\ planes[p].exp = 0
           /\ dogs[w].pc = "success" /\ cur.exp \in D => knob = Baseline
    <2> SUFFICES ASSUME dogs[w].pc # "asleep"
                 PROVE  /\ cur \in dogs[w].todo /\ cur \in Candidates /\ dogs[w].todo = {cur}
                        /\ cur.snap = Baseline /\ cur.exp \in Ids(journal)
                        /\ cur.exp \in D \cup ClosedIds(journal) /\ (Sole => cur.exp \in D)
                        /\ cur.exp \in D => planes[p].pc = "idle" /\ planes[p].exp = 0
                        /\ dogs[w].pc = "success" /\ cur.exp \in D => knob = Baseline
      OBVIOUS
    <2>1. cur \in dogs[w].todo /\ cur \in Candidates
      BY <1>0, <1>t, CurrentChosen DEF DogInv
    <2> HIDE DEF cur
    <2>2. /\ cur.snap = Baseline /\ cur.exp \in Ids(journal)
          /\ cur.exp \in D \cup ClosedIds(journal) /\ (Sole => cur.exp \in D)
          /\ cur.exp \in D => planes[p].pc = "idle" /\ planes[p].exp = 0
          /\ dogs[w].pc = "success" /\ cur.exp \in D => knob = Baseline
      BY <1>0, <2>1 DEF WorksOnLeak, HoldsId, DogInv
    <2>3. dogs[w].todo = {cur}
      BY <1>0, <2>1 DEF WorksOnLeak
    <2> QED BY <2>1, <2>2, <2>3
  <1> HIDE DEF cur
  \* The journal and the processes' part of the invariant, when no row is written.
  <1>j. journal' = journal =>
           /\ WorksOnOpen' /\ OneLeak' /\ SnapshotsAreBaseline' /\ LeakIsOwn(p)'
           /\ Sole => OneTerminal'
    BY <1>0 DEF WorksOnOpen, OneTerminal, OneLeak, SnapshotsAreBaseline, LeakIsOwn
  <1>k. journal' = journal /\ Turned => LeakInv'
    <2>1. CASE knob' = knob
      BY <1>0, <2>1 DEF LeakInv, LeakIsDiscoverable, AtSnapshot, IntentIsOpen, OlderLeak
    <2>2. CASE knob' = Baseline
      <3>1. planes[p].pc # "idle" => planes[p].snap = Baseline
        BY <1>0 DEF LeakInv, OlderLeak, LeakIsOwn
      <3> QED BY <1>0, <2>2, <3>1
              DEF LeakInv, LeakIsDiscoverable, AtSnapshot, IntentIsOpen, OlderLeak
    <2>3. CASE dogs[w].pc # "asleep" /\ Sole
      BY <1>c, <2>3 DEF LeakInv, LeakIsDiscoverable, AtSnapshot, IntentIsOpen, OlderLeak
    <2> QED BY <2>1, <2>2, <2>3
  \* The watchdogs' part, and the leases, when the journal is left alone.
  <1>q. ASSUME journal' = journal, Turned,
               dogs'[w].pc = "success" =>
                   dogs[w].pc # "asleep" /\ (cur.exp \in D => knob' = Baseline)
        PROVE  Good
    <2>1. WorksOnLeak(w)'
      <3>1. CASE dogs[w].pc = "asleep"
        BY <1>0, <1>g, <1>q, <3>1, DisciplineScan DEF WorksOnLeak
      <3>2. CASE dogs[w].pc # "asleep"
        BY <1>0, <1>c, <1>g, <1>q, <3>2 DEF WorksOnLeak
      <3> QED BY <3>1, <3>2
    <2>2. ASSUME NEW v \in Watchdogs PROVE WorksOnLeak(v)'
      <3>1. CASE v # w
        BY <1>0, <1>q, <1>v, <3>1 DEF WorksOnLeak
      <3> QED BY <2>1, <3>1
    <2>3. DisciplineInv'
      BY <1>j, <1>k, <1>q, <2>2 DEF DisciplineInv
    <2>4. [Leases!ExclusiveNext]_(Leases!vars)
      <3>1. CASE knob' = knob
        BY <1>q, <3>1 DEF Leases!vars
      <3>2. CASE D # {}
        BY <1>g, <1>q, <3>2 DEF Leases!ExclusiveNext, Leases!Change
      <3>3. CASE knob' # knob /\ D = {}
        <4>1. knob = Baseline
          BY <1>0, <3>3 DEF LeakInv, LeakIsDiscoverable
        <4> QED BY <1>c, <1>q, <3>3, <4>1
      <3> QED BY <3>1, <3>2, <3>3
    <2> QED BY <2>3, <2>4
  \* The same when rows are written that open and close nothing.
  <1>h. ASSUME knob' = knob, Dangling(journal') = D, ClosedIds(journal') = ClosedIds(journal),
               Ids(journal) \subseteq Ids(journal'), dogs'[w].todo = {},
               SnapshotsAreBaseline', Sole => OneTerminal'
        PROVE  Good
    <2>1. WorksOnOpen' /\ OneLeak' /\ LeakIsOwn(p)'
      <3>1. WorksOnOpen'
        <4>1. planes[p].exp # 0 => planes[p].exp \in Ids(journal) /\ planes[p].exp \notin ClosedIds(journal)
          BY <1>0 DEF HoldsId, WorksOnOpen, ClosedIds
        <4>2. planes[p].exp # 0 => ~Closed(journal', planes[p].exp)
          BY <1>h, <4>1 DEF ClosedIds
        <4> QED BY <4>2 DEF WorksOnOpen
      <3> QED BY <1>0, <1>h, <3>1 DEF OneLeak, LeakIsOwn
    <2>2. LeakInv'
      BY <1>0, <1>h DEF LeakInv, LeakIsDiscoverable, AtSnapshot, IntentIsOpen, OlderLeak
    <2>3. \A v \in Watchdogs : WorksOnLeak(v)'
      BY <1>0, <1>h, <1>v DEF WorksOnLeak
    <2>4. DisciplineInv'
      BY <1>h, <2>1, <2>2, <2>3 DEF DisciplineInv
    <2> QED BY <1>h, <2>4 DEF Leases!vars
  <1>r. \A todo \in SUBSET Candidates : Pass(w, todo) => dogs'[w].pc # "success"
    BY <1>0, DogMoves
  <1>s. \A pc \in WatchdogPCs \ {"asleep"}, error \in RestoreErrors \cup {"none"} :
           WGoto(w, pc, error) /\ dogs[w].todo # {} => dogs'[w].pc = pc
    BY <1>0, DogMoves
  <1>n. dogs[w].todo \ {cur} \in SUBSET Candidates /\ {} \in SUBSET Candidates
    BY <1>t
  <1>a. AbortPass(w) => journal' = journal /\ dogs'[w].pc # "success"
    BY <1>n, <1>r DEF AbortPass
  <1>e. Pass(w, dogs[w].todo \ {cur}) =>
           dogs'[w].todo = dogs[w].todo \ {cur} /\ dogs'[w].pc # "success"
    BY <1>0, <1>n, <1>r, DogMoves
  <1>1. ASSUME Scan(w) PROVE Good
    <2>1. knob' = knob /\ journal' = journal
      BY <1>1, <1>a DEF Scan
    <2>2. {c \in UnclosedExperiments(journal, now) : SelectedBy(Policy[w], c)} \in SUBSET Candidates
      BY <1>0, ScanTypes
    <2>3. dogs'[w].pc # "success"
      BY <1>1, <1>a, <1>r, <2>2 DEF Scan
    <2> QED BY <1>q, <2>1, <2>3
  <1>2. ASSUME ReclaimRollback(w) PROVE Good
    <2>1. journal' = journal /\ dogs[w].pc # "asleep"
      BY <1>2 DEF ReclaimRollback
    <2>2. {"check", "failure"} \subseteq WatchdogPCs \ {"asleep"}
          /\ "rollback-error" \in RestoreErrors
      BY DEF WatchdogPCs, RestoreErrors
    <2>3. dogs'[w].pc \in {"check", "failure"}
      BY <1>c, <1>s, <1>2, <2>1, <2>2 DEF ReclaimRollback
    <2>4. Turned
      BY <1>c, <1>2, <2>1 DEF ReclaimRollback, ProviderRollback, Fault, cur
    <2> QED BY <1>q, <2>1, <2>3, <2>4
  <1>3. ASSUME ReclaimCheck(w) PROVE Good
    <2>1. journal' = journal /\ knob' = knob /\ dogs[w].pc # "asleep"
      BY <1>3 DEF ReclaimCheck
    <2>2. {"success", "failure"} \subseteq WatchdogPCs \ {"asleep"}
          /\ {"mismatch", "probe-error"} \subseteq RestoreErrors
      BY DEF WatchdogPCs, RestoreErrors
    <2>3. dogs'[w].pc = "success" => knob = Baseline
      <3>1. CASE knob = cur.snap
        BY <1>c, <2>1, <3>1
      <3>2. CASE knob # cur.snap
        <4>1. WGoto(w, "failure", "mismatch") \/ WGoto(w, "failure", "probe-error")
          BY <1>3, <3>2 DEF ReclaimCheck, ProviderSnapshot, cur
        <4> QED BY <1>c, <1>s, <2>1, <2>2, <4>1
      <3> QED BY <3>1, <3>2
    <2> QED BY <1>q, <2>1, <2>3
  <1>4. ASSUME RecordSuccess(w) PROVE Good
    <2>1. knob' = knob /\ dogs[w].pc = "success"
      BY <1>4 DEF RecordSuccess
    <2>2. CASE AbortPass(w)
      BY <1>a, <1>q, <2>1, <2>2
    <2> DEFINE r == RestoreRow(cur.exp, cur.snap, Reason(cur), "restored", now)
               f == FailedRow(cur.exp, "watchdog", Reason(cur))
    <2>3. CASE journal' = journal \o <<r, f>> /\ NextCandidate(w)
      <3>0. "restored" \in Notes /\ dogs[w].pc # "asleep"
        BY <2>1 DEF Notes
      <3>1. /\ r \in Rows /\ r.exp = cur.exp /\ r.stage = "watchdog-restore"
            /\ f \in Rows /\ f.exp = cur.exp /\ f.stage = "failed"
        BY <1>0, <1>c, <3>0, DogRows
      <3> HIDE DEF r, f
      <3>2. cur.exp \in Ids(journal)
        BY <1>c, <3>0
      <3>3. /\ Len(journal) \in Nat /\ DOMAIN journal = 1..Len(journal)
            /\ DOMAIN journal' = 1..(Len(journal) + 2)
            /\ \A i \in DOMAIN journal : journal'[i] = journal[i]
            /\ journal'[Len(journal) + 1] = r /\ journal'[Len(journal) + 2] = f
            /\ Dangling(journal') = D \ {cur.exp}
            /\ ClosedIds(journal') = ClosedIds(journal) \cup {cur.exp}
            /\ Ids(journal') = Ids(journal)
        <4>1. f.exp \in Ids(journal) /\ r.exp = f.exp
          BY <3>1, <3>2
        <4>2. /\ Len(journal) \in Nat /\ DOMAIN journal = 1..Len(journal)
              /\ DOMAIN journal' = 1..(Len(journal) + 2)
              /\ \A i \in DOMAIN journal : journal'[i] = journal[i]
              /\ journal'[Len(journal) + 1] = r /\ journal'[Len(journal) + 2] = f
          BY <1>0, <2>3, <3>1, <4>1, RestoredAndClosed
        <4>3. /\ Dangling(journal') = D \ {f.exp}
              /\ ClosedIds(journal') = ClosedIds(journal) \cup {f.exp}
              /\ Ids(journal') = Ids(journal)
          BY <1>0, <2>3, <3>1, <4>1, RestoredAndClosed
        <4> QED BY <3>1, <4>2, <4>3
      <3>5. dogs'[w].todo = {} /\ dogs'[w].pc # "success"
        BY <1>c, <1>e, <2>3, <3>0 DEF NextCandidate, cur
      <3>6. \A i \in DOMAIN journal' :
               i \in DOMAIN journal \/ i = Len(journal) + 1 \/ i = Len(journal) + 2
        BY <3>3
      <3>7. SnapshotsAreBaseline'
        BY <1>0, <3>1, <3>3, <3>6 DEF SnapshotsAreBaseline
      <3>8. CASE cur.exp \in D
        <4>0. ~Closed(journal, cur.exp) /\ knob = Baseline
          BY <1>c, <2>1, <3>0, <3>8 DEF Dangling
        <4>1. Dangling(journal') = {}
          BY <1>0, <3>3, <3>8 DEF OneLeak
        <4>2. Sole => OneTerminal'
          <5>1. \A i \in DOMAIN journal : ~(journal[i].exp = cur.exp /\ journal[i].stage \in Terminal)
            BY <4>0 DEF Closed, HasStage
          <5>2. "watchdog-restore" \notin Terminal
            BY DEF Terminal
          <5> QED BY <1>0, <3>1, <3>3, <3>6, <5>1, <5>2 DEF OneTerminal
        <4>3. WorksOnOpen' /\ OneLeak' /\ LeakIsOwn(p)'
          BY <1>c, <3>0, <3>8, <4>1 DEF WorksOnOpen, OneLeak, LeakIsOwn
        <4>4. \A v \in Watchdogs : WorksOnLeak(v)'
          BY <1>0, <1>v, <3>3, <3>5, <4>1 DEF WorksOnLeak
        <4>5. LeakInv'
          BY <1>c, <2>1, <3>0, <3>8, <4>0
             DEF LeakInv, LeakIsDiscoverable, AtSnapshot, IntentIsOpen, OlderLeak
        <4>6. DisciplineInv'
          BY <3>7, <4>2, <4>3, <4>4, <4>5 DEF DisciplineInv
        <4>7. Leases!Close(cur.exp) /\ cur.exp \in ClosedIds(journal')
          <5>1. cur.exp \notin ClosedIds(journal)
            BY <4>0 DEF ClosedIds
          <5> QED BY <2>1, <3>3, <5>1 DEF Leases!Close
        <4> QED BY <4>0, <4>6, <4>7 DEF Leases!ExclusiveNext
      <3>9. CASE cur.exp \notin D
        <4>1. ~Sole /\ Dangling(journal') = D /\ ClosedIds(journal') = ClosedIds(journal)
          BY <1>c, <3>0, <3>3, <3>9
        <4> QED BY <1>h, <2>1, <3>3, <3>5, <3>7, <4>1
      <3> QED BY <3>8, <3>9
    <2> QED BY <1>4, <2>2, <2>3 DEF RecordSuccess, Insert, cur
  <1>5. ASSUME RecordFailure(w) PROVE Good
    <2>1. knob' = knob /\ journal' = journal /\ dogs[w].pc # "asleep"
      BY <1>5, <1>a DEF RecordFailure
    <2>2. "append" \in WatchdogPCs \ {"asleep"} /\ dogs[w].error \in RestoreErrors \cup {"none"}
      BY <1>0 DEF WatchdogPCs, DogsInv, WatchdogTypeOK
    <2>3. dogs'[w].pc # "success"
      BY <1>5, <1>a, <1>c, <1>e, <1>s, <2>1, <2>2 DEF RecordFailure, NextCandidate, cur
    <2> QED BY <1>q, <2>1, <2>3
  <1>6. ASSUME AppendFailure(w) PROVE Good
    <2>1. knob' = knob /\ dogs[w].pc = "append"
      BY <1>6 DEF AppendFailure
    <2>2. CASE AbortPass(w)
      BY <1>a, <1>q, <2>1, <2>2
    <2> DEFINE r == RestoreRow(cur.exp, cur.snap, Reason(cur), dogs[w].error, now)
    <2>3. CASE journal' = journal \o <<r>> /\ NextCandidate(w)
      <3>0. dogs[w].error \in Notes /\ dogs[w].pc # "asleep"
        BY <1>0, <2>1 DEF DogsInv, WatchdogTypeOK, Notes
      <3>1. r \in Rows /\ r.exp = cur.exp /\ r.stage = "watchdog-restore"
        BY <1>0, <1>c, <3>0, DogRows
      <3> HIDE DEF r
      <3>2. "watchdog-restore" \notin Terminal \cup {"apply-intent"}
        BY DEF Terminal
      <3>3. Dangling(journal') = D /\ ClosedIds(journal') = ClosedIds(journal)
        BY <1>0, <2>3, <3>1, <3>2, LeasesAfter
      <3>4. dogs'[w].todo = {} /\ dogs'[w].pc # "success"
        BY <1>c, <1>e, <2>3, <3>0 DEF NextCandidate, cur
      <3>5. Sole => OneTerminal'
        BY <1>0, <2>3, <3>1, <3>2, TerminalKept
      <3>6. /\ DOMAIN journal' = 1..(Len(journal) + 1) /\ DOMAIN journal = 1..Len(journal)
            /\ Len(journal) \in Nat /\ Ids(journal') = Ids(journal) \cup {r.exp}
            /\ \A i \in DOMAIN journal : journal'[i] = journal[i]
            /\ journal'[Len(journal) + 1] = r
        BY <1>0, <2>3, <3>1, Inserted
      <3>7. SnapshotsAreBaseline'
        BY <1>0, <3>1, <3>6 DEF SnapshotsAreBaseline
      <3> QED BY <1>h, <2>1, <3>3, <3>4, <3>5, <3>6, <3>7
    <2> QED BY <1>6, <2>2, <2>3 DEF AppendFailure, Insert, cur
  <1>7. ASSUME WatchdogCrash(w) PROVE Good
    <2>1. knob' = knob /\ journal' = journal /\ dogs'[w].pc # "success"
      BY <1>7, <1>n, <1>r DEF WatchdogCrash
    <2> QED BY <1>q, <2>1
  <1> QED BY <1>1, <1>2, <1>3, <1>4, <1>5, <1>6, <1>7 DEF Reclaim

\* Every disciplined step keeps the invariant and implements the exclusive leases.
LEMMA DisciplineStep ==
    ASSUME SharedInv, DisciplineInv, NEW p, Planes = {p},
           \A w \in Watchdogs : Policy[w] = "ExpiredLeasesOnly",
           "rollback" \notin Faults, "restore" \in Faults => Sole, [DisciplinedNext]_vars
    PROVE  DisciplineInv' /\ [Leases!ExclusiveNext]_(Leases!vars)
  <1>1. ASSUME journal' = journal, knob' = knob, planes' = planes, dogs' = dogs, OwnersInLease'
        PROVE  DisciplineInv' /\ [Leases!ExclusiveNext]_(Leases!vars)
    <2>1. WorksOnOpen' /\ (Sole => OneTerminal') /\ OneLeak' /\ SnapshotsAreBaseline'
      BY <1>1 DEF DisciplineInv, WorksOnOpen, OneTerminal, OneLeak, SnapshotsAreBaseline
    <2>2. LeakInv'
      BY <1>1 DEF DisciplineInv, LeakInv, LeakIsDiscoverable, AtSnapshot, IntentIsOpen, OlderLeak
    <2>3. (\A q \in Planes : LeakIsOwn(q)') /\ (\A v \in Watchdogs : WorksOnLeak(v)')
      BY <1>1 DEF DisciplineInv, LeakIsOwn, WorksOnLeak
    <2>4. DisciplineInv'
      BY <1>1, <2>1, <2>2, <2>3 DEF DisciplineInv
    <2> QED BY <1>1, <2>4 DEF Leases!vars
  <1>2. CASE UNCHANGED vars
    <2>1. journal' = journal /\ knob' = knob /\ now' = now /\ planes' = planes /\ dogs' = dogs
      BY <1>2 DEF vars, hostVars
    <2>2. OwnersInLease'
      BY <2>1 DEF DisciplineInv, OwnersInLease, IntentOf
    <2> QED BY <1>1, <2>1, <2>2
  <1>3. CASE DisciplinedNext
    <2>0. Next /\ OwnersInLease' /\ BeginsOnCleanJournal
      BY <1>3 DEF DisciplinedNext
    <2>1. SharedInv'
      BY <2>0, SharedStep
    <2>2. CASE PlaneNext /\ UNCHANGED dogs
      BY <2>0, <2>1, <2>2, DisciplinePlaneStep DEF PlaneNext
    <2>3. CASE WatchdogNext /\ UNCHANGED planes
      BY <2>0, <2>3, DisciplineDogStep DEF WatchdogNext
    <2>4. CASE (Tick \/ StepBack) /\ UNCHANGED <<planes, dogs>>
      BY <1>1, <2>0, <2>4 DEF Tick, StepBack
    <2> QED BY <2>0, <2>2, <2>3, <2>4 DEF Next
  <1> QED BY <1>2, <1>3

\* The host starts within the discipline.
LEMMA DisciplineInit ==
    ASSUME Init
    PROVE  DisciplineInv /\ Leases!Init
  <1>0. HostInit /\ PlaneInit /\ WatchdogInit
    BY DEF Init
  <1>1. journal = << >> /\ knob = Baseline /\ Ids(journal) = {} /\ Dangling(journal) = {}
        /\ ClosedIds(journal) = {} /\ DOMAIN journal = {}
    BY <1>0 DEF HostInit, Ids, Dangling, ClosedIds
  <1>2. \A p \in Planes : planes[p].pc = "idle" /\ planes[p].exp = 0
    BY <1>0 DEF PlaneInit, Idle
  <1>3. \A w \in Watchdogs : dogs[w].pc = "asleep" /\ dogs[w].todo = {}
    BY <1>0 DEF WatchdogInit, Asleep
  <1>4. OwnersInLease
    BY <1>1 DEF OwnersInLease, HasStage
  <1>5. WorksOnOpen /\ OneTerminal /\ OneLeak /\ SnapshotsAreBaseline
    BY <1>1, <1>2 DEF WorksOnOpen, OneTerminal, OneLeak, SnapshotsAreBaseline
  <1>6. LeakInv /\ (\A p \in Planes : LeakIsOwn(p)) /\ (\A w \in Watchdogs : WorksOnLeak(w))
    BY <1>1, <1>2, <1>3 DEF LeakInv, LeakIsDiscoverable, AtSnapshot, IntentIsOpen, OlderLeak,
       LeakIsOwn, WorksOnLeak
  <1> QED BY <1>1, <1>4, <1>5, <1>6 DEF DisciplineInv, Leases!Init

\* The safety part of the disciplined specification, without its fairness.
DisciplinedSafety == Init /\ [][DisciplinedNext]_vars

\* The discipline's invariant holds in every state of the disciplined host.
LEMMA DisciplineInvariance ==
    ASSUME NEW CONSTANT p, Planes = {p}, \A w \in Watchdogs : Policy[w] = "ExpiredLeasesOnly",
           "rollback" \notin Faults, "restore" \in Faults => Sole
    PROVE  DisciplinedSafety => [](SharedInv /\ DisciplineInv)
  <1>1. Init => SharedInv /\ DisciplineInv
    BY SharedInit, DisciplineInit
  <1>2. SharedInv /\ DisciplineInv /\ [DisciplinedNext]_vars => (SharedInv /\ DisciplineInv)'
    BY DisciplineStep, SharedStep DEF DisciplinedNext
  <1> QED BY <1>1, <1>2, PTL DEF DisciplinedSafety

\* Under the operating discipline, with the plane and the polling watchdog of one
\* host, an experiment is closed once, by its owner or by the watchdog, however
\* they crash and whatever the clock does (record_outcome, record_success).
THEOREM ClosedOnce ==
    ASSUME NEW CONSTANT p, Planes = {p}, NEW CONSTANT w, Watchdogs = {w},
           Policy[w] = "ExpiredLeasesOnly", "rollback" \notin Faults
    PROVE  DisciplinedSpec => []OneTerminal
  <1>0. Sole /\ \A v \in Watchdogs : Policy[v] = "ExpiredLeasesOnly"
    BY DEF Sole
  <1>1. DisciplinedSafety => [](SharedInv /\ DisciplineInv)
    BY <1>0, DisciplineInvariance
  <1>2. DisciplineInv => OneTerminal
    BY <1>0 DEF DisciplineInv
  <1>3. DisciplinedSpec => DisciplinedSafety
    BY PTL DEF DisciplinedSpec, DisciplinedSafety
  <1> QED BY <1>1, <1>2, <1>3, PTL

\* Under the same discipline the plane and any number of watchdogs that poll
\* together implement exclusive leases: leases do not overlap, the setting moves
\* only under one, and whoever closes it does so at the baseline (run_lifecycle,
\* reclaim).  Several watchdogs need restores that do not fail: a second one may
\* put back an experiment that the first has closed.
THEOREM ImplementsExclusiveLeases ==
    ASSUME NEW CONSTANT p, Planes = {p}, \A w \in Watchdogs : Policy[w] = "ExpiredLeasesOnly",
           "rollback" \notin Faults, "restore" \in Faults => Sole
    PROVE  DisciplinedSpec => LeasesAreExclusive
  <1>1. DisciplinedSafety => [](SharedInv /\ DisciplineInv)
    BY DisciplineInvariance
  <1>2. SharedInv /\ DisciplineInv /\ [DisciplinedNext]_vars => [Leases!ExclusiveNext]_(Leases!vars)
    BY DisciplineStep
  <1>3. Init => Leases!Init
    BY DisciplineInit
  <1>4. DisciplinedSpec => DisciplinedSafety
    BY PTL DEF DisciplinedSpec, DisciplinedSafety
  <1> QED BY <1>1, <1>2, <1>3, <1>4, PTL DEF DisciplinedSafety, LeasesAreExclusive, Leases!ExclusiveSpec

\* What exclusive leases promise a host: it is off its baseline only while a lease
\* is open, and they are leases in the weaker sense as well.
LEMMA ExclusiveLeases == LeasesAreExclusive => []LeakIsDiscoverable /\ WritesAreLeased
  <1>1. Leases!Init => LeakIsDiscoverable
    BY DEF Leases!Init, LeakIsDiscoverable
  <1>2. LeakIsDiscoverable /\ [Leases!ExclusiveNext]_(Leases!vars) => LeakIsDiscoverable'
    BY DEF LeakIsDiscoverable, Leases!ExclusiveNext, Leases!Lease, Leases!Change, Leases!Close, Leases!vars
  <1>3. [Leases!ExclusiveNext]_(Leases!vars) => [Leases!Next]_(Leases!vars)
    BY DEF Leases!ExclusiveNext, Leases!Next
  <1> QED BY <1>1, <1>2, <1>3, PTL
          DEF LeasesAreExclusive, WritesAreLeased, Leases!ExclusiveSpec, Leases!Spec

\* Under the discipline a host that is off its baseline has an open experiment
\* that a recovery pass selects, whoever crashed: plane or watchdogs in the middle
\* of a restore (run_lifecycle, reclaim).
THEOREM LeakDiscoverableWithWatchdogs ==
    ASSUME NEW CONSTANT p, Planes = {p}, \A w \in Watchdogs : Policy[w] = "ExpiredLeasesOnly",
           "rollback" \notin Faults, "restore" \in Faults => Sole
    PROVE  DisciplinedSpec => []LeakIsDiscoverable
  <1>1. DisciplinedSpec => LeasesAreExclusive
    BY ImplementsExclusiveLeases
  <1> QED BY <1>1, ExclusiveLeases, PTL

\* Under the discipline every write of plane and watchdogs is leased, and an
\* experiment that several watchdogs close counts as closed once (run_stages,
\* record_success).
THEOREM WritesLeasedWithWatchdogs ==
    ASSUME NEW CONSTANT p, Planes = {p}, \A w \in Watchdogs : Policy[w] = "ExpiredLeasesOnly",
           "rollback" \notin Faults, "restore" \in Faults => Sole
    PROVE  DisciplinedSpec => WritesAreLeased
  <1>1. DisciplinedSpec => LeasesAreExclusive
    BY ImplementsExclusiveLeases
  <1> QED BY <1>1, ExclusiveLeases, PTL

\* Under the discipline a pass that closes the last unclosed experiment leaves the
\* host at its baseline: beginning on a clean journal is all that two crashes of
\* one owner lack (reclaim).
THEOREM PassRestoresBaseline ==
    ASSUME NEW CONSTANT p, Planes = {p}, \A w \in Watchdogs : Policy[w] = "ExpiredLeasesOnly",
           "rollback" \notin Faults, "restore" \in Faults => Sole
    PROVE  DisciplinedSpec => PassEndsAtBaseline
  <1>1. LeakIsDiscoverable' => (PassCloses => knob' = Baseline)
    BY DEF LeakIsDiscoverable, PassCloses
  <1> QED BY <1>1, LeakDiscoverableWithWatchdogs, PTL DEF PassEndsAtBaseline

\* What the comment in reclaim assumes does hold under the discipline: there is at
\* most one unclosed experiment, and its snapshot is the baseline, so that it does
\* not matter in which order a pass restores (unclosed_experiments).
THEOREM DisciplineLeavesOneUnclosed ==
    ASSUME NEW CONSTANT p, Planes = {p}, \A w \in Watchdogs : Policy[w] = "ExpiredLeasesOnly",
           "rollback" \notin Faults, "restore" \in Faults => Sole
    PROVE  DisciplinedSpec => [](OneUnclosed /\ OldestLeakHoldsBaseline)
  <1>1. DisciplinedSafety => [](SharedInv /\ DisciplineInv)
    BY DisciplineInvariance
  <1>2. DisciplineInv => OneUnclosed
    <2> SUFFICES ASSUME DisciplineInv PROVE OneUnclosed
      OBVIOUS
    <2>1. CASE Dangling(journal) = {}
      <3>1. Cardinality(Dangling(journal)) = 0
        BY <2>1, FS_EmptySet
      <3> QED BY <3>1 DEF OneUnclosed
    <2>2. CASE Dangling(journal) # {}
      <3>1. PICK e : Dangling(journal) = {e}
        BY <2>2 DEF DisciplineInv, OneLeak
      <3>2. Cardinality(Dangling(journal)) = 1
        BY <3>1, FS_Singleton
      <3> QED BY <3>2 DEF OneUnclosed
    <2> QED BY <2>1, <2>2
  <1>3. SharedInv /\ DisciplineInv => OldestLeakHoldsBaseline
    <2> SUFFICES ASSUME SharedInv, DisciplineInv, NEW c \in UnclosedExperiments(journal, now)
                 PROVE  c.snap = Baseline
      BY DEF OldestLeakHoldsBaseline
    <2>1. journal \in Seq(Rows) /\ now \in Nat /\ SnapshotsAreBaseline
      BY DEF SharedInv, TypeInv, PlaneTypeOK, DisciplineInv
    <2>2. PICK k \in DOMAIN journal : journal[k].stage = "snapshot" /\ c.snap = journal[k].val
      BY <2>1, ScanTypes
    <2> QED BY <2>1, <2>2 DEF SnapshotsAreBaseline
  <1>4. DisciplinedSpec => DisciplinedSafety
    BY PTL DEF DisciplinedSpec, DisciplinedSafety
  <1> QED BY <1>1, <1>2, <1>3, <1>4, PTL

-----------------------------------------------------------------------------
\* Watchdogs repeat each other at most once

\* The row a step adds at n is the watchdog row of experiment e that says note;
\* no other watchdog row is added, and none is changed.
Adds(n, e, note) ==
    /\ n = Len(journal) + 1
    /\ \A i \in DOMAIN journal : i \in DOMAIN journal' /\ journal'[i] = journal[i]
    /\ n \in DOMAIN journal'
    /\ journal'[n].exp = e /\ journal'[n].stage = "watchdog-restore" /\ journal'[n].note = note
    /\ \A i \in DOMAIN journal' : i \notin DOMAIN journal /\ i # n =>
          journal'[i].stage # "watchdog-restore"

\* No watchdog row is added or changed.
Silent ==
    /\ \A i \in DOMAIN journal : i \in DOMAIN journal' /\ journal'[i] = journal[i]
    /\ \A i \in DOMAIN journal' : i \notin DOMAIN journal =>
          journal'[i].stage # "watchdog-restore"

\* The watchdogs with experiment e among the candidates of their pass.
Pending(e) == {w \in Watchdogs : \E c \in dogs[w].todo : c.exp = e}

\* The watchdogs that found their failure of e new and have yet to insert it.
Writers(e, note) ==
    {w \in Watchdogs : /\ dogs[w].pc = "append" /\ dogs[w].error = note
                       /\ Current(w).exp = e}

\* No watchdog row of the experiment from i on says anything else.
SameFrom(i) ==
    \A k \in RestoreRows(journal[i].exp) : k >= i => journal[k].note = journal[i].note

After(i) == {k \in RestoreRows(journal[i].exp) : k > i}

\* A restore closed its experiment, so that only the passes under way add to it.
Settled(i) ==
    /\ Closed(journal, journal[i].exp)
    /\ Cardinality(After(i)) + Cardinality(Pending(journal[i].exp)) < Cardinality(Watchdogs)

\* A run of equal failures grows only by watchdogs that looked before it began.
Bounded(i) ==
    /\ Cardinality(RepeatsOf(i)) <= Cardinality(Watchdogs)
    /\ SameFrom(i) =>
          Cardinality(RepeatsOf(i)) + Cardinality(Writers(journal[i].exp, journal[i].note))
            <= Cardinality(Watchdogs)

\* A scan returns an experiment once.
OneEach(w) == \A c, d \in dogs[w].todo : c.exp = d.exp => c = d

RepeatsInv ==
    /\ \A w \in Watchdogs : OneEach(w)
    /\ \A i \in DOMAIN journal : journal[i].stage = "watchdog-restore" =>
          /\ journal[i].note = "restored" => Settled(i)
          /\ journal[i].note # "restored" => Bounded(i)

\* Steps that add no watchdog row leave the runs of rows as they are.
LEMMA SilentRows ==
    ASSUME Silent
    PROVE  /\ \A e : RestoreRows(e)' = RestoreRows(e)
           /\ \A i \in DOMAIN journal :
                 /\ RepeatsOf(i)' = RepeatsOf(i) /\ After(i)' = After(i)
                 /\ SameFrom(i)' <=> SameFrom(i)
  <1>1. ASSUME NEW e PROVE RestoreRows(e)' = RestoreRows(e)
    BY DEF Silent, RestoreRows
  <1>2. ASSUME NEW i \in DOMAIN journal
        PROVE  /\ RepeatsOf(i)' = RepeatsOf(i) /\ After(i)' = After(i)
               /\ SameFrom(i)' <=> SameFrom(i)
    <2>1. PICK e : e = journal[i].exp
      OBVIOUS
    <2>2. PICK R : R = RestoreRows(e)
      OBVIOUS
    <2>3. journal'[i] = journal[i] /\ RestoreRows(e)' = R
      BY <1>1, <2>2 DEF Silent
    <2>4. \A k \in R : journal'[k] = journal[k]
      BY <2>2 DEF Silent, RestoreRows
    <2>5. After(i)' = After(i)
      BY <2>1, <2>2, <2>3 DEF After
    <2>6. SameFrom(i)' <=> SameFrom(i)
      BY <2>1, <2>2, <2>3, <2>4 DEF SameFrom
    <2>7. RepeatsOf(i)' = RepeatsOf(i)
      BY <2>1, <2>2, <2>3, <2>4 DEF RepeatsOf
    <2> QED BY <2>5, <2>6, <2>7
  <1> QED BY <1>1, <1>2

\* What one watchdog row more does to the runs of rows (record_failure,
\* record_success).
LEMMA AddedRow ==
    ASSUME journal \in Seq(Rows), NEW n \in Nat, NEW e, NEW note, Adds(n, e, note)
    PROVE  /\ RestoreRows(e)' = RestoreRows(e) \cup {n}
           /\ RepeatsOf(n)' \subseteq {n} /\ After(n)' = {}
           /\ \A i \in RestoreRows(e) :
                 /\ After(i)' = After(i) \cup {n} /\ n \notin After(i)
                 /\ RepeatsOf(i)' \subseteq RepeatsOf(i) \cup {n}
                 /\ SameFrom(i)' => SameFrom(i) /\ note = journal[i].note
                 /\ ~SameFrom(i)' => RepeatsOf(i)' \subseteq RepeatsOf(i)
           /\ \A i \in DOMAIN journal : journal[i].exp # e =>
                 /\ RepeatsOf(i)' = RepeatsOf(i) /\ After(i)' = After(i)
                 /\ SameFrom(i)' <=> SameFrom(i)
  <1>0. /\ Len(journal) \in Nat /\ DOMAIN journal = 1..Len(journal) /\ n = Len(journal) + 1
        /\ \A i \in DOMAIN journal : i \in Nat /\ i < n
    BY DEF Adds
  <1>1. /\ \A i \in DOMAIN journal : i \in DOMAIN journal' /\ journal'[i] = journal[i]
        /\ n \in DOMAIN journal' /\ n \notin DOMAIN journal
        /\ journal'[n].exp = e /\ journal'[n].stage = "watchdog-restore" /\ journal'[n].note = note
        /\ \A i \in DOMAIN journal' : i \notin DOMAIN journal /\ i # n =>
              journal'[i].stage # "watchdog-restore"
    BY <1>0 DEF Adds
  <1>2. RestoreRows(e)' = RestoreRows(e) \cup {n}
    BY <1>1 DEF RestoreRows
  <1>3. ASSUME NEW d, d # e PROVE RestoreRows(d)' = RestoreRows(d)
    BY <1>1, <1>3 DEF RestoreRows
  <1>4. PICK R : R = RestoreRows(e)
    OBVIOUS
  <1>5. \A k \in R : k \in DOMAIN journal /\ journal'[k] = journal[k] /\ k \in Nat /\ k < n
    BY <1>0, <1>1, <1>4 DEF RestoreRows
  <1>6. RepeatsOf(n)' \subseteq {n} /\ After(n)' = {}
    <2>1. RestoreRows(e)' = R \cup {n} /\ journal'[n].exp = e
      BY <1>1, <1>2, <1>4
    <2>2. \A k \in R \cup {n} : (k >= n => k = n) /\ ~(k > n)
      BY <1>5
    <2> QED BY <2>1, <2>2 DEF RepeatsOf, After
  <1>7. ASSUME NEW i \in R
        PROVE  /\ After(i)' = After(i) \cup {n} /\ n \notin After(i)
               /\ RepeatsOf(i)' \subseteq RepeatsOf(i) \cup {n}
               /\ SameFrom(i)' => SameFrom(i) /\ note = journal[i].note
               /\ ~SameFrom(i)' => RepeatsOf(i)' \subseteq RepeatsOf(i)
    <2>1. /\ i \in DOMAIN journal /\ i \in Nat /\ i < n /\ n >= i
          /\ journal'[i] = journal[i] /\ journal[i].exp = e
      BY <1>4, <1>5 DEF RestoreRows
    <2>2. RestoreRows(e)' = R \cup {n} /\ RestoreRows(e) = R
      BY <1>2, <1>4, <2>1
    <2>3. n \notin R
      BY <1>5
    <2>4. After(i)' = After(i) \cup {n} /\ n \notin After(i)
      BY <2>1, <2>2, <2>3 DEF After
    <2>5. SameFrom(i)' => SameFrom(i) /\ note = journal[i].note
      BY <1>1, <1>5, <2>1, <2>2 DEF SameFrom
    <2>6. \A k \in R : k \in RepeatsOf(i)' => k \in RepeatsOf(i)
      BY <1>5, <2>1, <2>2 DEF RepeatsOf
    <2>7. RepeatsOf(i)' \subseteq R \cup {n}
      BY <2>1, <2>2 DEF RepeatsOf
    <2>8. n \in RepeatsOf(i)' => SameFrom(i)'
      <3> SUFFICES ASSUME n \in RepeatsOf(i)', NEW k \in R \cup {n}, k >= i
                   PROVE  journal'[k].note = journal'[i].note
        BY <2>1, <2>2 DEF SameFrom
      <3>1. k \in i..n
        BY <1>5, <2>1
      <3> QED BY <2>1, <2>2, <3>1 DEF RepeatsOf
    <2> QED BY <2>4, <2>5, <2>6, <2>7, <2>8
  <1>8. ASSUME NEW i \in DOMAIN journal, journal[i].exp # e
        PROVE  /\ RepeatsOf(i)' = RepeatsOf(i) /\ After(i)' = After(i)
               /\ SameFrom(i)' <=> SameFrom(i)
    <2>1. PICK d : d = journal[i].exp
      OBVIOUS
    <2>2. PICK S : S = RestoreRows(d)
      OBVIOUS
    <2>3. journal'[i] = journal[i] /\ RestoreRows(d)' = S
      BY <1>1, <1>3, <1>8, <2>1, <2>2
    <2>4. \A k \in S : journal'[k] = journal[k]
      BY <1>1, <2>2 DEF RestoreRows
    <2>5. After(i)' = After(i)
      BY <2>1, <2>2, <2>3 DEF After
    <2>6. SameFrom(i)' <=> SameFrom(i)
      BY <2>1, <2>2, <2>3, <2>4 DEF SameFrom
    <2>7. RepeatsOf(i)' = RepeatsOf(i)
      BY <2>1, <2>2, <2>3, <2>4 DEF RepeatsOf
    <2> QED BY <2>5, <2>6, <2>7
  <1> QED BY <1>2, <1>4, <1>6, <1>7, <1>8

\* A scan returns an experiment once: it has one intent and one snapshot
\* (unclosed_experiments).
LEMMA ScanOnce ==
    ASSUME SharedInv, NEW c \in UnclosedExperiments(journal, now),
           NEW d \in UnclosedExperiments(journal, now), c.exp = d.exp
    PROVE  c = d
  <1>0. /\ journal \in Seq(Rows) /\ now \in Nat /\ IntentOnce /\ UniqueCorrelation
    BY DEF SharedInv, TypeInv, PlaneTypeOK
  <1>1. PICK i, k \in DOMAIN journal :
           /\ journal[i].stage = "apply-intent" /\ journal[k].stage = "snapshot"
           /\ journal[i].exp = c.exp /\ journal[k].exp = c.exp
           /\ c = [exp |-> journal[i].exp, snap |-> journal[k].val,
                   expired |-> LeaseExpired(Age(journal[i].at, now), journal[i].lease)]
    BY <1>0, ScanTypes
  <1>2. PICK a, b \in DOMAIN journal :
           /\ journal[a].stage = "apply-intent" /\ journal[b].stage = "snapshot"
           /\ journal[a].exp = d.exp /\ journal[b].exp = d.exp
           /\ d = [exp |-> journal[a].exp, snap |-> journal[b].val,
                   expired |-> LeaseExpired(Age(journal[a].at, now), journal[a].lease)]
    BY <1>0, ScanTypes
  <1>3. i = a
    BY <1>0, <1>1, <1>2 DEF IntentOnce
  <1>4. k \in Nat /\ b \in Nat /\ k <= b /\ b <= k
    BY <1>0, <1>1, <1>2 DEF UniqueCorrelation
  <1>5. k = b
    BY <1>4
  <1> QED BY <1>1, <1>2, <1>3, <1>5

\* The watchdog goes on with candidates of its pass, or with what its scan found
\* unclosed, and writes nothing.
Rests(w) ==
    /\ Silent /\ dogs'[w].pc # "append"
    /\ \A c \in dogs'[w].todo :
          c \in dogs[w].todo \/ c \in UnclosedExperiments(journal, now)
    /\ dogs[w].todo = {} \/ dogs'[w].todo \subseteq dogs[w].todo

\* It finds that its failure is not the last one journaled.
Looks(w) ==
    /\ journal' = journal
    /\ ~LastFailureMatches(journal, Current(w).exp, dogs[w].error)
    /\ dogs'[w].todo = dogs[w].todo /\ dogs'[w].error = dogs[w].error

\* It writes about its candidate and goes on to the next.
Writes(w, note) ==
    /\ Adds(Len(journal) + 1, Current(w).exp, note)
    /\ dogs'[w].pc # "append" /\ dogs'[w].todo = dogs[w].todo \ {Current(w)}
    /\ \/ note = "restored" /\ Closed(journal', Current(w).exp)
       \/ note = dogs[w].error /\ dogs[w].pc = "append" /\ note # "restored"

\* Every step of a watchdog is one of these.
LEMMA DogKind ==
    ASSUME SharedInv, NEW w \in Watchdogs, Reclaim(w) \/ WatchdogCrash(w)
    PROVE  Rests(w) \/ Looks(w) \/ \E note : Writes(w, note)
  <1> DEFINE cur == Current(w)
  <1>0. /\ DogsInv /\ journal \in Seq(Rows) /\ now \in Nat
        /\ dogs[w] \in DogStates /\ DogInv(w)
    BY DEF SharedInv, TypeInv, PlaneTypeOK, DogsInv, WatchdogTypeOK, DogStates
  <1>t. dogs[w].todo \subseteq Candidates /\ dogs[w].error \in RestoreErrors \cup {"none"}
    BY <1>0 DEF DogStates
  <1>c. dogs[w].pc # "asleep" => dogs[w].todo # {} /\ cur \in dogs[w].todo /\ cur \in Candidates
    BY <1>0, <1>t, CurrentChosen DEF DogInv
  <1>u. journal' = journal => Silent
    BY DEF Silent
  <1>p. \A todo \in SUBSET Candidates : Pass(w, todo) =>
           dogs'[w].todo = todo /\ dogs'[w].pc # "append"
    BY <1>0, DogMoves
  <1>g. \A pc \in WatchdogPCs \ {"asleep"}, error \in RestoreErrors \cup {"none"} :
           WGoto(w, pc, error) /\ dogs[w].todo # {} =>
           dogs'[w].todo = dogs[w].todo /\ dogs'[w].pc = pc /\ dogs'[w].error = error
    BY <1>0, DogMoves
  <1>a. AbortPass(w) => Rests(w)
    BY <1>p, <1>u DEF AbortPass, Rests
  <1>n. dogs[w].todo \ {cur} \in SUBSET Candidates
    BY <1>t
  <1>k. journal' = journal /\ dogs'[w].todo \subseteq dogs[w].todo /\ dogs'[w].pc # "append"
        => Rests(w)
    BY <1>u DEF Rests
  <1> HIDE DEF cur
  <1>1. ASSUME Scan(w) PROVE Rests(w)
    <2> DEFINE T == {c \in UnclosedExperiments(journal, now) : SelectedBy(Policy[w], c)}
    <2>1. T \in SUBSET Candidates /\ T \subseteq UnclosedExperiments(journal, now)
      BY <1>0, ScanTypes
    <2>2. dogs[w].todo = {}
      BY <1>0, <1>1 DEF Scan, DogInv
    <2> HIDE DEF T
    <2>3. CASE Pass(w, T) /\ UNCHANGED <<journal, faults>>
      BY <1>p, <1>u, <2>1, <2>2, <2>3 DEF Rests
    <2> QED BY <1>1, <1>a, <2>3 DEF Scan, T
  <1>2. ASSUME ReclaimRollback(w) PROVE Rests(w)
    <2>1. journal' = journal /\ dogs[w].pc = "rollback"
      BY <1>2 DEF ReclaimRollback
    <2>2. {"check", "failure"} \subseteq WatchdogPCs \ {"asleep"}
          /\ "rollback-error" \in RestoreErrors
      BY DEF WatchdogPCs, RestoreErrors
    <2>3. dogs'[w].todo = dogs[w].todo /\ dogs'[w].pc \in {"check", "failure"}
      BY <1>c, <1>g, <1>2, <2>1, <2>2 DEF ReclaimRollback
    <2> QED BY <1>k, <2>1, <2>3
  <1>3. ASSUME ReclaimCheck(w) PROVE Rests(w)
    <2>1. journal' = journal /\ dogs[w].pc = "check"
      BY <1>3 DEF ReclaimCheck
    <2>2. {"success", "failure"} \subseteq WatchdogPCs \ {"asleep"}
          /\ {"mismatch", "probe-error"} \subseteq RestoreErrors
      BY DEF WatchdogPCs, RestoreErrors
    <2>3. dogs'[w].todo = dogs[w].todo /\ dogs'[w].pc \in {"success", "failure"}
      BY <1>c, <1>g, <1>3, <2>1, <2>2 DEF ReclaimCheck
    <2> QED BY <1>k, <2>1, <2>3
  <1>4. ASSUME RecordSuccess(w) PROVE Rests(w) \/ Writes(w, "restored")
    <2>1. dogs[w].pc = "success"
      BY <1>4 DEF RecordSuccess
    <2> DEFINE r == RestoreRow(cur.exp, cur.snap, Reason(cur), "restored", now)
               f == FailedRow(cur.exp, "watchdog", Reason(cur))
    <2>2. "restored" \in Notes
      BY DEF Notes
    <2>3. /\ r \in Rows /\ r.exp = cur.exp /\ r.stage = "watchdog-restore" /\ r.note = "restored"
          /\ f \in Rows /\ f.exp = cur.exp /\ f.stage = "failed"
      BY <1>0, <1>c, <2>1, <2>2, DogRows
    <2> HIDE DEF r, f
    <2>4. CASE journal' = journal \o <<r, f>> /\ NextCandidate(w)
      <3>0. Len(journal) \in Nat /\ DOMAIN journal = 1..Len(journal)
        BY <1>0
      <3>1. /\ DOMAIN journal' = 1..(Len(journal) + 2)
            /\ \A i \in DOMAIN journal : journal'[i] = journal[i]
            /\ journal'[Len(journal) + 1] = r /\ journal'[Len(journal) + 2] = f
        BY <1>0, <2>3, <2>4
      <3>2. /\ Len(journal) + 1 \in DOMAIN journal' /\ Len(journal) + 2 \in DOMAIN journal'
            /\ \A i \in DOMAIN journal : i \in DOMAIN journal'
            /\ \A i \in DOMAIN journal' : i \notin DOMAIN journal /\ i # Len(journal) + 1 =>
                  i = Len(journal) + 2
        BY <3>0, <3>1
      <3>3. Adds(Len(journal) + 1, cur.exp, "restored")
        BY <2>3, <3>1, <3>2 DEF Adds
      <3>4. Closed(journal', cur.exp)
        BY <2>3, <3>1, <3>2 DEF Closed, HasStage, Terminal
      <3>5. dogs'[w].todo = dogs[w].todo \ {cur} /\ dogs'[w].pc # "append"
        BY <1>n, <1>p, <2>4 DEF NextCandidate, cur
      <3> QED BY <3>3, <3>4, <3>5 DEF Writes, cur
    <2> QED BY <1>4, <1>a, <2>4 DEF RecordSuccess, Insert, r, f, cur
  <1>5. ASSUME RecordFailure(w) PROVE Rests(w) \/ Looks(w)
    <2>1. dogs[w].pc = "failure"
      BY <1>5 DEF RecordFailure
    <2>2. CASE NextCandidate(w) /\ UNCHANGED <<journal, faults>>
      <3>1. dogs'[w].todo = dogs[w].todo \ {cur} /\ dogs'[w].pc # "append"
        BY <1>n, <1>p, <2>2 DEF NextCandidate, cur
      <3> QED BY <1>k, <2>2, <3>1
    <2>3. CASE /\ ~LastFailureMatches(journal, Current(w).exp, dogs[w].error)
               /\ WGoto(w, "append", dogs[w].error) /\ UNCHANGED <<journal, faults>>
      <3>1. "append" \in WatchdogPCs \ {"asleep"}
        BY DEF WatchdogPCs
      <3>2. dogs'[w].todo = dogs[w].todo /\ dogs'[w].error = dogs[w].error
        BY <1>c, <1>g, <1>t, <2>1, <2>3, <3>1
      <3> QED BY <2>3, <3>2 DEF Looks
    <2> QED BY <1>5, <1>a, <2>2, <2>3 DEF RecordFailure
  <1>6. ASSUME AppendFailure(w) PROVE Rests(w) \/ Writes(w, dogs[w].error)
    <2>1. dogs[w].pc = "append"
      BY <1>6 DEF AppendFailure
    <2> DEFINE r == RestoreRow(cur.exp, cur.snap, Reason(cur), dogs[w].error, now)
    <2>2. dogs[w].error \in Notes /\ dogs[w].error # "restored"
      BY <1>t DEF Notes, RestoreErrors
    <2>3. r \in Rows /\ r.exp = cur.exp /\ r.stage = "watchdog-restore" /\ r.note = dogs[w].error
      BY <1>0, <1>c, <2>1, <2>2, DogRows
    <2> HIDE DEF r
    <2>4. CASE journal' = journal \o <<r>> /\ NextCandidate(w)
      <3>1. /\ DOMAIN journal' = 1..(Len(journal) + 1) /\ DOMAIN journal = 1..Len(journal)
            /\ Len(journal) \in Nat
            /\ \A i \in DOMAIN journal : journal'[i] = journal[i]
            /\ journal'[Len(journal) + 1] = r
        BY <1>0, <2>3, <2>4, AppendRow
      <3>2. /\ Len(journal) + 1 \in DOMAIN journal'
            /\ \A i \in DOMAIN journal : i \in DOMAIN journal'
            /\ \A i \in DOMAIN journal' : i \in DOMAIN journal \/ i = Len(journal) + 1
        BY <3>1
      <3>3. Adds(Len(journal) + 1, cur.exp, dogs[w].error)
        BY <2>3, <3>1, <3>2 DEF Adds
      <3>4. dogs'[w].todo = dogs[w].todo \ {cur} /\ dogs'[w].pc # "append"
        BY <1>n, <1>p, <2>4 DEF NextCandidate, cur
      <3> QED BY <2>1, <2>2, <3>3, <3>4 DEF Writes, cur
    <2> QED BY <1>6, <1>a, <2>4 DEF AppendFailure, Insert, r, cur
  <1>7. ASSUME WatchdogCrash(w) PROVE Rests(w)
    <2>1. journal' = journal /\ dogs'[w].todo = {} /\ dogs'[w].pc # "append"
      BY <1>p, <1>7 DEF WatchdogCrash
    <2> QED BY <1>k, <2>1
  <1> QED BY <1>1, <1>2, <1>3, <1>4, <1>5, <1>6, <1>7 DEF Reclaim

\* Rows are finitely many.
LEMMA FiniteRows ==
    ASSUME NEW s \in Seq(Rows), NEW T, T \subseteq DOMAIN s
    PROVE  IsFiniteSet(T) /\ Cardinality(T) \in Nat
  <1>1. DOMAIN s = 1..Len(s) /\ Len(s) \in Nat
    OBVIOUS
  <1>2. IsFiniteSet(1..Len(s))
    BY <1>1, FS_Interval
  <1>3. IsFiniteSet(T)
    BY <1>1, <1>2, FS_Subset
  <1> QED BY <1>3, FS_CardinalityType

\* The same of watchdogs, with what a subset of them loses.
LEMMA FiniteDogs ==
    ASSUME NEW T, T \subseteq Watchdogs
    PROVE  /\ IsFiniteSet(T) /\ Cardinality(T) \in Nat /\ Cardinality(Watchdogs) \in Nat
           /\ \A U : U \subseteq T => Cardinality(U) <= Cardinality(T) /\ Cardinality(U) \in Nat
           /\ \A U, w : w \in T /\ U \subseteq T \ {w} => Cardinality(U) < Cardinality(T)
  <1>1. IsFiniteSet(Watchdogs)
    BY WatchdogAssumption
  <1>2. IsFiniteSet(T)
    BY <1>1, FS_Subset
  <1>3. Cardinality(T) \in Nat /\ Cardinality(Watchdogs) \in Nat
    BY <1>1, <1>2, FS_CardinalityType
  <1>4. ASSUME NEW U, U \subseteq T PROVE Cardinality(U) <= Cardinality(T) /\ Cardinality(U) \in Nat
    BY <1>2, <1>4, FS_Subset, FS_CardinalityType
  <1>5. ASSUME NEW U, NEW w, w \in T, U \subseteq T \ {w} PROVE Cardinality(U) < Cardinality(T)
    <2>1. IsFiniteSet(T \ {w}) /\ Cardinality(T \ {w}) = Cardinality(T) - 1
      BY <1>2, <1>5, FS_RemoveElement
    <2>2. Cardinality(U) <= Cardinality(T \ {w}) /\ Cardinality(U) \in Nat
      BY <1>5, <2>1, FS_Subset, FS_CardinalityType
    <2> QED BY <1>3, <2>1, <2>2
  <1> QED BY <1>2, <1>3, <1>4, <1>5

\* The last row of a run that reaches the end of its experiment's rows is the one
\* record_failure compares with.
LEMMA RunIsLast ==
    ASSUME journal \in Seq(Rows), NEW i \in DOMAIN journal,
           journal[i].stage = "watchdog-restore", SameFrom(i)
    PROVE  LastFailureMatches(journal, journal[i].exp, journal[i].note)
  <1> DEFINE R == RestoreRows(journal[i].exp)
             T == {Len(journal) - k : k \in R}
  <1>1. Len(journal) \in Nat /\ DOMAIN journal = 1..Len(journal)
    OBVIOUS
  <1>2. R \subseteq DOMAIN journal /\ i \in R
    BY DEF RestoreRows
  <1> HIDE DEF R
  <1>3. T \subseteq Nat /\ T # {}
    BY <1>1, <1>2
  <1>4. PICK x \in T : \A y \in T : x <= y
    BY <1>3, LeastNat
  <1>5. PICK k \in R : x = Len(journal) - k
    BY <1>4
  <1>6. ASSUME NEW j \in R PROVE j <= k
    <2>1. Len(journal) - k <= Len(journal) - j
      BY <1>4, <1>5
    <2>2. j \in Nat /\ k \in Nat
      BY <1>1, <1>2
    <2> QED BY <1>1, <2>1, <2>2
  <1>7. k >= i /\ k \in DOMAIN journal
    BY <1>1, <1>2, <1>6
  <1>8. journal[k].note = journal[i].note /\ journal[k].exp = journal[i].exp
        /\ journal[k].stage = "watchdog-restore"
    BY <1>7 DEF SameFrom, R, RestoreRows
  <1>9. ASSUME NEW j \in DOMAIN journal, j > k,
               journal[j].exp = journal[i].exp, journal[j].stage = "watchdog-restore"
        PROVE  FALSE
    <2>1. j \in R
      BY <1>9 DEF R, RestoreRows
    <2> QED BY <1>1, <1>6, <1>7, <1>9, <2>1
  <1> QED BY <1>7, <1>8, <1>9 DEF LastFailureMatches

\* A step that adds no watchdog row, whoever takes it, lets no watchdog turn to a
\* closed experiment and none write what was journaled last.
LEMMA SilentStep ==
    ASSUME SharedInv, RepeatsInv, Silent, \A w \in Watchdogs : OneEach(w)',
           \A e : Closed(journal, e) => Pending(e)' \subseteq Pending(e),
           \A e, note : ~LastFailureMatches(journal, e, note)
                        \/ Writers(e, note)' \subseteq Writers(e, note)
    PROVE  RepeatsInv'
  <1>0. journal \in Seq(Rows)
    BY DEF SharedInv, TypeInv, PlaneTypeOK
  <1>1. ASSUME NEW i \in DOMAIN journal', journal'[i].stage = "watchdog-restore"
        PROVE  /\ journal'[i].note = "restored" => Settled(i)'
               /\ journal'[i].note # "restored" => Bounded(i)'
    <2>1. i \in DOMAIN journal /\ journal'[i] = journal[i]
      BY <1>1 DEF Silent
    <2>2. /\ RepeatsOf(i)' = RepeatsOf(i) /\ After(i)' = After(i)
          /\ SameFrom(i)' <=> SameFrom(i)
      BY <2>1, SilentRows
    <2>3. PICK e, note : e = journal[i].exp /\ note = journal[i].note
      OBVIOUS
    <2>4. ASSUME note = "restored" PROVE Settled(i)'
      <3>1. /\ Closed(journal, e)
            /\ Cardinality(After(i)) + Cardinality(Pending(e)) < Cardinality(Watchdogs)
        BY <1>1, <2>1, <2>3, <2>4 DEF RepeatsInv, Settled
      <3>2. Closed(journal', e)
        BY <3>1 DEF Silent, Closed, HasStage
      <3>3. Cardinality(Pending(e)') <= Cardinality(Pending(e)) /\ Cardinality(Pending(e)') \in Nat
            /\ Cardinality(Pending(e)) \in Nat /\ Cardinality(Watchdogs) \in Nat
        BY <3>1, FiniteDogs DEF Pending
      <3>4. Cardinality(After(i)) \in Nat
        BY <1>0, FiniteRows DEF After, RestoreRows
      <3>5. Cardinality(After(i)) + Cardinality(Pending(e)') < Cardinality(Watchdogs)
        BY <3>1, <3>3, <3>4
      <3> QED BY <2>1, <2>2, <2>3, <3>2, <3>5 DEF Settled
    <2>5. ASSUME note # "restored" PROVE Bounded(i)'
      <3>1. /\ Cardinality(RepeatsOf(i)) <= Cardinality(Watchdogs)
            /\ SameFrom(i) =>
                  Cardinality(RepeatsOf(i)) + Cardinality(Writers(e, note)) <= Cardinality(Watchdogs)
        BY <1>1, <2>1, <2>3, <2>5 DEF RepeatsInv, Bounded
      <3>2. ASSUME SameFrom(i)
            PROVE  Cardinality(RepeatsOf(i)) + Cardinality(Writers(e, note)')
                     <= Cardinality(Watchdogs)
        <4>1. LastFailureMatches(journal, e, note)
          BY <1>0, <1>1, <2>1, <2>3, <3>2, RunIsLast
        <4>2. /\ Cardinality(Writers(e, note)') <= Cardinality(Writers(e, note))
              /\ Cardinality(Writers(e, note)') \in Nat /\ Cardinality(Writers(e, note)) \in Nat
              /\ Cardinality(Watchdogs) \in Nat
          BY <4>1, FiniteDogs DEF Writers
        <4>3. Cardinality(RepeatsOf(i)) \in Nat
          BY <1>0, FiniteRows DEF RepeatsOf, RestoreRows
        <4> QED BY <3>1, <3>2, <4>2, <4>3
      <3> QED BY <2>1, <2>2, <2>3, <3>1, <3>2 DEF Bounded
    <2> QED BY <2>1, <2>3, <2>4, <2>5
  <1> QED BY <1>1 DEF RepeatsInv

\* A watchdog that has written is done with the experiment, and no other watchdog
\* turns to one.
LEMMA WriterIsDone ==
    ASSUME SharedInv, RepeatsInv, NEW w \in Watchdogs, Follows(w),
           dogs[w].todo # {}, dogs'[w].pc # "append",
           dogs'[w].todo = dogs[w].todo \ {Current(w)},
           NEW e, e = Current(w).exp
    PROVE  /\ w \in Pending(e) /\ Pending(e)' \subseteq Pending(e) \ {w}
           /\ \A d : Pending(d)' \subseteq Pending(d)
           /\ \A d, note : Writers(d, note)' \subseteq Writers(d, note) \ {w}
           /\ \A v \in Watchdogs : OneEach(v)'
  <1>0. dogs[w].todo \subseteq Candidates /\ OneEach(w)
    BY DEF SharedInv, DogsInv, WatchdogTypeOK, RepeatsInv
  <1>1. Current(w) \in dogs[w].todo
    BY <1>0, CurrentChosen
  <1>2. \A v \in Watchdogs : v # w => dogs'[v] = dogs[v]
    BY DEF Follows
  <1>3. \A v \in Watchdogs : dogs'[v].todo \subseteq dogs[v].todo
    BY <1>2
  <1>4. w \in Pending(e)
    BY <1>1 DEF Pending
  <1>5. w \notin Pending(e)'
    BY <1>0, <1>1 DEF Pending, OneEach
  <1>6. \A d : Pending(d)' \subseteq Pending(d)
    BY <1>3 DEF Pending
  <1>7. ASSUME NEW d, NEW note, NEW v \in Writers(d, note)' PROVE v \in Writers(d, note) \ {w}
    <2>1. v \in Watchdogs /\ v # w /\ dogs'[v].pc = "append" /\ dogs'[v].error = note
          /\ Current(v)'.exp = d
      BY <1>7 DEF Writers
    <2>2. dogs'[v] = dogs[v]
      BY <1>2, <2>1
    <2>3. Current(v)' = Current(v)
      BY <2>2 DEF Current
    <2> QED BY <2>1, <2>2, <2>3 DEF Writers
  <1>8. \A v \in Watchdogs : OneEach(v)'
    BY <1>3 DEF OneEach, RepeatsInv
  <1> QED BY <1>4, <1>5, <1>6, <1>7, <1>8

\* A row of a watchdog keeps the bounds (record_success, record_failure): whoever
\* wrote is done with the experiment, so the rows grow as the passes run out.
LEMMA WriteStep ==
    ASSUME SharedInv, RepeatsInv, NEW w \in Watchdogs, Follows(w), dogs[w].todo # {},
           journal' \in Seq(Rows), NEW note, Writes(w, note)
    PROVE  RepeatsInv'
  <1>0. journal \in Seq(Rows) /\ Cardinality(Watchdogs) \in Nat
    BY FiniteDogs DEF SharedInv, TypeInv, PlaneTypeOK
  <1>1. PICK e : e = Current(w).exp
    OBVIOUS
  <1>2. PICK n \in Nat : n = Len(journal) + 1
    BY <1>0
  <1>3. /\ Adds(n, e, note)
        /\ dogs'[w].pc # "append" /\ dogs'[w].todo = dogs[w].todo \ {Current(w)}
        /\ \/ note = "restored" /\ Closed(journal', e)
           \/ note = dogs[w].error /\ dogs[w].pc = "append" /\ note # "restored"
    BY <1>1, <1>2 DEF Writes
  <1>4. /\ w \in Pending(e) /\ Pending(e)' \subseteq Pending(e) \ {w}
        /\ \A d : Pending(d)' \subseteq Pending(d)
        /\ \A d, m : Writers(d, m)' \subseteq Writers(d, m) \ {w}
        /\ \A v \in Watchdogs : OneEach(v)'
    BY <1>1, <1>3, WriterIsDone
  <1>5. /\ \A d : Cardinality(Pending(d)) \in Nat /\ Cardinality(Pending(d)') \in Nat
        /\ \A d : Cardinality(Pending(d)') <= Cardinality(Pending(d))
        /\ Cardinality(Pending(e)') < Cardinality(Pending(e))
        /\ Cardinality(Pending(e)') < Cardinality(Watchdogs)
    <2>1. \A d : Pending(d) \subseteq Watchdogs /\ Pending(d)' \subseteq Watchdogs
      BY DEF Pending
    <2>2. Pending(e)' \subseteq Watchdogs \ {w}
      BY <1>4, <2>1
    <2>3. \A d : Cardinality(Pending(d)) \in Nat /\ Cardinality(Pending(d)') \in Nat
      BY <2>1, FiniteDogs
    <2>4. \A d : Cardinality(Pending(d)') <= Cardinality(Pending(d))
      BY <1>4, <2>1, FiniteDogs
    <2>5. Cardinality(Pending(e)') < Cardinality(Pending(e))
      BY <1>4, <2>1, FiniteDogs
    <2>6. Cardinality(Pending(e)') < Cardinality(Watchdogs)
      BY <2>2, FiniteDogs
    <2> QED BY <2>3, <2>4, <2>5, <2>6
  <1>6. \A d, m : /\ Cardinality(Writers(d, m)) \in Nat /\ Cardinality(Writers(d, m)') \in Nat
                  /\ Cardinality(Writers(d, m)') <= Cardinality(Writers(d, m))
                  /\ w \in Writers(d, m) =>
                        Cardinality(Writers(d, m)') < Cardinality(Writers(d, m))
                  /\ Cardinality(Writers(d, m)') < Cardinality(Watchdogs)
    <2> SUFFICES ASSUME NEW d, NEW m
                 PROVE  /\ Cardinality(Writers(d, m)) \in Nat /\ Cardinality(Writers(d, m)') \in Nat
                        /\ Cardinality(Writers(d, m)') <= Cardinality(Writers(d, m))
                        /\ w \in Writers(d, m) =>
                              Cardinality(Writers(d, m)') < Cardinality(Writers(d, m))
                        /\ Cardinality(Writers(d, m)') < Cardinality(Watchdogs)
      OBVIOUS
    <2>1. Writers(d, m) \subseteq Watchdogs /\ Writers(d, m)' \subseteq Watchdogs \ {w}
      BY <1>4 DEF Writers
    <2>2. Cardinality(Writers(d, m)) \in Nat
      BY <2>1, FiniteDogs
    <2>3. Cardinality(Writers(d, m)') <= Cardinality(Writers(d, m))
          /\ Cardinality(Writers(d, m)') \in Nat
      BY <1>4, <2>1, FiniteDogs
    <2>4. w \in Writers(d, m) => Cardinality(Writers(d, m)') < Cardinality(Writers(d, m))
      BY <1>4, <2>1, FiniteDogs
    <2>5. Cardinality(Writers(d, m)') < Cardinality(Watchdogs)
      BY <2>1, FiniteDogs
    <2> QED BY <2>2, <2>3, <2>4, <2>5
  <1>7. ASSUME NEW i \in DOMAIN journal', journal'[i].stage = "watchdog-restore"
        PROVE  /\ journal'[i].note = "restored" => Settled(i)'
               /\ journal'[i].note # "restored" => Bounded(i)'
    <2>1. (i \in DOMAIN journal /\ journal'[i] = journal[i]) \/ i = n
      BY <1>3, <1>7 DEF Adds
    <2>2. CASE i = n
      <3>1. journal'[n].exp = e /\ journal'[n].note = note
        BY <1>3 DEF Adds
      <3>2. RepeatsOf(n)' \subseteq {n} /\ After(n)' = {}
        BY <1>0, <1>3, AddedRow
      <3>3. Cardinality(After(n)') = 0
        BY <3>2, FS_EmptySet
      <3>4. Cardinality(RepeatsOf(n)') <= 1 /\ Cardinality(RepeatsOf(n)') \in Nat
        <4>1. IsFiniteSet({n}) /\ Cardinality({n}) = 1
          BY FS_Singleton
        <4>2. IsFiniteSet(RepeatsOf(n)') /\ Cardinality(RepeatsOf(n)') <= 1
          BY <3>2, <4>1, FS_Subset
        <4> QED BY <4>2, FS_CardinalityType
      <3>5. note = "restored" => Settled(n)'
        BY <1>3, <1>5, <3>1, <3>3 DEF Settled
      <3>6. Bounded(n)'
        <4>1. Cardinality(Writers(e, note)') < Cardinality(Watchdogs)
              /\ Cardinality(Writers(e, note)') \in Nat
          BY <1>6
        <4>2. /\ Cardinality(RepeatsOf(n)') <= Cardinality(Watchdogs)
              /\ Cardinality(RepeatsOf(n)') + Cardinality(Writers(e, note)')
                   <= Cardinality(Watchdogs)
          BY <1>0, <3>4, <4>1
        <4> QED BY <3>1, <4>2 DEF Bounded
      <3> QED BY <2>2, <3>1, <3>5, <3>6
    <2>3. CASE i \in DOMAIN journal /\ journal'[i] = journal[i] /\ journal[i].exp = e
      <3>0. i \in RestoreRows(e)
        BY <1>7, <2>3 DEF RestoreRows
      <3>1. /\ After(i)' = After(i) \cup {n} /\ n \notin After(i)
            /\ RepeatsOf(i)' \subseteq RepeatsOf(i) \cup {n}
            /\ SameFrom(i)' => SameFrom(i) /\ note = journal[i].note
            /\ ~SameFrom(i)' => RepeatsOf(i)' \subseteq RepeatsOf(i)
        BY <1>0, <1>3, <3>0, AddedRow
      <3>2. ASSUME journal[i].note = "restored" PROVE Settled(i)'
        <4>1. /\ Closed(journal, e)
              /\ Cardinality(After(i)) + Cardinality(Pending(e)) < Cardinality(Watchdogs)
          BY <1>7, <2>3, <3>2 DEF RepeatsInv, Settled
        <4>2. Closed(journal', e)
          BY <1>3, <4>1 DEF Adds, Closed, HasStage
        <4>3. IsFiniteSet(After(i)) /\ Cardinality(After(i)) \in Nat
          BY <1>0, FiniteRows DEF After, RestoreRows
        <4>4. Cardinality(After(i)') = Cardinality(After(i)) + 1
          BY <3>1, <4>3, FS_AddElement
        <4>5. Cardinality(After(i)') + Cardinality(Pending(e)') < Cardinality(Watchdogs)
          BY <1>0, <1>5, <4>1, <4>3, <4>4
        <4> QED BY <2>3, <4>2, <4>5 DEF Settled
      <3>3. ASSUME journal[i].note # "restored" PROVE Bounded(i)'
        <4>0. PICK m : m = journal[i].note
          OBVIOUS
        <4>1. /\ Cardinality(RepeatsOf(i)) <= Cardinality(Watchdogs)
              /\ SameFrom(i) =>
                    Cardinality(RepeatsOf(i)) + Cardinality(Writers(e, m)) <= Cardinality(Watchdogs)
          BY <1>7, <2>3, <3>3, <4>0 DEF RepeatsInv, Bounded
        <4>2. IsFiniteSet(RepeatsOf(i)) /\ Cardinality(RepeatsOf(i)) \in Nat
          BY <1>0, FiniteRows DEF RepeatsOf, RestoreRows
        <4>3. /\ IsFiniteSet(RepeatsOf(i) \cup {n})
              /\ Cardinality(RepeatsOf(i) \cup {n}) <= Cardinality(RepeatsOf(i)) + 1
          <5>1. /\ IsFiniteSet(RepeatsOf(i) \cup {n})
                /\ Cardinality(RepeatsOf(i) \cup {n}) =
                      IF n \in RepeatsOf(i) THEN Cardinality(RepeatsOf(i))
                                            ELSE Cardinality(RepeatsOf(i)) + 1
            BY <4>2, FS_AddElement
          <5> QED BY <4>2, <5>1
        <4>4. /\ Cardinality(RepeatsOf(i)') <= Cardinality(RepeatsOf(i)) + 1
              /\ Cardinality(RepeatsOf(i)') \in Nat
          <5>1. /\ Cardinality(RepeatsOf(i)') <= Cardinality(RepeatsOf(i) \cup {n})
                /\ IsFiniteSet(RepeatsOf(i)')
            BY <3>1, <4>3, FS_Subset
          <5>2. Cardinality(RepeatsOf(i)') \in Nat /\ Cardinality(RepeatsOf(i) \cup {n}) \in Nat
            BY <4>3, <5>1, FS_CardinalityType
          <5> QED BY <4>2, <4>3, <5>1, <5>2
        <4>5. CASE SameFrom(i)'
          <5>1. SameFrom(i) /\ note = m /\ note # "restored"
            BY <3>1, <3>3, <4>0, <4>5
          <5>2. w \in Writers(e, m)
            BY <1>1, <1>3, <5>1 DEF Writers
          <5>3. /\ Cardinality(Writers(e, m)') < Cardinality(Writers(e, m))
                /\ Cardinality(Writers(e, m)') \in Nat /\ Cardinality(Writers(e, m)) \in Nat
            BY <1>6, <5>2
          <5>4. Cardinality(RepeatsOf(i)') + Cardinality(Writers(e, m)') <= Cardinality(Watchdogs)
            BY <1>0, <4>1, <4>2, <4>4, <5>1, <5>3
          <5>5. Cardinality(RepeatsOf(i)') <= Cardinality(Watchdogs)
            BY <1>0, <4>4, <5>3, <5>4
          <5> QED BY <2>3, <4>0, <5>4, <5>5 DEF Bounded
        <4>6. CASE ~SameFrom(i)'
          <5>1. Cardinality(RepeatsOf(i)') <= Cardinality(RepeatsOf(i))
            BY <3>1, <4>2, <4>6, FS_Subset
          <5>2. Cardinality(RepeatsOf(i)') <= Cardinality(Watchdogs)
            BY <1>0, <4>1, <4>2, <4>4, <5>1
          <5> QED BY <4>6, <5>2 DEF Bounded
        <4> QED BY <4>5, <4>6
      <3> QED BY <2>3, <3>2, <3>3
    <2>4. CASE i \in DOMAIN journal /\ journal'[i] = journal[i] /\ journal[i].exp # e
      <3>1. /\ RepeatsOf(i)' = RepeatsOf(i) /\ After(i)' = After(i)
            /\ SameFrom(i)' <=> SameFrom(i)
        BY <1>0, <1>3, <2>4, AddedRow
      <3>2. PICK d, m : d = journal[i].exp /\ m = journal[i].note
        OBVIOUS
      <3>3. ASSUME m = "restored" PROVE Settled(i)'
        <4>1. /\ Closed(journal, d)
              /\ Cardinality(After(i)) + Cardinality(Pending(d)) < Cardinality(Watchdogs)
          BY <1>7, <2>4, <3>2, <3>3 DEF RepeatsInv, Settled
        <4>2. Closed(journal', d)
          BY <1>3, <4>1 DEF Adds, Closed, HasStage
        <4>3. Cardinality(After(i)) \in Nat
          BY <1>0, FiniteRows DEF After, RestoreRows
        <4>4. Cardinality(After(i)) + Cardinality(Pending(d)') < Cardinality(Watchdogs)
          BY <1>0, <1>5, <4>1, <4>3
        <4> QED BY <2>4, <3>1, <3>2, <4>2, <4>4 DEF Settled
      <3>4. ASSUME m # "restored" PROVE Bounded(i)'
        <4>1. /\ Cardinality(RepeatsOf(i)) <= Cardinality(Watchdogs)
              /\ SameFrom(i) =>
                    Cardinality(RepeatsOf(i)) + Cardinality(Writers(d, m)) <= Cardinality(Watchdogs)
          BY <1>7, <2>4, <3>2, <3>4 DEF RepeatsInv, Bounded
        <4>2. Cardinality(RepeatsOf(i)) \in Nat
          BY <1>0, FiniteRows DEF RepeatsOf, RestoreRows
        <4>3. SameFrom(i) =>
                 Cardinality(RepeatsOf(i)) + Cardinality(Writers(d, m)') <= Cardinality(Watchdogs)
          BY <1>0, <1>6, <4>1, <4>2
        <4> QED BY <2>4, <3>1, <3>2, <4>1, <4>3 DEF Bounded
      <3> QED BY <2>4, <3>2, <3>3, <3>4
    <2> QED BY <2>1, <2>2, <2>3, <2>4
  <1> QED BY <1>4, <1>7 DEF RepeatsInv

\* A plane writes no row of the watchdog's (run_lifecycle).
LEMMA PlanesAreSilent ==
    ASSUME SharedInv, PlaneNext
    PROVE  Silent
  <1>0. TypeInv /\ PlaneTypeOK /\ journal \in Seq(Rows)
    BY DEF SharedInv, TypeInv, PlaneTypeOK
  <1>1. PICK p \in Planes :
           (\E request \in Requests : Submit(p, request)) \/ Continue(p) \/ Crash(p)
    BY DEF PlaneNext
  <1>2. CASE journal' = journal
    BY <1>2 DEF Silent
  <1>3. ASSUME NEW r \in Rows, journal' = journal \o <<r>>, r.stage # "watchdog-restore"
        PROVE  Silent
    <2>1. /\ Len(journal) \in Nat /\ DOMAIN journal = 1..Len(journal)
          /\ DOMAIN journal' = 1..(Len(journal) + 1)
          /\ \A i \in DOMAIN journal : journal'[i] = journal[i]
          /\ journal'[Len(journal) + 1] = r
      BY <1>0, <1>3, Inserted
    <2>2. /\ \A i \in DOMAIN journal : i \in DOMAIN journal'
          /\ \A i \in DOMAIN journal' : i \in DOMAIN journal \/ i = Len(journal) + 1
      BY <2>1
    <2> QED BY <1>3, <2>1, <2>2 DEF Silent
  <1>4. ASSUME Quiet(p) PROVE Silent
    BY <1>2, <1>3, <1>4 DEF Quiet
  <1>5. ASSUME RecordIntent(p) PROVE Silent
    <2> DEFINE r == IntentRow(planes[p].exp, planes[p].req, now)
    <2>1. planes[p].exp # 0
      BY <1>0, <1>5 DEF RecordIntent, TypeInv, HoldsId
    <2>2. r \in Rows /\ r.stage = "apply-intent"
      BY <1>0, <2>1, PlaneRows
    <2>3. journal' = journal \/ journal' = journal \o <<r>>
      BY <1>5 DEF RecordIntent, Record, RecordError, Insert
    <2> HIDE DEF r
    <2> QED BY <1>2, <1>3, <2>2, <2>3
  <1>6. ASSUME Apply(p) \/ Rollback(p) PROVE Silent
    BY <1>2, <1>6 DEF Apply, Rollback
  <1>7. ASSUME RecordOutcome(p) PROVE Silent
    <2> DEFINE c == Row(planes[p].exp, "completed")
               f == FailedRow(planes[p].exp, planes[p].failure.stage, planes[p].suppressed)
    <2>1. planes[p].exp # 0
      BY <1>0, <1>7 DEF RecordOutcome, TypeInv, HoldsId
    <2>2. c \in Rows /\ c.stage = "completed" /\ f \in Rows /\ f.stage = "failed"
      BY <1>0, <2>1, PlaneRows
    <2>3. journal' = journal \/ journal' = journal \o <<c>> \/ journal' = journal \o <<f>>
      BY <1>7 DEF RecordOutcome, Insert
    <2> HIDE DEF c, f
    <2> QED BY <1>2, <1>3, <2>2, <2>3
  <1> QED BY <1>0, <1>1, <1>4, <1>5, <1>6, <1>7, QuietSteps DEF Continue

\* While the watchdogs stand still, nobody turns to an experiment or writes.
LEMMA DogsStandStill ==
    ASSUME SharedInv, RepeatsInv, Silent, dogs' = dogs
    PROVE  RepeatsInv'
  <1>1. \A e : Pending(e)' = Pending(e)
    BY DEF Pending
  <1>2. \A w \in Watchdogs : Current(w)' = Current(w)
    BY DEF Current
  <1>3. \A e, note : Writers(e, note)' = Writers(e, note)
    BY <1>2 DEF Writers
  <1>4. \A w \in Watchdogs : OneEach(w)'
    BY DEF OneEach, RepeatsInv
  <1> QED BY <1>1, <1>3, <1>4, SilentStep

\* A watchdog that writes nothing: a scan skips closed experiments, and a look at
\* the journal lets through only a failure that is not the last one (reclaim).
LEMMA RestsStep ==
    ASSUME SharedInv, RepeatsInv, NEW w \in Watchdogs, Follows(w), Rests(w) \/ Looks(w)
    PROVE  RepeatsInv'
  <1>0. journal \in Seq(Rows) /\ now \in Nat
    BY DEF SharedInv, TypeInv, PlaneTypeOK
  <1>1. Silent
    BY DEF Rests, Looks, Silent
  <1>2. \A v \in Watchdogs : v # w => dogs'[v] = dogs[v]
    BY DEF Follows
  <1>3. \A c \in dogs'[w].todo :
           c \in dogs[w].todo \/ c \in UnclosedExperiments(journal, now)
    BY DEF Rests, Looks
  <1>4. ASSUME NEW e, Closed(journal, e) PROVE Pending(e)' \subseteq Pending(e)
    <2>1. \A c \in UnclosedExperiments(journal, now) : c.exp # e
      BY <1>0, <1>4, ScanTypes DEF Dangling
    <2> QED BY <1>2, <1>3, <2>1 DEF Pending
  <1>5. ASSUME NEW e, NEW note, LastFailureMatches(journal, e, note),
               NEW v \in Writers(e, note)'
        PROVE  v \in Writers(e, note)
    <2>1. v \in Watchdogs /\ dogs'[v].pc = "append" /\ dogs'[v].error = note
          /\ Current(v)'.exp = e
      BY <1>5 DEF Writers
    <2>2. CASE v # w
      <3>1. dogs'[v] = dogs[v]
        BY <1>2, <2>1, <2>2
      <3>2. Current(v)' = Current(v)
        BY <3>1 DEF Current
      <3> QED BY <2>1, <3>1, <3>2 DEF Writers
    <2>3. CASE v = w
      <3>1. Looks(w)
        BY <2>1, <2>3 DEF Rests
      <3>2. dogs'[w].todo = dogs[w].todo /\ dogs'[w].error = dogs[w].error
            /\ ~LastFailureMatches(journal, Current(w).exp, dogs[w].error)
        BY <3>1 DEF Looks
      <3>3. Current(w)' = Current(w)
        BY <3>2 DEF Current
      <3> QED BY <1>5, <2>1, <2>3, <3>2, <3>3
    <2> QED BY <2>2, <2>3
  <1>6. ASSUME NEW v \in Watchdogs PROVE OneEach(v)'
    <2>1. CASE dogs'[v].todo \subseteq dogs[v].todo
      BY <2>1 DEF OneEach, RepeatsInv
    <2>2. CASE v = w /\ dogs[w].todo = {}
      <3>1. dogs'[w].todo \subseteq UnclosedExperiments(journal, now)
        BY <1>3, <2>2
      <3> QED BY <2>2, <3>1, ScanOnce DEF OneEach
    <2>3. v = w => dogs[w].todo = {} \/ dogs'[w].todo \subseteq dogs[w].todo
      BY DEF Rests, Looks
    <2> QED BY <1>2, <2>1, <2>2, <2>3
  <1> QED BY <1>1, <1>4, <1>5, <1>6, SilentStep

\* Every step of the host keeps the bounds on what watchdogs repeat.
LEMMA RepeatsStep ==
    ASSUME SharedInv, RepeatsInv, [Next]_vars
    PROVE  RepeatsInv'
  <1>0. TypeInv /\ DogsInv
    BY DEF SharedInv
  <1>1. CASE UNCHANGED vars
    <2>1. Silent /\ dogs' = dogs
      BY <1>1 DEF vars, hostVars, Silent
    <2> QED BY <2>1, DogsStandStill
  <1>2. CASE PlaneNext /\ UNCHANGED dogs
    BY <1>2, PlanesAreSilent, DogsStandStill
  <1>3. CASE WatchdogNext /\ UNCHANGED planes
    <2>1. PICK w \in Watchdogs : Reclaim(w) \/ WatchdogCrash(w)
      BY <1>3 DEF WatchdogNext
    <2>2. Follows(w) /\ journal' \in Seq(Rows)
      BY <1>0, <2>1, DogStep DEF Reclaimed
    <2>3. CASE Rests(w) \/ Looks(w)
      BY <2>2, <2>3, RestsStep
    <2>4. ASSUME NEW note, Writes(w, note) PROVE RepeatsInv'
      <3>1. dogs[w].todo # {}
        <4>1. dogs[w].pc # "asleep"
          <5>1. CASE dogs[w].pc = "asleep"
            <6>1. Scan(w)
              BY <2>1, <5>1 DEF Reclaim, ReclaimRollback, ReclaimCheck, RecordSuccess,
                                RecordFailure, AppendFailure, WatchdogCrash
            <6>2. journal' = journal
              BY <6>1 DEF Scan, AbortPass
            <6> QED BY <2>2, <2>4, <6>2 DEF Writes, Adds
          <5> QED BY <5>1
        <4> QED BY <1>0, <4>1 DEF DogsInv, DogInv
      <3> QED BY <2>2, <2>4, <3>1, WriteStep
    <2> QED BY <2>1, <2>3, <2>4, DogKind
  <1>4. CASE (Tick \/ StepBack) /\ UNCHANGED <<planes, dogs>>
    <2>1. Silent /\ dogs' = dogs
      BY <1>4 DEF Tick, StepBack, Silent
    <2> QED BY <2>1, DogsStandStill
  <1> QED BY <1>1, <1>2, <1>3, <1>4 DEF Next

\* The bounds hold in every state of the host.
LEMMA RepeatsInvariance == Spec => [](SharedInv /\ RepeatsInv)
  <1>1. Init => SharedInv /\ RepeatsInv
    <2> SUFFICES ASSUME Init PROVE SharedInv /\ RepeatsInv
      OBVIOUS
    <2>1. DOMAIN journal = {} /\ \A w \in Watchdogs : dogs[w].todo = {}
      BY DEF Init, HostInit, WatchdogInit, Asleep
    <2>2. RepeatsInv
      BY <2>1 DEF RepeatsInv, OneEach
    <2> QED BY <2>2, SharedInit
  <1>2. SharedInv /\ RepeatsInv /\ [Next]_vars => (SharedInv /\ RepeatsInv)'
    BY RepeatsStep, SharedStep
  <1> QED BY <1>1, <1>2, PTL DEF Spec

\* However many planes and watchdogs there are and however they crash, once a
\* restore is journaled every other watchdog adds at most the row of the pass it
\* was in, and the one that restored adds none (reclaim, record_success).
THEOREM RestoreIsOnce == Spec => []RestoredOnce
  <1>1. SharedInv /\ RepeatsInv => RestoredOnce
    <2> SUFFICES ASSUME SharedInv, RepeatsInv, NEW e \in Ids(journal), NEW i \in RestoreRows(e),
                        journal[i].note = "restored"
                 PROVE  Cardinality({k \in RestoreRows(e) : k > i}) < Cardinality(Watchdogs)
      BY DEF RestoredOnce
    <2>0. journal \in Seq(Rows)
      BY DEF SharedInv, TypeInv, PlaneTypeOK
    <2>1. i \in DOMAIN journal /\ journal[i].exp = e /\ journal[i].stage = "watchdog-restore"
      BY DEF RestoreRows
    <2>2. Cardinality(After(i)) + Cardinality(Pending(e)) < Cardinality(Watchdogs)
      BY <2>1 DEF RepeatsInv, Settled
    <2>3. Cardinality(After(i)) \in Nat
      BY <2>0, FiniteRows DEF After, RestoreRows
    <2>4. Cardinality(Pending(e)) \in Nat /\ Cardinality(Watchdogs) \in Nat
      BY FiniteDogs DEF Pending
    <2>5. Cardinality(After(i)) < Cardinality(Watchdogs)
      BY <2>2, <2>3, <2>4
    <2> QED BY <2>1, <2>5 DEF After
  <1> QED BY <1>1, RepeatsInvariance, PTL

\* However many planes and watchdogs there are and however long a knob is stuck,
\* a run of equal rows of an experiment has at most one row per watchdog: the
\* journal does not grow with every pass (record_failure).
THEOREM FailureIsNotRepeated == Spec => []NoRepeatedFailure
  <1>1. SharedInv /\ RepeatsInv => NoRepeatedFailure
    <2> SUFFICES ASSUME SharedInv, RepeatsInv, NEW e \in Ids(journal), NEW i \in RestoreRows(e)
                 PROVE  Cardinality(RepeatsOf(i)) <= Cardinality(Watchdogs)
      BY DEF NoRepeatedFailure
    <2>0. journal \in Seq(Rows)
      BY DEF SharedInv, TypeInv, PlaneTypeOK
    <2>1. i \in DOMAIN journal /\ journal[i].exp = e /\ journal[i].stage = "watchdog-restore"
      BY DEF RestoreRows
    <2>2. CASE journal[i].note # "restored"
      BY <2>1, <2>2 DEF RepeatsInv, Bounded
    <2>3. CASE journal[i].note = "restored"
      <3>1. Cardinality(After(i)) + Cardinality(Pending(e)) < Cardinality(Watchdogs)
        BY <2>1, <2>3 DEF RepeatsInv, Settled
      <3>2. IsFiniteSet(After(i)) /\ Cardinality(After(i)) \in Nat
        BY <2>0, FiniteRows DEF After, RestoreRows
      <3>3. Cardinality(Pending(e)) \in Nat /\ Cardinality(Watchdogs) \in Nat
        BY FiniteDogs DEF Pending
      <3>4. i \in Nat /\ \A k \in RestoreRows(e) : k \in Nat
        BY <2>0, <2>1 DEF RestoreRows
      <3>5. RepeatsOf(i) \subseteq After(i) \cup {i} /\ i \notin After(i)
        BY <2>1, <3>4 DEF RepeatsOf, After
      <3>6. IsFiniteSet(After(i) \cup {i}) /\ Cardinality(After(i) \cup {i}) = Cardinality(After(i)) + 1
        BY <3>2, <3>5, FS_AddElement
      <3>7. Cardinality(RepeatsOf(i)) <= Cardinality(After(i)) + 1 /\ IsFiniteSet(RepeatsOf(i))
        BY <3>5, <3>6, FS_Subset
      <3>8. Cardinality(RepeatsOf(i)) \in Nat
        BY <3>7, FS_CardinalityType
      <3> QED BY <3>1, <3>2, <3>3, <3>7, <3>8
    <2> QED BY <2>2, <2>3
  <1> QED BY <1>1, RepeatsInvariance, PTL

-----------------------------------------------------------------------------
\* How often an experiment is closed

\* The terminal rows of watchdogs, and those of owners.
ByWatchdog(i) == journal[i].stage \in Terminal /\ journal[i].note = "watchdog"

ByOwner(i) == journal[i].stage \in Terminal /\ journal[i].note # "watchdog"

\* An owner closes its experiment once and is then done with it, and a watchdog's
\* terminal row stands behind its restore row.
ClosingInv ==
    /\ \A i, k \in DOMAIN journal :
          ByOwner(i) /\ ByOwner(k) /\ journal[i].exp = journal[k].exp => i = k
    /\ \A p \in Planes, i \in DOMAIN journal :
          planes[p].exp # 0 /\ ByOwner(i) => journal[i].exp # planes[p].exp
    /\ \A i \in DOMAIN journal : ByWatchdog(i) =>
          /\ i - 1 \in RestoreRows(journal[i].exp)
          /\ journal[i - 1].note = "restored"

\* The rows of a plane, told from a watchdog's by their note (record_outcome).
LEMMA OwnersNote ==
    ASSUME SharedInv, NEW p \in Planes,
           (\E request \in Requests : Submit(p, request)) \/ Continue(p) \/ Crash(p)
    PROVE  \A r : journal' = journal \o <<r>> /\ r.stage \in Terminal => r.note # "watchdog"
  <1>0. TypeInv /\ PlaneTypeOK /\ journal \in Seq(Rows) /\ planes[p] \in PlaneStates
    BY DEF SharedInv, TypeInv, PlaneTypeOK
  <1> DEFINE Unlike(r) == r.stage \in Terminal => r.note # "watchdog"
  <1> SUFFICES ASSUME NEW r, journal' = journal \o <<r>> PROVE Unlike(r)
    OBVIOUS
  <1>1. ASSUME NEW s, journal' = journal \o <<s>> PROVE r = s
    BY <1>0, <1>1
  <1>2. journal' # journal
    BY <1>0
  <1>3. ASSUME Quiet(p) PROVE Unlike(r)
    BY <1>1, <1>2, <1>3 DEF Quiet
  <1>4. ASSUME RecordIntent(p) PROVE Unlike(r)
    <2>1. r = IntentRow(planes[p].exp, planes[p].req, now)
      BY <1>1, <1>2, <1>4 DEF RecordIntent, Record, RecordError, Insert
    <2>2. planes[p].exp # 0
      BY <1>0, <1>4 DEF RecordIntent, TypeInv, HoldsId
    <2>3. r.stage = "apply-intent"
      BY <1>0, <2>1, <2>2, PlaneRows
    <2> QED BY <2>3 DEF Terminal
  <1>5. ASSUME Apply(p) \/ Rollback(p) PROVE Unlike(r)
    BY <1>2, <1>5 DEF Apply, Rollback
  <1>6. ASSUME RecordOutcome(p) PROVE Unlike(r)
    <2>1. planes[p].exp # 0
      BY <1>0, <1>6 DEF RecordOutcome, TypeInv, HoldsId
    <2>2. \/ r = Row(planes[p].exp, "completed")
          \/ r = FailedRow(planes[p].exp, planes[p].failure.stage, planes[p].suppressed)
      BY <1>1, <1>2, <1>6 DEF RecordOutcome, Insert
    <2>3. r.note = "none" \/ r.note = planes[p].failure.stage
      <3>1. Row(planes[p].exp, "completed").note = "none"
        BY <1>0, <2>1, PlaneRows
      <3>2. FailedRow(planes[p].exp, planes[p].failure.stage, planes[p].suppressed).note =
               planes[p].failure.stage
        BY <1>0, <2>1, PlaneRows
      <3> QED BY <2>2, <3>1, <3>2
    <2>4. planes[p].failure.stage \in FailureStages \cup {"none"}
      BY <1>0 DEF PlaneStates, Failures, NoFailure
    <2> QED BY <2>3, <2>4 DEF FailureStages
  <1> QED BY <1>0, <1>3, <1>4, <1>5, <1>6, QuietSteps DEF Continue

\* Rows stay where they are; what each of them is does not change.
LEMMA RowsStay ==
    ASSUME \A i \in DOMAIN journal : i \in DOMAIN journal' /\ journal'[i] = journal[i]
    PROVE  \A i \in DOMAIN journal :
              /\ ByOwner(i)' <=> ByOwner(i)
              /\ ByWatchdog(i)' <=> ByWatchdog(i)
              /\ \A e : i \in RestoreRows(e) => i \in RestoreRows(e)'
  BY DEF ByOwner, ByWatchdog, RestoreRows

\* A step of an owner (run_lifecycle).
LEMMA OwnerCloses ==
    ASSUME SharedInv, ClosingInv, PlaneNext
    PROVE  ClosingInv'
  <1>0. TypeInv /\ UniqueCorrelation /\ journal \in Seq(Rows) /\ \A q \in Planes : HoldsId(q)
    BY DEF SharedInv, TypeInv, PlaneTypeOK
  <1>1. PICK p \in Planes :
           (\E request \in Requests : Submit(p, request)) \/ Continue(p) \/ Crash(p)
    BY DEF PlaneNext
  <1>2. Kind(p)
    BY <1>0, <1>1, StepKind
  <1>3. \A q \in Planes : q # p => planes'[q] = planes[q]
    BY <1>2 DEF Kind, Moves
  <1>4. CASE journal' = journal /\ (planes'[p].exp = planes[p].exp \/ planes'[p].exp = 0)
    <2>1. \A i : /\ (ByOwner(i)' <=> ByOwner(i)) /\ (ByWatchdog(i)' <=> ByWatchdog(i))
                 /\ \A e : RestoreRows(e)' = RestoreRows(e)
      BY <1>4 DEF ByOwner, ByWatchdog, RestoreRows
    <2>2. \A q \in Planes : planes'[q].exp = planes[q].exp \/ planes'[q].exp = 0
      BY <1>3, <1>4
    <2> QED BY <1>4, <2>1, <2>2 DEF ClosingInv
  <1>5. ASSUME NEW r \in Rows, journal' = journal \o <<r>>
        PROVE  LET n == Len(journal) + 1
               IN  /\ n \in DOMAIN journal' /\ journal'[n] = r
                   /\ DOMAIN journal' = DOMAIN journal \cup {n}
                   /\ \A i \in DOMAIN journal : i \in DOMAIN journal' /\ journal'[i] = journal[i]
    <2>1. /\ Len(journal) \in Nat /\ DOMAIN journal = 1..Len(journal)
          /\ DOMAIN journal' = 1..(Len(journal) + 1)
          /\ \A i \in DOMAIN journal : journal'[i] = journal[i]
          /\ journal'[Len(journal) + 1] = r
      BY <1>0, <1>5, Inserted
    <2> QED BY <2>1
  \* A row that ends nothing.
  <1>6. ASSUME NEW r \in Rows, journal' = journal \o <<r>>, r.stage \notin Terminal,
               \/ planes'[p].exp = planes[p].exp
               \/ planes'[p].exp \notin Ids(journal)
        PROVE  ClosingInv'
    <2>0. PICK n : n = Len(journal) + 1
      OBVIOUS
    <2>1. /\ journal'[n] = r /\ DOMAIN journal' = DOMAIN journal \cup {n}
          /\ \A i \in DOMAIN journal : i \in DOMAIN journal' /\ journal'[i] = journal[i]
      BY <1>5, <1>6, <2>0
    <2>2. ~ByOwner(n)' /\ ~ByWatchdog(n)'
      BY <1>6, <2>1 DEF ByOwner, ByWatchdog
    <2>3. \A i \in DOMAIN journal' : ByOwner(i)' \/ ByWatchdog(i)' =>
             /\ i \in DOMAIN journal /\ journal'[i] = journal[i]
             /\ (ByOwner(i)' <=> ByOwner(i)) /\ (ByWatchdog(i)' <=> ByWatchdog(i))
      BY <2>1, <2>2, RowsStay
    <2>4. ASSUME NEW q \in Planes, NEW i \in DOMAIN journal, planes'[q].exp # 0, ByOwner(i)
          PROVE  journal[i].exp # planes'[q].exp
      <3>1. CASE planes'[q].exp = planes[q].exp
        BY <2>4, <3>1 DEF ClosingInv
      <3>2. CASE planes'[q].exp \notin Ids(journal)
        BY <3>2 DEF Ids
      <3> QED BY <1>3, <1>6, <3>1, <3>2
    <2>5. ASSUME NEW i \in DOMAIN journal, ByWatchdog(i)
          PROVE  i - 1 \in RestoreRows(journal[i].exp)' /\ journal'[i - 1].note = "restored"
      <3>1. i - 1 \in RestoreRows(journal[i].exp) /\ journal[i - 1].note = "restored"
        BY <2>5 DEF ClosingInv
      <3>2. i - 1 \in DOMAIN journal
        BY <3>1 DEF RestoreRows
      <3> QED BY <2>1, <3>1, <3>2, RowsStay
    <2> QED BY <2>3, <2>4, <2>5 DEF ClosingInv
  <1>7. CASE Begins(p) \/ Works(p) \/ Outside(p)
    <2>1. CASE Outside(p)
      BY <1>4, <2>1 DEF Outside
    <2>2. CASE Begins(p)
      <3> DEFINE r == SnapshotRow(NextId(journal), planes[p].snap)
      <3>1. PICK n \in Nat : Ids(journal) = 1..n
        BY <1>0 DEF TypeInv, GapFree
      <3>2. NextId(journal) \in Nat \ {0} /\ NextId(journal) \notin Ids(journal)
        BY <3>1, NextIdValue
      <3>3. planes[p].snap \in Settings
        BY <1>0 DEF TypeInv, PlaneTypeOK, PlaneStates
      <3>4. r \in Rows /\ r.stage \notin Terminal
        <4>1. r \in Rows
          BY <3>2, <3>3, RowTypes
        <4> QED BY <4>1 DEF SnapshotRow, Row, Terminal
      <3>5. journal' = journal \o <<r>> /\ planes'[p].exp \notin Ids(journal)
        BY <2>2, <3>2 DEF Begins
      <3> HIDE DEF r
      <3> QED BY <1>6, <3>4, <3>5
    <2>3. CASE Works(p)
      BY <1>4, <1>6, <2>3 DEF Works
    <2> QED BY <1>7, <2>1, <2>2, <2>3
  \* The terminal row of the owner.
  <1>8. ASSUME NEW r \in Rows, journal' = journal \o <<r>>, r.stage \in Terminal,
               r.exp = planes[p].exp, planes[p].exp # 0, planes'[p].exp = 0
        PROVE  ClosingInv'
    <2>0. PICK n : n = Len(journal) + 1
      OBVIOUS
    <2>1. /\ journal'[n] = r /\ DOMAIN journal' = DOMAIN journal \cup {n}
          /\ \A i \in DOMAIN journal : i \in DOMAIN journal' /\ journal'[i] = journal[i]
      BY <1>5, <1>8, <2>0
    <2>2. r.note # "watchdog"
      BY <1>1, <1>8, OwnersNote
    <2>3. ~ByWatchdog(n)'
      BY <2>1, <2>2 DEF ByWatchdog
    <2>4. \A i \in DOMAIN journal' : i # n =>
             /\ i \in DOMAIN journal /\ journal'[i] = journal[i]
             /\ (ByOwner(i)' <=> ByOwner(i)) /\ (ByWatchdog(i)' <=> ByWatchdog(i))
      BY <2>1, RowsStay
    <2>5. \A i \in DOMAIN journal : ByOwner(i) => journal[i].exp # r.exp
      BY <1>8 DEF ClosingInv
    <2>6. ASSUME NEW i \in DOMAIN journal', NEW k \in DOMAIN journal', ByOwner(i)', ByOwner(k)',
                 journal'[i].exp = journal'[k].exp
          PROVE  i = k
      <3>1. CASE i # n /\ k # n
        BY <2>4, <2>6, <3>1 DEF ClosingInv
      <3>2. CASE i = n /\ k # n
        BY <2>1, <2>4, <2>5, <2>6, <3>2
      <3>3. CASE i # n /\ k = n
        BY <2>1, <2>4, <2>5, <2>6, <3>3
      <3> QED BY <3>1, <3>2, <3>3
    <2>7. ASSUME NEW q \in Planes, NEW i \in DOMAIN journal', planes'[q].exp # 0, ByOwner(i)'
          PROVE  journal'[i].exp # planes'[q].exp
      <3>1. q # p /\ planes'[q] = planes[q]
        BY <1>3, <1>8, <2>7
      <3>2. planes[q].exp # planes[p].exp
        BY <1>0, <1>8, <2>7, <3>1 DEF UniqueCorrelation
      <3>3. CASE i = n
        BY <1>8, <2>1, <3>1, <3>2, <3>3
      <3>4. CASE i # n
        BY <2>4, <2>7, <3>1, <3>4 DEF ClosingInv
      <3> QED BY <3>3, <3>4
    <2>8. ASSUME NEW i \in DOMAIN journal', ByWatchdog(i)'
          PROVE  i - 1 \in RestoreRows(journal[i].exp)' /\ journal'[i - 1].note = "restored"
      <3>1. i \in DOMAIN journal /\ ByWatchdog(i) /\ journal'[i] = journal[i]
        BY <2>3, <2>4, <2>8
      <3>2. i - 1 \in RestoreRows(journal[i].exp) /\ journal[i - 1].note = "restored"
        BY <3>1 DEF ClosingInv
      <3>3. i - 1 \in DOMAIN journal
        BY <3>2 DEF RestoreRows
      <3> QED BY <2>1, <3>1, <3>2, <3>3, RowsStay
    <2> QED BY <2>6, <2>7, <2>8 DEF ClosingInv
  <1>9. CASE Ends(p)
    BY <1>4, <1>8, <1>9 DEF Ends
  <1> QED BY <1>2, <1>7, <1>9 DEF Kind

\* Watchdogs, the clock and whoever else leaves the owners' rows alone.
LEMMA OthersClose ==
    ASSUME ClosingInv, planes' = planes,
           \A i \in DOMAIN journal : i \in DOMAIN journal' /\ journal'[i] = journal[i],
           \A i \in DOMAIN journal' : i \notin DOMAIN journal =>
              /\ ~ByOwner(i)'
              /\ ByWatchdog(i)' => /\ i - 1 \in RestoreRows(journal[i].exp)'
                                   /\ journal'[i - 1].note = "restored"
    PROVE  ClosingInv'
  <1>1. \A i \in DOMAIN journal : /\ ByOwner(i)' <=> ByOwner(i)
                                  /\ ByWatchdog(i)' <=> ByWatchdog(i)
                                  /\ \A e : i \in RestoreRows(e) => i \in RestoreRows(e)'
    BY RowsStay
  <1>2. ASSUME NEW i \in DOMAIN journal', ByOwner(i)' PROVE i \in DOMAIN journal /\ ByOwner(i)
    BY <1>1, <1>2
  <1>3. ASSUME NEW i \in DOMAIN journal', ByWatchdog(i)'
        PROVE  i - 1 \in RestoreRows(journal[i].exp)' /\ journal'[i - 1].note = "restored"
    <2>1. CASE i \in DOMAIN journal
      <3>1. i - 1 \in RestoreRows(journal[i].exp) /\ journal[i - 1].note = "restored"
        BY <1>1, <1>3, <2>1 DEF ClosingInv
      <3>2. i - 1 \in DOMAIN journal
        BY <3>1 DEF RestoreRows
      <3> QED BY <1>1, <2>1, <3>1, <3>2
    <2> QED BY <1>3, <2>1
  <1>4. \A i, k \in DOMAIN journal' :
           ByOwner(i)' /\ ByOwner(k)' /\ journal'[i].exp = journal'[k].exp => i = k
    BY <1>2 DEF ClosingInv
  <1>5. \A p \in Planes, i \in DOMAIN journal' :
           planes'[p].exp # 0 /\ ByOwner(i)' => journal'[i].exp # planes'[p].exp
    BY <1>2 DEF ClosingInv
  <1> QED BY <1>3, <1>4, <1>5 DEF ClosingInv

\* A step of a watchdog: its terminal row comes in one transaction with its restore
\* row (record_success).
LEMMA WatchdogCloses ==
    ASSUME SharedInv, ClosingInv, NEW w \in Watchdogs, Reclaim(w) \/ WatchdogCrash(w),
           planes' = planes
    PROVE  ClosingInv'
  <1> DEFINE cur == Current(w)
  <1>0. /\ DogsInv /\ journal \in Seq(Rows) /\ now \in Nat
        /\ dogs[w] \in DogStates /\ DogInv(w)
    BY DEF SharedInv, TypeInv, PlaneTypeOK, DogsInv, WatchdogTypeOK, DogStates
  <1>t. dogs[w].todo \subseteq Candidates /\ dogs[w].error \in RestoreErrors \cup {"none"}
    BY <1>0 DEF DogStates
  <1>c. dogs[w].pc # "asleep" => cur \in Candidates
    BY <1>0, <1>t, CurrentChosen DEF DogInv
  <1>1. CASE journal' = journal
    BY <1>1, OthersClose
  <1>2. CASE RecordSuccess(w) /\ journal' # journal
    <2>1. PICK r, f : /\ r = RestoreRow(cur.exp, cur.snap, Reason(cur), "restored", now)
                      /\ f = FailedRow(cur.exp, "watchdog", Reason(cur))
      OBVIOUS
    <2>2. journal' = journal \o <<r, f>>
      BY <1>2, <2>1 DEF RecordSuccess, Insert, AbortPass
    <2>3. /\ r \in Rows /\ r.exp = cur.exp /\ r.stage = "watchdog-restore" /\ r.note = "restored"
          /\ f \in Rows /\ f.exp = cur.exp /\ f.stage = "failed" /\ f.note = "watchdog"
      <3>1. cur \in Candidates
        BY <1>2, <1>c DEF RecordSuccess
      <3>2. "restored" \in Notes
        BY DEF Notes
      <3> HIDE DEF cur
      <3> QED BY <1>0, <2>1, <3>1, <3>2, DogRows
    <2>4. PICK n, e : n = Len(journal) /\ e = cur.exp
      OBVIOUS
    <2>5. /\ n \in Nat /\ DOMAIN journal = 1..n /\ DOMAIN journal' = 1..(n + 2)
          /\ \A i \in DOMAIN journal : journal'[i] = journal[i]
          /\ journal'[n + 1] = r /\ journal'[n + 2] = f
      BY <1>0, <2>2, <2>3, <2>4
    <2>6. /\ \A i \in DOMAIN journal : i \in DOMAIN journal'
          /\ \A i \in DOMAIN journal' : i \notin DOMAIN journal => i = n + 1 \/ i = n + 2
          /\ n + 1 \in DOMAIN journal' /\ (n + 2) - 1 = n + 1
      BY <2>5
    <2>7. n + 1 \in RestoreRows(e)' /\ ~ByOwner(n + 1)' /\ ~ByWatchdog(n + 1)'
      <3>1. /\ journal'[n + 1].stage = "watchdog-restore"
            /\ "watchdog-restore" \notin Terminal
        BY <2>3, <2>5 DEF Terminal
      <3> QED BY <2>3, <2>4, <2>5, <2>6, <3>1 DEF RestoreRows, ByOwner, ByWatchdog
    <2>8. ~ByOwner(n + 2)' /\ journal'[n + 2].exp = e /\ journal'[n + 1].note = "restored"
      BY <2>3, <2>4, <2>5 DEF ByOwner
    <2>9. ASSUME NEW i \in DOMAIN journal', i \notin DOMAIN journal
          PROVE  /\ ~ByOwner(i)'
                 /\ ByWatchdog(i)' => /\ i - 1 \in RestoreRows(journal[i].exp)'
                                      /\ journal'[i - 1].note = "restored"
      <3>1. CASE i = n + 1
        BY <2>7, <3>1
      <3>2. CASE i = n + 2
        BY <2>6, <2>7, <2>8, <3>2
      <3> QED BY <2>6, <2>9, <3>1, <3>2
    <2> QED BY <2>5, <2>6, <2>9, OthersClose
  <1>3. CASE AppendFailure(w) /\ journal' # journal
    <2>1. PICK r : r = RestoreRow(cur.exp, cur.snap, Reason(cur), dogs[w].error, now)
      OBVIOUS
    <2>2. journal' = journal \o <<r>>
      BY <1>3, <2>1 DEF AppendFailure, Insert, AbortPass
    <2>3. r \in Rows /\ r.stage = "watchdog-restore"
      <3>1. cur \in Candidates
        BY <1>3, <1>c DEF AppendFailure
      <3>2. dogs[w].error \in Notes
        BY <1>t DEF Notes
      <3> HIDE DEF cur
      <3> QED BY <1>0, <2>1, <3>1, <3>2, DogRows
    <2>4. /\ Len(journal) \in Nat /\ DOMAIN journal = 1..Len(journal)
          /\ DOMAIN journal' = 1..(Len(journal) + 1)
          /\ \A i \in DOMAIN journal : journal'[i] = journal[i]
          /\ journal'[Len(journal) + 1] = r
      BY <1>0, <2>2, <2>3, Inserted
    <2>5. /\ \A i \in DOMAIN journal : i \in DOMAIN journal'
          /\ \A i \in DOMAIN journal' : i \notin DOMAIN journal => journal'[i] = r
      BY <2>4
    <2>6. \A i \in DOMAIN journal' : i \notin DOMAIN journal => ~ByOwner(i)' /\ ~ByWatchdog(i)'
      BY <2>3, <2>5 DEF ByOwner, ByWatchdog, Terminal
    <2> QED BY <2>4, <2>5, <2>6, OthersClose
  <1>4. RecordSuccess(w) \/ AppendFailure(w) \/ journal' = journal
    BY DEF Reclaim, Scan, ReclaimRollback, ReclaimCheck, RecordFailure, WatchdogCrash, AbortPass
  <1> QED BY <1>1, <1>2, <1>3, <1>4

\* However many planes and watchdogs there are, the rows that close an experiment are
\* its owner's one and those of watchdogs.
LEMMA ClosingInvariance == Spec => []ClosingInv
  <1>1. Init => ClosingInv
    BY DEF Init, HostInit, PlaneInit, ClosingInv
  <1>2. ASSUME SharedInv, ClosingInv, [Next]_vars PROVE ClosingInv'
    <2>1. CASE PlaneNext
      BY <1>2, <2>1, OwnerCloses
    <2>2. CASE WatchdogNext /\ UNCHANGED planes
      BY <1>2, <2>2, WatchdogCloses DEF WatchdogNext
    <2>3. CASE journal' = journal /\ planes' = planes
      BY <1>2, <2>3, OthersClose
    <2>4. PlaneNext \/ (WatchdogNext /\ UNCHANGED planes) \/ (journal' = journal /\ planes' = planes)
      BY <1>2 DEF Next, vars, hostVars, Tick, StepBack
    <2> QED BY <2>1, <2>2, <2>3, <2>4
  <1> QED BY <1>1, <1>2, SharedInvariance, PTL DEF Spec

\* "Exactly one terminal record" does not survive a slow owner, but what can go
\* wrong is bounded: however many planes and watchdogs there are, however slow or
\* crashed, an experiment has at most one terminal record of its owner and one per
\* watchdog (record_outcome, record_success).
THEOREM ClosedOncePerProcess ==
    Spec => []ClosuresBounded
  <1>1. SharedInv /\ RepeatsInv /\ ClosingInv => ClosuresBounded
    <2> SUFFICES ASSUME SharedInv, RepeatsInv, ClosingInv, NEW e \in Ids(journal)
                 PROVE  Cardinality(TerminalRows(e)) <= Cardinality(Watchdogs) + 1
      BY DEF ClosuresBounded
    <2> DEFINE owners == {i \in TerminalRows(e) : ByOwner(i)}
               closed == {i \in TerminalRows(e) : ByWatchdog(i)}
               restored == {i \in RestoreRows(e) : journal[i].note = "restored"}
    <2>0. /\ journal \in Seq(Rows) /\ DOMAIN journal \subseteq Nat
          /\ Cardinality(Watchdogs) \in Nat
      <3>1. journal \in Seq(Rows)
        BY DEF SharedInv, TypeInv, PlaneTypeOK
      <3> QED BY <3>1, FiniteDogs
    <2>1. /\ IsFiniteSet(TerminalRows(e)) /\ IsFiniteSet(owners) /\ IsFiniteSet(closed)
          /\ IsFiniteSet(restored) /\ Cardinality(TerminalRows(e)) \in Nat
          /\ Cardinality(owners) \in Nat /\ Cardinality(closed) \in Nat
          /\ Cardinality(restored) \in Nat
      BY <2>0, FiniteRows DEF TerminalRows, RestoreRows
    <2>2. Cardinality(owners) <= 1
      <3>1. \A i, k \in owners : i = k
        BY DEF ClosingInv, TerminalRows
      <3>2. CASE owners = {}
        <4>1. Cardinality({}) = 0
          BY FS_EmptySet
        <4> QED BY <3>2, <4>1
      <3>3. CASE owners # {}
        <4>1. PICK i : owners = {i}
          BY <3>1, <3>3
        <4>2. Cardinality({i}) = 1
          BY FS_Singleton
        <4> QED BY <4>1, <4>2
      <3> QED BY <3>2, <3>3
    <2>3. Cardinality(closed) <= Cardinality(restored)
      <3> DEFINE back == [i \in closed |-> i - 1]
      <3>1. \A i \in closed : i \in Nat /\ i - 1 \in restored
        BY <2>0 DEF ClosingInv, TerminalRows
      <3>2. back \in Injection(closed, restored)
        BY <3>1 DEF Injection, IsInjective
      <3> QED BY <2>1, <3>2, FS_Injection
    <2>4. Cardinality(restored) <= Cardinality(Watchdogs)
      <3>1. CASE restored = {}
        <4>1. Cardinality({}) = 0
          BY FS_EmptySet
        <4> HIDE DEF restored
        <4> QED BY <2>0, <3>1, <4>1
      <3>2. CASE restored # {}
        <4>1. restored \subseteq Nat
          BY <2>0 DEF RestoreRows
        <4>2. PICK i \in restored : \A k \in restored : i <= k
          BY <3>2, <4>1, LeastNat
        <4>3. /\ i \in DOMAIN journal /\ journal[i].exp = e
              /\ journal[i].stage = "watchdog-restore" /\ journal[i].note = "restored"
          BY <4>2 DEF RestoreRows
        <4>4. Cardinality(After(i)) + Cardinality(Pending(e)) < Cardinality(Watchdogs)
          BY <4>3 DEF RepeatsInv, Settled
        <4>5. IsFiniteSet(After(i)) /\ Cardinality(After(i)) \in Nat /\ Cardinality(Pending(e)) \in Nat
          BY <2>0, FiniteRows, FiniteDogs DEF After, RestoreRows, Pending
        <4>6. restored \subseteq After(i) \cup {i} /\ i \notin After(i)
          BY <4>1, <4>2, <4>3 DEF After
        <4>7. /\ IsFiniteSet(After(i) \cup {i})
              /\ Cardinality(After(i) \cup {i}) = Cardinality(After(i)) + 1
          BY <4>5, <4>6, FS_AddElement
        <4>8. Cardinality(restored) <= Cardinality(After(i)) + 1
          BY <4>6, <4>7, FS_Subset
        <4> QED BY <2>0, <2>1, <4>4, <4>5, <4>8
      <3> QED BY <3>1, <3>2
    <2>5. TerminalRows(e) = owners \cup closed
      BY DEF TerminalRows, ByOwner, ByWatchdog
    <2>6. Cardinality(owners \cup closed) <= Cardinality(owners) + Cardinality(closed)
      <3>1. Cardinality(owners \cup closed) =
               Cardinality(owners) + Cardinality(closed) - Cardinality(owners \cap closed)
        BY <2>1, FS_Union
      <3>2. Cardinality(owners \cap closed) \in Nat
        BY <2>1, FS_Intersection, FS_CardinalityType
      <3> HIDE DEF owners, closed
      <3> QED BY <2>1, <3>1, <3>2
    <2> HIDE DEF owners, closed, restored
    <2> QED BY <2>0, <2>1, <2>2, <2>3, <2>4, <2>5, <2>6
  <1> QED BY <1>1, RepeatsInvariance, ClosingInvariance, PTL
=============================================================================
