---------------------------- MODULE GatewayProofs ----------------------------
(***************************************************************************)
(* Proofs about the gateways, for every number of them, every set of lines *)
(* and every bound.  A gateway adds no behaviour to the control plane it   *)
(* holds, so that what is proved of the planes holds of the gateways; its  *)
(* responses match its requests; and only requests begin experiments.      *)
(***************************************************************************)
EXTENDS Gateway, ControlPlaneProofs, FiniteSetTheorems

-----------------------------------------------------------------------------
\* Gateways are control planes

\* What a step of one gateway does to the planes: nothing, a step of
\* run_lifecycle, or a call of it (serve, dispatch).
LEMMA GatewayStep ==
    ASSUME GatewayNext
    PROVE  PlaneNext \/ UNCHANGED planeVars
  <1>1. PICK p \in Planes :
           \/ \E line \in Lines : \/ ReadMalformed(p, line) \/ ReadNotification(p, line)
                                  \/ ReadRequest(p, line) \/ ReadLifecycle(p, line)
           \/ ServeContinues(p)
           \/ Hangup(p) \/ GatewayCrash(p) \/ Connect(p)
    BY DEF GatewayNext
  <1>2. ASSUME NEW line \in Lines, ReadLifecycle(p, line)
        PROVE  PlaneNext
    <2>1. ChangeRequest(line) \in Requests
      BY <1>2, DecodedAssumption DEF ReadLifecycle
    <2> QED BY <1>2, <2>1 DEF ReadLifecycle, PlaneNext
  <1>3. CASE GatewayCrash(p)
    BY <1>3 DEF GatewayCrash, PlaneNext
  <1>4. CASE ServeContinues(p)
    BY <1>4 DEF ServeContinues, LifecycleReturned, WriteResponse, PlaneNext
  <1>5. ASSUME NEW line \in Lines,
               ReadMalformed(p, line) \/ ReadNotification(p, line) \/ ReadRequest(p, line)
        PROVE  UNCHANGED planeVars
    BY <1>5 DEF ReadMalformed, ReadNotification, ReadRequest
  <1>6. CASE Hangup(p) \/ Connect(p)
    BY <1>6 DEF Hangup, Connect
  <1> QED BY <1>1, <1>2, <1>3, <1>4, <1>5, <1>6

\* Reading, dispatching and answering lines adds nothing to what the control
\* planes may do: any number of gateways, restarted by their clients, are
\* control planes on one journal (serve, dispatch, call_tool).
THEOREM GatewaysArePlanes == GatewaySpec => PlaneSpec
  <1>1. GatewayInit => PlanesInit
    BY DEF GatewayInit
  <1>2. [GatewayNext]_gatewayVars => [PlaneNext]_planeVars
    BY GatewayStep DEF gatewayVars
  <1> QED BY <1>1, <1>2, PTL DEF GatewaySpec, PlaneSpec

\* Clients of one gateway whose provider can roll back leave no setting behind
\* that a recovery pass cannot find, and the oldest experiment it finds holds
\* the true baseline (run_lifecycle behind serve).
THEOREM GatewayLeakDiscoverable ==
    ASSUME NEW CONSTANT p, Planes = {p}, "rollback" \notin Faults
    PROVE  GatewaySpec => [](PlaneTypeOK /\ LeakIsDiscoverable /\ OldestLeakHoldsBaseline)
  <1>1. PlaneSpec => []LeakIsDiscoverable
    BY LeakDiscoverable
  <1>2. PlaneSpec => []OldestLeakHoldsBaseline
    BY OldestHoldsBaseline
  <1> QED BY <1>1, <1>2, PlaneTypeCorrect, GatewaysArePlanes, PTL

\* A client of the only gateway is told "ok" in a step that leaves the host at
\* the snapshot of its lifecycle, with the `completed` record committed.
THEOREM GatewayOkIsRestored ==
    ASSUME NEW CONSTANT p, Planes = {p}
    PROVE  GatewaySpec => OkMeansRestored
  <1>1. PlaneSpec => OkMeansRestored
    BY OkIsRestored
  <1> QED BY <1>1, GatewaysArePlanes, PTL

-----------------------------------------------------------------------------
\* Responses in order

LineIds == {"null"} \cup {line.id : line \in Lines}

Results == {"result", "call", "invalid-params", "invalid-request", "method-not-found",
            "parse-error", "is-error", "ok"}

Responses == [id : LineIds, result : Results]

Owed == Seq(LineIds)

Sent == Seq(Responses)

SessionStates ==
    [pc : {"read", "call", "write", "closed"}, asked : Owed, sent : Sent, result : Results,
     lines : 0..MaxLines, calls : Nat]

\* Calls are lines that were read.
SessionsTyped ==
    /\ sessions \in [Planes -> SessionStates]
    /\ \A p \in Planes : sessions[p].calls <= sessions[p].lines

\* What is owed and what was answered, for one session.
InOrder(s) ==
    /\ Len(s.asked) = Len(s.sent) + (IF s.pc \in {"call", "write"} THEN 1 ELSE 0)
    /\ \A i \in DOMAIN s.sent : s.sent[i].id = s.asked[i]

\* What a step leaves in the session of p.
Settled(p) ==
    /\ sessions' \in [Planes -> SessionStates]
    /\ sessions'[p].calls <= sessions'[p].lines
    /\ InOrder(sessions'[p])
    /\ \A q \in Planes : q # p => sessions'[q] = sessions[q]

\* A line that is owed a response is the next to be answered (serve).
LEMMA OweStep ==
    ASSUME SessionsTyped, NEW p \in Planes, InOrder(sessions[p]), Reading(p),
           NEW id \in LineIds, NEW pc \in {"call", "write"}, NEW result \in Results,
           Owe(p, id, pc, result)
    PROVE  /\ Settled(p)
           /\ sessions'[p].calls = sessions[p].calls + (IF pc = "call" THEN 1 ELSE 0)
           /\ sessions'[p].calls <= MaxLines
  <1> DEFINE s == sessions[p]
             t == sessions'[p]
             one == IF pc = "call" THEN 1 ELSE 0
  <1>1. /\ sessions \in [Planes -> SessionStates] /\ s \in SessionStates /\ MaxLines \in Nat
        /\ s.calls \in Nat /\ s.lines \in Nat /\ s.calls <= s.lines /\ s.lines < MaxLines
        /\ s.pc = "read"
    <2>1. MaxLines \in Nat
      BY GatewayAssumption
    <2>2. sessions \in [Planes -> SessionStates] /\ s \in SessionStates /\ s.calls <= s.lines
      BY DEF SessionsTyped
    <2>3. s.calls \in Nat /\ s.lines \in 0..MaxLines
      BY <2>2 DEF SessionStates
    <2> QED BY <2>1, <2>2, <2>3 DEF Reading
  <1>a. Append(s.asked, id) \in Owed
    BY <1>1 DEF SessionStates, Owed
  <1>b. s.lines + 1 \in 0..MaxLines /\ s.calls + one \in Nat /\ s.calls + one <= s.lines + 1
    BY <1>1
  <1> HIDE DEF one
  <1>2. /\ sessions' \in [Planes -> SessionStates]
        /\ \A q \in Planes : q # p => sessions'[q] = sessions[q]
        /\ t.pc = pc /\ t.asked = Append(s.asked, id) /\ t.sent = s.sent
        /\ t.calls = s.calls + one /\ t.lines = s.lines + 1
    BY <1>1, <1>a, <1>b DEF Owe, SessionStates, one
  <1>3. s.asked \in Seq(LineIds) /\ s.sent \in Seq(Responses)
    BY <1>1 DEF SessionStates, Owed, Sent
  <1>4. Len(s.asked) = Len(s.sent) /\ \A i \in DOMAIN s.sent : s.sent[i].id = s.asked[i]
    BY <1>1, <1>3 DEF InOrder
  <1> HIDE DEF s, t
  <1>5. InOrder(t)
    <2>1. Len(t.asked) = Len(t.sent) + 1
      BY <1>2, <1>3, <1>4
    <2>2. ASSUME NEW i \in DOMAIN t.sent PROVE t.sent[i].id = t.asked[i]
      BY <1>2, <1>3, <1>4
    <2> QED BY <1>2, <2>1, <2>2 DEF InOrder
  <1>6. t.calls <= t.lines /\ t.calls <= MaxLines /\ t.calls = s.calls + one
    BY <1>1, <1>2, <1>b
  <1> QED BY <1>2, <1>5, <1>6 DEF Settled, t, s, one

\* The response names the line it answers (serve, writeln).
LEMMA WriteStep ==
    ASSUME SessionsTyped, NEW p \in Planes, InOrder(sessions[p]), WriteResponse(p)
    PROVE  Settled(p) /\ sessions'[p].calls = sessions[p].calls
  <1> DEFINE s == sessions[p]
             t == sessions'[p]
             r == Response(s.asked[Len(s.asked)], s.result)
  <1>1. /\ sessions \in [Planes -> SessionStates] /\ s \in SessionStates /\ s.pc = "write"
        /\ s.calls <= s.lines
    BY DEF SessionsTyped, WriteResponse
  <1>2. s.asked \in Seq(LineIds) /\ s.sent \in Seq(Responses)
        /\ s.result \in Results
    BY <1>1 DEF SessionStates, Owed, Sent
  <1>3. Len(s.asked) = Len(s.sent) + 1 /\ \A i \in DOMAIN s.sent : s.sent[i].id = s.asked[i]
    BY <1>1, <1>2 DEF InOrder
  <1>4. s.asked[Len(s.asked)] \in LineIds
    BY <1>2, <1>3
  <1>5. r \in Responses /\ r.id = s.asked[Len(s.asked)]
    BY <1>2, <1>4 DEF Response, Responses
  <1>6. Append(s.sent, r) \in Sent
    BY <1>2, <1>5 DEF Sent
  <1>7. sessions' = [sessions EXCEPT ![p].pc = "read", ![p].sent = Append(s.sent, r)]
    BY DEF WriteResponse
  <1> HIDE DEF r
  <1>8. /\ sessions' \in [Planes -> SessionStates]
        /\ \A q \in Planes : q # p => sessions'[q] = sessions[q]
        /\ t.pc = "read" /\ t.asked = s.asked /\ t.sent = Append(s.sent, r)
        /\ t.calls = s.calls /\ t.lines = s.lines
    BY <1>1, <1>6, <1>7 DEF SessionStates
  <1> HIDE DEF s, t
  <1>9. InOrder(t)
    <2>1. Len(t.asked) = Len(t.sent)
      BY <1>2, <1>3, <1>8
    <2>2. ASSUME NEW i \in DOMAIN t.sent PROVE t.sent[i].id = t.asked[i]
      <3>1. i \in DOMAIN s.sent \/ i = Len(s.sent) + 1
        BY <1>2, <1>8
      <3>2. CASE i \in DOMAIN s.sent
        BY <3>2, <1>2, <1>3, <1>8
      <3>3. CASE i = Len(s.sent) + 1
        BY <3>3, <1>2, <1>3, <1>5, <1>8
      <3> QED BY <3>1, <3>2, <3>3
    <2> QED BY <1>8, <2>1, <2>2 DEF InOrder
  <1> QED BY <1>1, <1>8, <1>9 DEF Settled, s, t

\* The end of a process takes with it what was owed (serve returns, crash).
LEMMA EndStep ==
    ASSUME SessionsTyped, NEW p \in Planes, End(p)
    PROVE  Settled(p) /\ sessions'[p].calls = sessions[p].calls
  <1>0. << >> \in Owed /\ << >> \in Sent
    BY DEF Owed, Sent
  <1>1. sessions \in [Planes -> SessionStates] /\ sessions[p].calls <= sessions[p].lines
    BY DEF SessionsTyped
  <1>2. /\ sessions' \in [Planes -> SessionStates]
        /\ \A q \in Planes : q # p => sessions'[q] = sessions[q]
        /\ sessions'[p].pc = "closed" /\ sessions'[p].asked = << >> /\ sessions'[p].sent = << >>
        /\ sessions'[p].calls = sessions[p].calls /\ sessions'[p].lines = sessions[p].lines
    BY <1>1, <1>0 DEF End, SessionStates
  <1>3. InOrder(sessions'[p])
    BY <1>2 DEF InOrder
  <1> QED BY <1>1, <1>2, <1>3 DEF Settled

\* The steps that neither owe nor answer anything.
LEMMA OtherSteps ==
    ASSUME SessionsTyped, NEW p \in Planes, InOrder(sessions[p])
    PROVE  /\ \A line \in Lines : ReadNotification(p, line) =>
                Settled(p) /\ sessions'[p].calls = sessions[p].calls
           /\ LifecycleReturned(p) => Settled(p) /\ sessions'[p].calls = sessions[p].calls
           /\ Connect(p) =>
                Settled(p) /\ sessions'[p].calls = sessions[p].calls
           /\ UNCHANGED sessions => Settled(p) /\ sessions'[p].calls = sessions[p].calls
  <1> DEFINE s == sessions[p]
             t == sessions'[p]
  <1>1. /\ sessions \in [Planes -> SessionStates] /\ s \in SessionStates /\ MaxLines \in Nat
        /\ s.lines \in Nat /\ s.calls \in Nat /\ s.calls <= s.lines
    <2>1. MaxLines \in Nat
      BY GatewayAssumption
    <2>2. sessions \in [Planes -> SessionStates] /\ s \in SessionStates /\ s.calls <= s.lines
      BY DEF SessionsTyped
    <2>3. s.calls \in Nat /\ s.lines \in 0..MaxLines
      BY <2>2 DEF SessionStates
    <2> QED BY <2>1, <2>2, <2>3
  <1>2. ASSUME NEW line \in Lines, ReadNotification(p, line)
        PROVE  Settled(p) /\ t.calls = s.calls
    <2>1. /\ sessions' \in [Planes -> SessionStates]
          /\ \A q \in Planes : q # p => sessions'[q] = sessions[q]
          /\ t.pc = s.pc /\ t.asked = s.asked /\ t.sent = s.sent
          /\ t.calls = s.calls /\ t.lines = s.lines + 1
      BY <1>1, <1>2 DEF ReadNotification, Reading, SessionStates
    <2>2. t.calls <= t.lines
      BY <1>1, <2>1
    <2>3. InOrder(t)
      BY <2>1 DEF InOrder
    <2> QED BY <2>1, <2>2, <2>3 DEF Settled
  <1>3. ASSUME LifecycleReturned(p)
        PROVE  Settled(p) /\ t.calls = s.calls
    <2>1. /\ sessions' \in [Planes -> SessionStates]
          /\ \A q \in Planes : q # p => sessions'[q] = sessions[q]
          /\ s.pc = "call" /\ t.pc = "write" /\ t.asked = s.asked /\ t.sent = s.sent
          /\ t.calls = s.calls /\ t.lines = s.lines
      BY <1>1, <1>3 DEF LifecycleReturned, SessionStates, Results
    <2> QED BY <1>1, <2>1 DEF Settled, InOrder
  <1>4. ASSUME Connect(p)
        PROVE  Settled(p) /\ t.calls = s.calls
    <2>1. /\ sessions' \in [Planes -> SessionStates]
          /\ \A q \in Planes : q # p => sessions'[q] = sessions[q]
          /\ s.pc = "closed" /\ t.pc = "read" /\ t.asked = s.asked /\ t.sent = s.sent
          /\ t.calls = s.calls /\ t.lines = s.lines
      BY <1>1, <1>4 DEF Connect, SessionStates
    <2> QED BY <1>1, <2>1 DEF Settled, InOrder
  <1>5. ASSUME UNCHANGED sessions
        PROVE  Settled(p) /\ t.calls = s.calls
    BY <1>1, <1>5 DEF Settled
  <1> QED BY <1>2, <1>3, <1>4, <1>5 DEF s, t

\* A step of gateway p that calls run_lifecycle, and one that does not.
Called(p) ==
    /\ Settled(p)
    /\ sessions'[p].calls = sessions[p].calls + 1
    /\ sessions'[p].calls <= MaxLines

Uncalled(p) == Settled(p) /\ sessions'[p].calls = sessions[p].calls

\* What dispatch answers is a result (dispatch, call_tool).
LEMMA DispatchResults == \A line \in Lines : Dispatch(line) \in Results
  BY DEF Dispatch, CallTool, Results

\* Every step of the gateways is one gateway's, and calls run_lifecycle only
\* with a line that has an id (serve, dispatch).
LEMMA SessionStep ==
    ASSUME SessionsTyped, AnsweredInOrder, GatewayNext
    PROVE  \E p \in Planes :
              \/ Called(p) /\ \E request \in Requests : Submit(p, request)
              \/ Uncalled(p) /\ (Continue(p) \/ Crash(p) \/ UNCHANGED planeVars)
  <1>1. PICK p \in Planes :
           \/ \E line \in Lines : \/ ReadMalformed(p, line) \/ ReadNotification(p, line)
                                  \/ ReadRequest(p, line) \/ ReadLifecycle(p, line)
           \/ ServeContinues(p)
           \/ Hangup(p) \/ GatewayCrash(p) \/ Connect(p)
    BY DEF GatewayNext
  <1>o. InOrder(sessions[p])
    BY DEF AnsweredInOrder, InOrder
  <1>i. "null" \in LineIds /\ \A line \in Lines : line.id \in LineIds
    BY DEF LineIds
  <1>r. "parse-error" \in Results /\ "is-error" \in Results
    BY DEF Results
  <1>n. sessions[p].calls \in Nat
    BY DEF SessionsTyped, SessionStates
  <1> DEFINE Goal == \/ Called(p) /\ \E request \in Requests : Submit(p, request)
                     \/ Uncalled(p) /\ (Continue(p) \/ Crash(p) \/ UNCHANGED planeVars)
  <1>2. ASSUME NEW line \in Lines, ReadMalformed(p, line)
        PROVE  Goal
    <2>1. Reading(p) /\ Owe(p, "null", "write", "parse-error") /\ UNCHANGED planeVars
      BY <1>2 DEF ReadMalformed
    <2>2. Settled(p) /\ sessions'[p].calls = sessions[p].calls + 0
      BY <1>o, <1>i, <1>r, <2>1, OweStep
    <2> QED BY <1>n, <2>1, <2>2 DEF Uncalled
  <1>3. ASSUME NEW line \in Lines, ReadRequest(p, line)
        PROVE  Goal
    <2>1. Reading(p) /\ Owe(p, line.id, "write", Dispatch(line)) /\ UNCHANGED planeVars
      BY <1>3 DEF ReadRequest
    <2>2. Settled(p) /\ sessions'[p].calls = sessions[p].calls + 0
      BY <1>o, <1>i, <2>1, OweStep, DispatchResults
    <2> QED BY <1>n, <2>1, <2>2 DEF Uncalled
  <1>4. ASSUME NEW line \in Lines, ReadLifecycle(p, line)
        PROVE  Goal
    <2>1. Reading(p) /\ Owe(p, line.id, "call", "is-error") /\ Submit(p, ChangeRequest(line))
      BY <1>4 DEF ReadLifecycle
    <2>2. Called(p)
      BY <1>o, <1>i, <1>r, <2>1, OweStep DEF Called
    <2>3. ChangeRequest(line) \in Requests
      BY <1>4, DecodedAssumption DEF ReadLifecycle
    <2> QED BY <2>1, <2>2, <2>3
  <1>5. ASSUME NEW line \in Lines, ReadNotification(p, line)
        PROVE  Goal
    <2>1. UNCHANGED planeVars
      BY <1>5 DEF ReadNotification
    <2>2. Uncalled(p)
      BY <1>o, <1>5, OtherSteps DEF Uncalled
    <2> QED BY <2>1, <2>2
  <1>6. CASE ServeContinues(p)
    <2>1. CASE Continue(p) /\ UNCHANGED sessions
      <3>1. Uncalled(p)
        BY <1>o, <2>1, OtherSteps DEF Uncalled
      <3> QED BY <2>1, <3>1
    <2>2. CASE LifecycleReturned(p)
      <3>1. Uncalled(p) /\ UNCHANGED planeVars
        BY <1>o, <2>2, OtherSteps DEF Uncalled, LifecycleReturned
      <3> QED BY <3>1
    <2>3. CASE WriteResponse(p)
      <3>1. Uncalled(p) /\ UNCHANGED planeVars
        BY <1>o, <2>3, WriteStep DEF Uncalled, WriteResponse
      <3> QED BY <3>1
    <2> QED BY <1>6, <2>1, <2>2, <2>3 DEF ServeContinues
  <1>7. CASE Hangup(p) \/ GatewayCrash(p)
    <2>1. End(p) /\ (Crash(p) \/ UNCHANGED planeVars)
      BY <1>7 DEF Hangup, GatewayCrash
    <2>2. Uncalled(p)
      BY <2>1, EndStep DEF Uncalled
    <2> QED BY <2>1, <2>2
  <1>8. CASE Connect(p)
    <2>1. Uncalled(p) /\ UNCHANGED planeVars
      BY <1>o, <1>8, OtherSteps DEF Uncalled, Connect
    <2> QED BY <2>1
  <1> QED BY <1>1, <1>2, <1>3, <1>4, <1>5, <1>6, <1>7, <1>8 DEF Goal

\* Types and the order of responses are kept by every step of a gateway.
LEMMA OrderStep ==
    ASSUME SessionsTyped, AnsweredInOrder, [GatewayNext]_gatewayVars
    PROVE  SessionsTyped' /\ AnsweredInOrder'
  <1>1. CASE UNCHANGED gatewayVars
    BY <1>1 DEF SessionsTyped, AnsweredInOrder, gatewayVars
  <1>2. CASE GatewayNext
    <2>1. PICK p \in Planes : Settled(p)
      BY <1>2, SessionStep DEF Called, Uncalled
    <2>2. \A q \in Planes : InOrder(sessions'[q]) /\ sessions'[q].calls <= sessions'[q].lines
      <3>1. InOrder(sessions'[p]) /\ sessions'[p].calls <= sessions'[p].lines
        BY <2>1 DEF Settled
      <3>2. ASSUME NEW q \in Planes, q # p
            PROVE  InOrder(sessions'[q]) /\ sessions'[q].calls <= sessions'[q].lines
        <4>1. sessions'[q] = sessions[q]
          BY <2>1, <3>2 DEF Settled
        <4>2. InOrder(sessions[q])
          BY DEF AnsweredInOrder, InOrder
        <4>3. sessions[q].calls <= sessions[q].lines
          BY DEF SessionsTyped
        <4> QED BY <4>1, <4>2, <4>3
      <3> QED BY <3>1, <3>2
    <2>3. SessionsTyped'
      BY <2>1, <2>2 DEF Settled, SessionsTyped
    <2>4. AnsweredInOrder'
      BY <2>2 DEF AnsweredInOrder, InOrder
    <2> QED BY <2>3, <2>4
  <1> QED BY <1>1, <1>2

\* A gateway starts with nothing owed (serve).
LEMMA OrderInit ==
    ASSUME GatewayInit
    PROVE  SessionsTyped /\ AnsweredInOrder
  <1>1. << >> \in Owed /\ << >> \in Sent /\ "result" \in Results /\ 0 \in 0..MaxLines
    BY GatewayAssumption DEF Owed, Sent, Results
  <1>2. NewSession \in SessionStates
    BY <1>1 DEF NewSession, SessionStates
  <1>3. /\ NewSession.asked = << >> /\ NewSession.sent = << >> /\ NewSession.pc = "read"
        /\ NewSession.calls = 0 /\ NewSession.lines = 0
    BY DEF NewSession
  <1>4. sessions = [p \in Planes |-> NewSession]
    BY DEF GatewayInit
  <1> HIDE DEF NewSession
  <1>5. SessionsTyped
    BY <1>2, <1>3, <1>4 DEF SessionsTyped
  <1>6. InOrder(NewSession)
    BY <1>3 DEF InOrder
  <1>7. \A p \in Planes : InOrder(sessions[p])
    BY <1>4, <1>6
  <1>8. AnsweredInOrder
    BY <1>7 DEF AnsweredInOrder, InOrder
  <1> QED BY <1>5, <1>8

\* The types of the sessions and the order of their responses are invariant.
LEMMA OrderInvariance == GatewaySpec => [](SessionsTyped /\ AnsweredInOrder)
  <1>1. GatewayInit => SessionsTyped /\ AnsweredInOrder
    BY OrderInit
  <1>2. SessionsTyped /\ AnsweredInOrder /\ [GatewayNext]_gatewayVars
           => SessionsTyped' /\ AnsweredInOrder'
    BY OrderStep
  <1> QED BY <1>1, <1>2, PTL DEF GatewaySpec

\* Any number of gateways, any lines and any failure of a lifecycle: responses
\* come in the order of their lines, with their lines' ids, and none is missing
\* but the one being prepared (serve).
THEOREM OrderKept == GatewaySpec => []AnsweredInOrder
  BY OrderInvariance, PTL

-----------------------------------------------------------------------------
\* Only requests begin experiments

\* The gateways between the snapshot and begin_experiment.
Beginning == {p \in Planes : planes[p].pc = "begin"}

\* Every experiment, and every one about to begin, has a call of its own.
AskedInv ==
    /\ IsFiniteSet(Calls) /\ IsFiniteSet(Beginning) /\ IsFiniteSet(Ids(journal))
    /\ Cardinality(Ids(journal)) + Cardinality(Beginning) <= Cardinality(Calls)

\* A call of run_lifecycle is counted once (serve).
LEMMA CallsAfter ==
    ASSUME SessionsTyped, NEW p \in Planes
    PROVE  /\ Called(p) => \E c : c \notin Calls /\ Calls' = Calls \cup {c}
           /\ Uncalled(p) => Calls' = Calls
  <1>0. sessions[p].calls \in Nat /\ MaxLines \in Nat
    BY GatewayAssumption DEF SessionsTyped, SessionStates
  <1>1. ASSUME Called(p)
        PROVE  \E c : c \notin Calls /\ Calls' = Calls \cup {c}
    <2> DEFINE k == sessions[p].calls + 1
               c == <<p, k>>
    <2>1. /\ k \in 1..MaxLines /\ sessions'[p].calls = k
          /\ \A q \in Planes : q # p => sessions'[q] = sessions[q]
      BY <1>0, <1>1 DEF Called, Settled
    <2>2. c \notin Calls
      BY <1>0 DEF Calls
    <2>3. ASSUME NEW x \in Planes \X (1..MaxLines)
          PROVE  x[2] <= sessions'[x[1]].calls <=> x[2] <= sessions[x[1]].calls \/ x = c
      <3>1. x = <<x[1], x[2]>> /\ x[1] \in Planes /\ x[2] \in Nat
        BY <1>0
      <3>2. CASE x[1] = p
        BY <1>0, <2>1, <3>1, <3>2
      <3>3. CASE x[1] # p
        BY <2>1, <3>1, <3>3
      <3> QED BY <3>2, <3>3
    <2>4. c \in Planes \X (1..MaxLines)
      BY <2>1
    <2>5. Calls' = Calls \cup {c}
      BY <2>3, <2>4 DEF Calls
    <2> QED BY <2>2, <2>5
  <1>2. ASSUME Uncalled(p)
        PROVE  Calls' = Calls
    <2>1. \A q \in Planes : sessions'[q].calls = sessions[q].calls
      BY <1>2 DEF Uncalled, Settled
    <2>2. \A x \in Planes \X (1..MaxLines) : sessions'[x[1]].calls = sessions[x[1]].calls
      BY <2>1
    <2> QED BY <2>2 DEF Calls
  <1> QED BY <1>1, <1>2

\* Only begin_experiment adds an ID, and only a call leads to it (run_lifecycle).
LEMMA IdsAfter ==
    ASSUME TypeInv, NEW p \in Planes
    PROVE  /\ (\E request \in Requests : Submit(p, request)) =>
                /\ Ids(journal') = Ids(journal)
                /\ Beginning' \subseteq Beginning \cup {p}
           /\ Continue(p) \/ Crash(p) =>
                \/ Ids(journal') = Ids(journal) /\ Beginning' \subseteq Beginning
                \/ /\ \E e : Ids(journal') = Ids(journal) \cup {e}
                   /\ p \in Beginning /\ Beginning' = Beginning \ {p}
  <1>0. journal \in Seq(Rows) /\ planes \in [Planes -> PlaneStates] /\ PlaneTypeOK
        /\ HoldsId(p)
    BY DEF TypeInv, PlaneTypeOK
  <1>1. ASSUME NEW request \in Requests, Submit(p, request)
        PROVE  Ids(journal') = Ids(journal) /\ Beginning' \subseteq Beginning \cup {p}
    <2>1. Kind(p)
      BY <1>1, StepKind
    <2>2. journal' = journal
      BY <1>1 DEF Submit
    <2> QED BY <2>1, <2>2 DEF Kind, Moves, Beginning
  <1>2. ASSUME Continue(p) \/ Crash(p)
        PROVE  \/ Ids(journal') = Ids(journal) /\ Beginning' \subseteq Beginning
               \/ /\ \E e : Ids(journal') = Ids(journal) \cup {e}
                  /\ p \in Beginning /\ Beginning' = Beginning \ {p}
    <2>1. Kind(p)
      BY <1>2, StepKind
    <2>2. \A q \in Planes : q # p => planes'[q] = planes[q]
      BY <2>1 DEF Kind, Moves
    <2>3. planes[p].pc # "idle"
      BY <1>2 DEF Continue, Crash, BeginExperiment, Preview, RecordIntent, Apply, RecordApply,
                  Verify, Rollback, RecordRollback, RollbackVerify, RecordOutcome
    <2>4. planes'[p].pc # "begin"
      <3>1. CASE planes[p].exp # 0
        BY <2>1, <3>1 DEF Kind, Outside, Begins, Works, Ends
      <3>2. CASE planes[p].exp = 0
        <4>1. planes[p].pc = "begin"
          BY <1>0, <2>3, <3>2 DEF HoldsId
        <4>2. BeginExperiment(p) \/ Crash(p)
          BY <1>2, <4>1 DEF Continue, Preview, RecordIntent, Apply, RecordApply,
                  Verify, Rollback, RecordRollback, RollbackVerify, RecordOutcome
        <4>3. "journal" \in Replies /\ "none" \in Replies
          BY DEF Replies, FailureKinds
        <4>4. CASE BeginExperiment(p)
          <5>1. CASE Return(p, "journal")
            BY <1>0, <4>3, <5>1, LocalSteps
          <5>2. CASE planes' = [planes EXCEPT ![p].pc = "preview", ![p].exp = NextId(journal)]
            BY <1>0, <5>2 DEF PlaneStates
          <5> QED BY <4>4, <5>1, <5>2 DEF BeginExperiment
        <4>5. CASE Crash(p)
          BY <1>0, <4>3, <4>5, LocalSteps DEF Crash
        <4> QED BY <4>2, <4>4, <4>5
      <3> QED BY <3>1, <3>2
    <2>5. CASE Begins(p)
      <3>1. p \in Beginning
        BY <1>0, <2>3, <2>5 DEF Begins, HoldsId, Beginning
      <3>2. Beginning' = Beginning \ {p}
        BY <2>2, <2>4 DEF Beginning
      <3>3. PICK n \in Nat : Ids(journal) = 1..n
        BY DEF TypeInv, GapFree
      <3>4. NextId(journal) \in Nat \ {0}
        BY <3>3, NextIdValue
      <3> DEFINE r == SnapshotRow(NextId(journal), planes[p].snap)
      <3>5. planes[p].snap \in Settings
        BY <1>0 DEF PlaneStates
      <3>6. r \in Rows
        BY <3>4, <3>5, RowTypes
      <3>7. journal' = journal \o <<r>>
        BY <2>5 DEF Begins
      <3> HIDE DEF r
      <3>8. Ids(journal') = Ids(journal) \cup {r.exp}
        BY <1>0, <3>6, <3>7, Inserted
      <3> QED BY <3>1, <3>2, <3>8
    <2>6. CASE ~Begins(p)
      <3>1. Beginning' \subseteq Beginning
        BY <2>2, <2>4 DEF Beginning
      <3>2. CASE journal' = journal
        BY <3>1, <3>2
      <3>3. ASSUME NEW r \in Rows, r.exp = planes[p].exp, journal' = journal \o <<r>>,
                   planes[p].exp # 0
            PROVE  Ids(journal') = Ids(journal)
        <4>1. Ids(journal') = Ids(journal) \cup {r.exp}
          BY <1>0, <3>3, Inserted
        <4>2. r.exp \in Ids(journal)
          BY <1>0, <3>3 DEF HoldsId
        <4> QED BY <4>1, <4>2
      <3>4. \/ journal' = journal
            \/ \E r \in Rows : r.exp = planes[p].exp /\ journal' = journal \o <<r>>
                               /\ planes[p].exp # 0
        BY <2>1, <2>6 DEF Kind, Outside, Works, Ends
      <3> QED BY <3>1, <3>2, <3>3, <3>4
    <2> QED BY <2>5, <2>6
  <1> QED BY <1>1, <1>2

\* A gateway's step keeps a call for every experiment (dispatch, run_lifecycle).
LEMMA AskedStep ==
    ASSUME TypeInv, SessionsTyped, AnsweredInOrder, AskedInv, GatewayNext
    PROVE  AskedInv'
  <1> DEFINE ids == Cardinality(Ids(journal))
             begun == Cardinality(Beginning)
             calls == Cardinality(Calls)
  <1>0. /\ IsFiniteSet(Calls) /\ IsFiniteSet(Beginning) /\ IsFiniteSet(Ids(journal))
        /\ ids \in Nat /\ begun \in Nat /\ calls \in Nat /\ ids + begun <= calls
    BY FS_CardinalityType DEF AskedInv
  <1>1. PICK p \in Planes :
           \/ Called(p) /\ \E request \in Requests : Submit(p, request)
           \/ Uncalled(p) /\ (Continue(p) \/ Crash(p) \/ UNCHANGED planeVars)
    BY SessionStep
  <1>2. CASE Called(p) /\ \E request \in Requests : Submit(p, request)
    <2>1. PICK c : c \notin Calls /\ Calls' = Calls \cup {c}
      BY <1>2, CallsAfter
    <2>2. IsFiniteSet(Calls') /\ Cardinality(Calls') = calls + 1
      BY <1>0, <2>1, FS_AddElement
    <2>3. Ids(journal') = Ids(journal) /\ Beginning' \subseteq Beginning \cup {p}
      BY <1>2, IdsAfter
    <2>4. /\ IsFiniteSet(Beginning \cup {p})
          /\ Cardinality(Beginning \cup {p}) \in {begun, begun + 1}
      BY <1>0, FS_AddElement
    <2>5. IsFiniteSet(Beginning') /\ Cardinality(Beginning') <= Cardinality(Beginning \cup {p})
      BY <2>3, <2>4, FS_Subset
    <2>6. Cardinality(Beginning') \in Nat
      BY <2>5, FS_CardinalityType
    <2>7. ids + Cardinality(Beginning') <= calls + 1
      BY <1>0, <2>4, <2>5, <2>6
    <2> QED BY <1>0, <2>2, <2>3, <2>5, <2>7 DEF AskedInv
  <1>3. ASSUME Uncalled(p), Ids(journal') = Ids(journal), Beginning' \subseteq Beginning
        PROVE  AskedInv'
    <2>1. Calls' = Calls
      BY <1>3, CallsAfter
    <2>2. IsFiniteSet(Beginning') /\ Cardinality(Beginning') <= begun
      BY <1>0, <1>3, FS_Subset
    <2>3. Cardinality(Beginning') \in Nat
      BY <2>2, FS_CardinalityType
    <2>4. ids + Cardinality(Beginning') <= calls
      BY <1>0, <2>2, <2>3
    <2> QED BY <1>0, <1>3, <2>1, <2>2, <2>4 DEF AskedInv
  <1>4. ASSUME Uncalled(p), NEW e, Ids(journal') = Ids(journal) \cup {e},
               p \in Beginning, Beginning' = Beginning \ {p}
        PROVE  AskedInv'
    <2>1. Calls' = Calls
      BY <1>4, CallsAfter
    <2>2. IsFiniteSet(Beginning') /\ Cardinality(Beginning') = begun - 1
      BY <1>0, <1>4, FS_RemoveElement
    <2>3. IsFiniteSet(Ids(journal')) /\ Cardinality(Ids(journal')) \in {ids, ids + 1}
      BY <1>0, <1>4, FS_AddElement
    <2>4. Cardinality(Ids(journal')) + Cardinality(Beginning') <= calls
      BY <1>0, <2>2, <2>3
    <2> QED BY <1>0, <2>1, <2>2, <2>3, <2>4 DEF AskedInv
  <1>5. CASE Uncalled(p) /\ (Continue(p) \/ Crash(p))
    BY <1>3, <1>4, <1>5, IdsAfter
  <1>6. CASE Uncalled(p) /\ UNCHANGED planeVars
    <2>1. journal' = journal /\ planes' = planes
      BY <1>6 DEF planeVars, hostVars
    <2>2. Ids(journal') = Ids(journal) /\ Beginning' \subseteq Beginning
      BY <2>1 DEF Beginning
    <2> QED BY <1>3, <1>6, <2>2
  <1> QED BY <1>1, <1>2, <1>5, <1>6

\* Whatever lines clients send, and however often gateways crash: no more
\* experiments are journaled than requests with an id asked for lifecycles, so a
\* notification never changes the host (dispatch).
THEOREM ExperimentsAsked == GatewaySpec => []ExperimentsWereAsked
  <1>1. GatewayInit => AskedInv
    <2> SUFFICES ASSUME GatewayInit PROVE AskedInv
      OBVIOUS
    <2>1. journal = << >> /\ planes = [p \in Planes |-> Idle("none")]
          /\ sessions = [p \in Planes |-> NewSession]
      BY DEF GatewayInit, PlanesInit, HostInit, PlaneInit
    <2>2. Ids(journal) = {}
      BY <2>1 DEF Ids
    <2>3. Beginning = {}
      BY <2>1 DEF Beginning, Idle
    <2>4. \A c \in Planes \X (1..MaxLines) : ~(c[2] <= sessions[c[1]].calls)
      <3>1. ASSUME NEW c \in Planes \X (1..MaxLines) PROVE ~(c[2] <= sessions[c[1]].calls)
        <4>1. MaxLines \in Nat
          BY GatewayAssumption
        <4>2. c[1] \in Planes /\ c[2] \in 1..MaxLines
          OBVIOUS
        <4>3. sessions[c[1]].calls = 0
          BY <2>1, <4>2 DEF NewSession
        <4> QED BY <4>1, <4>2, <4>3
      <3> QED BY <3>1
    <2>5. Calls = {}
      BY <2>4 DEF Calls
    <2> QED BY <2>2, <2>3, <2>5, FS_EmptySet DEF AskedInv
  <1>2. TypeInv /\ SessionsTyped /\ AnsweredInOrder /\ AskedInv /\ [GatewayNext]_gatewayVars
           => AskedInv'
    <2>1. ASSUME AskedInv, UNCHANGED gatewayVars PROVE AskedInv'
      <3>1. journal' = journal /\ planes' = planes /\ sessions' = sessions
        BY <2>1 DEF gatewayVars, planeVars, hostVars
      <3>2. Calls' = Calls /\ Beginning' = Beginning /\ Ids(journal') = Ids(journal)
        BY <3>1 DEF Calls, Beginning
      <3> QED BY <2>1, <3>2 DEF AskedInv
    <2> QED BY <2>1, AskedStep
  <1>3. AskedInv => ExperimentsWereAsked
    <2> SUFFICES ASSUME AskedInv PROVE ExperimentsWereAsked
      OBVIOUS
    <2>1. /\ Cardinality(Ids(journal)) \in Nat /\ Cardinality(Beginning) \in Nat
          /\ Cardinality(Calls) \in Nat
      BY FS_CardinalityType DEF AskedInv
    <2>2. Cardinality(Ids(journal)) + Cardinality(Beginning) <= Cardinality(Calls)
      BY DEF AskedInv
    <2>3. Cardinality(Ids(journal)) <= Cardinality(Calls)
      BY <2>1, <2>2
    <2> QED BY <2>3 DEF ExperimentsWereAsked
  <1>4. GatewaySpec => []TypeInv
    BY GatewaysArePlanes, TypeInvariance, PTL
  <1> QED BY <1>1, <1>2, <1>3, <1>4, OrderInvariance, PTL DEF GatewaySpec
=============================================================================
