------------------------------- MODULE Gateway -------------------------------
(***************************************************************************)
(* The stdio MCP gateway: serve reads one JSON-RPC line at a time and      *)
(* dispatches it to the control plane it opened for itself.  It has one    *)
(* thread: while a lifecycle runs it neither reads nor notices that its    *)
(* client has gone.  A gateway that ends, at the end of its input, at a    *)
(* transport error or in a crash, is started again on the same journal by  *)
(* the next client.                                                        *)
(*                                                                         *)
(* A line is what its JSON says: whether it parses, its id, method and     *)
(* tool, and the value and lease_seconds of its arguments.                 *)
(***************************************************************************)
EXTENDS ControlPlane

CONSTANTS
    Lines,          \* the lines clients send
    MaxLines        \* bound: lines read in a behaviour by one gateway

Missing == -1       \* a member that is not there, or not an unsigned number

ASSUME GatewayAssumption ==
    /\ MaxLines \in Nat
    /\ \A line \in Lines : /\ line.json \in BOOLEAN
                           /\ {line.value, line.lease} \subseteq Nat \cup {Missing}

\* A line's id is "absent" (a notification), "null" (which is an id) or "id".
VARIABLE sessions   \* the state of every gateway's serve loop

gatewayVars == <<planeVars, sessions>>

\* result: the response's result, a tool call's text ("ok" or "is-error") or one
\* of the JSON-RPC error codes.
Response(id, result) == [id |-> id, result |-> result]

\* asked: the ids of the lines owed a response; sent: the responses.  The rest
\* counts over all the sessions of a gateway: lines read and lifecycles asked for
\* with an id.
NewSession ==
    [pc |-> "read", asked |-> << >>, sent |-> << >>, result |-> "result",
     lines |-> 0, calls |-> 0]

GatewayInit ==
    /\ PlanesInit
    /\ sessions = [p \in Planes |-> NewSession]

-----------------------------------------------------------------------------
\* from_value::<ChangeRequest>: lease_seconds is a NonZeroU64, the parameters an
\* object that holds whatever the value is.
Decodable(line) == line.lease \notin {Missing, 0}

\* A value that is no unsigned number decodes, and the policy denies it like one
\* past the ceiling.
ChangeRequest(line) ==
    [val |-> IF line.value = Missing THEN MaxMockValue + 1 ELSE line.value,
     lease |-> line.lease, reversible |-> TRUE, known |-> TRUE]

\* call_tool: what the tool answers, or "call" for a lifecycle to be run.
CallTool(line) ==
    CASE line.tool = "capabilities" -> "result"
      [] line.tool = "run_mock_lifecycle" /\ line.arguments /\ Decodable(line) -> "call"
      [] OTHER -> "invalid-params"

\* dispatch, for a line that parses and has an id.
Dispatch(line) ==
    CASE line.method \in {"initialize", "tools/list"} -> "result"
      [] line.method = "tools/call" -> CallTool(line)
      [] line.method = "missing" -> "invalid-request"
      [] OTHER -> "method-not-found"

\* Every lifecycle a line asks for is a request of the control plane's model.
ASSUME DecodedAssumption ==
    \A line \in Lines :
        line.json /\ line.id # "absent" /\ Dispatch(line) = "call" => ChangeRequest(line) \in Requests

-----------------------------------------------------------------------------
\* The line is owed a response, which serve goes on to prepare at pc.
Owe(p, id, pc, result) ==
    sessions' = [sessions EXCEPT ![p].pc = pc, ![p].result = result,
                                 ![p].asked = Append(sessions[p].asked, id),
                                 ![p].lines = sessions[p].lines + 1,
                                 ![p].calls = sessions[p].calls + (IF pc = "call" THEN 1 ELSE 0)]

\* The process is gone; what it still owed is never sent.
End(p) == sessions' = [sessions EXCEPT ![p].pc = "closed", ![p].asked = << >>, ![p].sent = << >>]

Reading(p) == sessions[p].pc = "read" /\ sessions[p].lines < MaxLines

\* A line that is not JSON is answered without an id of its own.
ReadMalformed(p, line) ==
    /\ Reading(p)
    /\ ~line.json
    /\ Owe(p, "null", "write", "parse-error")
    /\ UNCHANGED planeVars

\* Mutant: a notification is dispatched and only its response is left out.
MutReadNotification(p, line) ==
    /\ Reading(p)
    /\ line.json /\ line.id = "absent"
    /\ sessions' = [sessions EXCEPT ![p].lines = sessions[p].lines + 1]
    /\ IF Dispatch(line) = "call" THEN Submit(p, ChangeRequest(line)) ELSE UNCHANGED planeVars

\* dispatch returns before it looks at the method.
ReadNotification(p, line) ==
    /\ Reading(p)
    /\ line.json /\ line.id = "absent"
    /\ sessions' = [sessions EXCEPT ![p].lines = sessions[p].lines + 1]
    /\ UNCHANGED planeVars

\* A request that does not reach the provider.
ReadRequest(p, line) ==
    /\ Reading(p)
    /\ line.json /\ line.id # "absent"
    /\ Dispatch(line) # "call"
    /\ Owe(p, line.id, "write", Dispatch(line))
    /\ UNCHANGED planeVars

\* run_lifecycle is called, on the thread that reads the lines.
ReadLifecycle(p, line) ==
    /\ Reading(p)
    /\ line.json /\ line.id # "absent"
    /\ Dispatch(line) = "call"
    /\ Submit(p, ChangeRequest(line))
    /\ Owe(p, line.id, "call", "is-error")

\* run_lifecycle returned: success or failure text, never a protocol error.
LifecycleReturned(p) ==
    /\ sessions[p].pc = "call"
    /\ planes[p].pc = "idle"
    /\ sessions' = [sessions EXCEPT ![p].pc = "write",
                                    ![p].result = IF planes[p].reply = "ok" THEN "ok"
                                                  ELSE "is-error"]
    /\ UNCHANGED planeVars

\* Mutant: the id of a response is the one the session began with.
MutWriteFirstId(p) ==
    /\ sessions[p].pc = "write"
    /\ sessions' = [sessions EXCEPT
            ![p].pc = "read",
            ![p].sent = Append(sessions[p].sent,
                               Response(sessions[p].asked[1], sessions[p].result))]
    /\ UNCHANGED planeVars

\* The response is written and flushed, with the id of its line.
WriteResponse(p) ==
    /\ sessions[p].pc = "write"
    /\ sessions' = [sessions EXCEPT
            ![p].pc = "read",
            ![p].sent = Append(sessions[p].sent,
                               Response(sessions[p].asked[Len(sessions[p].asked)],
                                        sessions[p].result))]
    /\ UNCHANGED planeVars

\* The client has closed its end: serve returns when it next reads or writes.
Hangup(p) ==
    /\ sessions[p].pc \in {"read", "write"}
    /\ End(p)
    /\ UNCHANGED planeVars

\* The gateway dies inside run_lifecycle.
GatewayCrash(p) ==
    /\ Crash(p)
    /\ End(p)

\* main: the next client starts a gateway.
Connect(p) ==
    /\ sessions[p].pc = "closed"
    /\ sessions' = [sessions EXCEPT ![p].pc = "read"]
    /\ UNCHANGED planeVars

\* What serve does without its client.
ServeContinues(p) ==
    \/ Continue(p) /\ UNCHANGED sessions
    \/ LifecycleReturned(p)
    \/ WriteResponse(p)

GatewayNext ==
    \E p \in Planes :
        \/ \E line \in Lines : \/ ReadMalformed(p, line) \/ ReadNotification(p, line)
                               \/ ReadRequest(p, line) \/ ReadLifecycle(p, line)
        \/ ServeContinues(p)
        \/ Hangup(p) \/ GatewayCrash(p) \/ Connect(p)

\* serve is straight-line code between two reads; a client reads what it is sent
\* or goes.
GatewaySpec ==
    /\ GatewayInit
    /\ [][GatewayNext]_gatewayVars
    /\ \A p \in Planes : WF_gatewayVars(ServeContinues(p))

-----------------------------------------------------------------------------
\* Responses come in the order of the lines, each with the id of its line, and
\* none is missing but the one being prepared: a malformed line, an unknown
\* method and a failed lifecycle included, a notification excepted (serve).
AnsweredInOrder ==
    \A p \in Planes :
        LET s == sessions[p]
        IN  /\ Len(s.asked) = Len(s.sent) + (IF s.pc \in {"call", "write"} THEN 1 ELSE 0)
            /\ \A i \in DOMAIN s.sent : s.sent[i].id = s.asked[i]

\* The lifecycles asked for by lines with an id, numbered for every gateway.
Calls == {c \in Planes \X (1..MaxLines) : c[2] <= sessions[c[1]].calls}

\* Every experiment in the journal was asked for by a request that is owed a
\* response: a notification never begins one, whatever it names (dispatch).
ExperimentsWereAsked == Cardinality(Ids(journal)) <= Cardinality(Calls)

\* A line that is owed a response gets it, or the session ends: no combination of
\* failing stages leaves the client waiting (serve, run_lifecycle).
EveryLineEnds ==
    \A p \in Planes : sessions[p].pc \in {"call", "write"} ~> sessions[p].pc \in {"read", "closed"}
=============================================================================
