------------------------------ MODULE MCGateway ------------------------------
(* One gateway, restarted by its clients. *)
EXTENDS Gateway

CONSTANT g1

Line == [json |-> TRUE, id |-> "id", method |-> "tools/call", tool |-> "run_mock_lifecycle",
         arguments |-> TRUE, value |-> 1, lease |-> 1]

\* Lifecycles inside and outside of the policy, one with an id of null, and the
\* same request as a notification.
Lifecycles ==
    {Line, [Line EXCEPT !.value = 2], [Line EXCEPT !.id = "null"],
     [Line EXCEPT !.value = MaxMockValue + 1], [Line EXCEPT !.value = Missing],
     [Line EXCEPT !.lease = MaxLease + 1], [Line EXCEPT !.id = "absent"]}

\* One line for every other way through dispatch and call_tool.
Others ==
    {[Line EXCEPT !.json = FALSE], [Line EXCEPT !.lease = 0], [Line EXCEPT !.lease = Missing],
     [Line EXCEPT !.arguments = FALSE], [Line EXCEPT !.tool = "unknown"],
     [Line EXCEPT !.tool = "missing"], [Line EXCEPT !.tool = "capabilities"],
     [Line EXCEPT !.method = "initialize"], [Line EXCEPT !.method = "tools/list"],
     [Line EXCEPT !.method = "unknown"], [Line EXCEPT !.method = "missing"]}

AllLines == Lifecycles \cup Others

Decoded == {ChangeRequest(line) : line \in {l \in AllLines : Decodable(l)}}
=============================================================================
