------------------------------- MODULE Broker --------------------------------
(***************************************************************************)
(* The broker process: the accept loop and its connection slots, one task  *)
(* per connection, and the single worker thread that owns the control      *)
(* plane and the ownership ledger.  Tasks reach the worker through a       *)
(* bounded queue and wait for its answer without a timeout.                *)
(*                                                                         *)
(* Time is abstract: a peer that stalls is one whose next event is the     *)
(* timeout.  What a lifecycle does is in ControlPlane; here it answers one *)
(* of its replies or panics.                                               *)
(***************************************************************************)
EXTENDS Naturals, Sequences, FiniteSets

CONSTANTS
    Peers,           \* client processes, one connection at a time each
    Trusted,         \* the peers the ACL admits
    MaxConnections,  \* MAX_CONNECTIONS
    Backlog,         \* REQUEST_BACKLOG
    Faulty           \* whether the worker may panic and the listener fail

ASSUME BrokerAssumption ==
    /\ Trusted \subseteq Peers
    /\ "none" \notin Peers
    /\ MaxConnections \in Nat \ {0}
    /\ Backlog \in Nat \ {0}
    /\ MaxConnections <= Backlog
    /\ Faulty \in BOOLEAN

VARIABLES
    waiting,         \* the transport's own backlog of unaccepted peers
    conns,           \* the task of every peer's connection
    acceptor,        \* serve's loop: "permit", "accept" or "exited"
    queue,           \* jobs sent to the worker and not yet received
    worker,          \* the worker thread: "idle", "busy" or "stopped"
    job,             \* the job the worker is handling
    owner            \* the ledger's entry for the knob: a peer's label or none

vars == <<waiting, conns, acceptor, queue, worker, job, owner>>

\* Frames a peer sends: no valid frame, or a request of one of these shapes.
Frames == {"empty", "too-large", "truncated", "undecodable"}

Requests == {"discover", "no-owner", "no-change", "unlisted", "change"}

PlaneReplies == {"ok", "unknown-capability", "policy-denied", "provider", "journal",
                 "verification-failed", "rollback-verification-failed"}

Responses == {"none", "capabilities", "lifecycle", "unauthenticated", "malformed",
              "unknown-capability", "policy-denied", "owner-conflict",
              "lifecycle-failed", "internal"}

ConnPCs == {"away", "queued", "accepted", "reading", "sending", "waiting",
            "writing", "closing"}

NoJob == [peer |-> "none", req |-> "none"]

Away == [pc |-> "away", req |-> "none", resp |-> "none"]

Init ==
    /\ waiting = << >>
    /\ conns = [c \in Peers |-> Away]
    /\ acceptor = "permit"
    /\ queue = << >>
    /\ worker = "idle"
    /\ job = NoJob
    /\ owner = "none"

\* Connections whose task holds a slot.
Served == {c \in Peers : conns[c].pc \notin {"away", "queued"}}

SlotsUsed == Cardinality(Served) + (IF acceptor = "accept" THEN 1 ELSE 0)

\* Connection c answers resp and then goes back to reading ("writing") or drops
\* the peer ("closing").
Reply(c, pc, resp) ==
    conns' = [conns EXCEPT ![c].pc = pc, ![c].resp = resp]

Close(c) == conns' = [conns EXCEPT ![c] = Away]

-----------------------------------------------------------------------------
\* serve and admit

\* A peer connects: it waits in the transport until it is accepted.
Connect(c) ==
    /\ conns[c].pc = "away" /\ acceptor # "exited"
    /\ conns' = [conns EXCEPT ![c].pc = "queued"]
    /\ waiting' = Append(waiting, c)
    /\ UNCHANGED <<acceptor, queue, worker, job, owner>>

\* Mutant: one slot too many.
MutTakeSlotOffByOne ==
    /\ acceptor = "permit"
    /\ SlotsUsed <= MaxConnections
    /\ acceptor' = "accept"
    /\ UNCHANGED <<waiting, conns, queue, worker, job, owner>>

\* admit, first half: the slot is taken before a peer is accepted into it.
TakeSlot ==
    /\ acceptor = "permit"
    /\ SlotsUsed < MaxConnections
    /\ acceptor' = "accept"
    /\ UNCHANGED <<waiting, conns, queue, worker, job, owner>>

\* Mutant: the loop keeps the slot it handed to the connection.
MutAcceptReusesSlot ==
    /\ acceptor = "accept" /\ waiting # << >>
    /\ conns' = [conns EXCEPT ![Head(waiting)].pc = "accepted"]
    /\ waiting' = Tail(waiting)
    /\ UNCHANGED <<acceptor, queue, worker, job, owner>>

\* admit, second half; the slot moves into the connection's task.
Accept ==
    /\ acceptor = "accept" /\ waiting # << >>
    /\ conns' = [conns EXCEPT ![Head(waiting)].pc = "accepted"]
    /\ waiting' = Tail(waiting)
    /\ acceptor' = "permit"
    /\ UNCHANGED <<queue, worker, job, owner>>

\* One connection aborted under accept: its slot is returned and the loop goes on.
AcceptAborted ==
    /\ acceptor = "accept" /\ waiting # << >>
    /\ conns' = [conns EXCEPT ![Head(waiting)] = Away]
    /\ waiting' = Tail(waiting)
    /\ acceptor' = "permit"
    /\ UNCHANGED <<queue, worker, job, owner>>

\* Mutant: serve does not watch the worker.
MutExitOnListenerOnly ==
    /\ acceptor # "exited"
    /\ Faulty /\ acceptor = "accept"
    /\ acceptor' = "exited"
    /\ conns' = [c \in Peers |-> Away]
    /\ waiting' = << >> /\ queue' = << >>
    /\ worker' = "stopped" /\ job' = NoJob /\ owner' = "none"

\* The worker stopped or the listener failed for good: serve returns an error,
\* the process exits, and every connection and the worker go with it.
Exit ==
    /\ acceptor # "exited"
    /\ worker = "stopped" \/ (Faulty /\ acceptor = "accept")
    /\ acceptor' = "exited"
    /\ conns' = [c \in Peers |-> Away]
    /\ waiting' = << >> /\ queue' = << >>
    /\ worker' = "stopped" /\ job' = NoJob /\ owner' = "none"

-----------------------------------------------------------------------------
\* handle_connection

\* The ACL, before any request is read.
Authorize(c) ==
    /\ conns[c].pc = "accepted"
    /\ \/ c \in Trusted /\ conns' = [conns EXCEPT ![c].pc = "reading"]
       \/ c \notin Trusted /\ Reply(c, "closing", "unauthenticated")
    /\ UNCHANGED <<waiting, acceptor, queue, worker, job, owner>>

\* read_frame: a request is decoded and dispatched, a bad frame is answered or
\* ends the connection.
ReadFrame(c, frame) ==
    /\ conns[c].pc = "reading"
    /\ \/ /\ frame \in Requests
          /\ conns' = [conns EXCEPT ![c] = [pc |-> "sending", req |-> frame, resp |-> "none"]]
       \/ frame \in {"empty", "undecodable"} /\ Reply(c, "writing", "malformed")
       \/ frame = "too-large" /\ Reply(c, "closing", "malformed")
       \/ frame = "truncated" /\ Close(c)
    /\ UNCHANGED <<waiting, acceptor, queue, worker, job, owner>>

\* Mutant: the read has no deadline and the peer does not hang up.
MutNoIdleTimeout(c) == FALSE /\ Close(c) /\ UNCHANGED <<waiting, acceptor, queue, worker, job, owner>>

\* The peer hung up, or sent nothing for the idle timeout.
StopReading(c) ==
    /\ conns[c].pc = "reading"
    /\ Close(c)
    /\ UNCHANGED <<waiting, acceptor, queue, worker, job, owner>>

\* dispatch, first half: the job channel takes the request or is closed.
Send(c) ==
    /\ conns[c].pc = "sending"
    /\ \/ /\ worker # "stopped" /\ Len(queue) < Backlog
          /\ queue' = Append(queue, [peer |-> c, req |-> conns[c].req])
          /\ conns' = [conns EXCEPT ![c].pc = "waiting"]
       \/ /\ worker = "stopped"
          /\ Reply(c, "writing", "internal")
          /\ UNCHANGED queue
    /\ UNCHANGED <<waiting, acceptor, worker, job, owner>>

\* dispatch, second half: the worker dropped the job without an answer.
Dropped(c) ==
    /\ conns[c].pc = "waiting" /\ worker = "stopped"
    /\ Reply(c, "writing", "internal")
    /\ UNCHANGED <<waiting, acceptor, queue, worker, job, owner>>

\* write_response: the peer takes the response, or it does not within the
\* deadline (or is gone) and the connection ends.
WriteResponse(c) ==
    /\ \/ /\ conns[c].pc = "writing"
          /\ \/ conns' = [conns EXCEPT ![c] = [pc |-> "reading", req |-> "none", resp |-> "none"]]
             \/ Close(c)
       \/ conns[c].pc = "closing" /\ Close(c)
    /\ UNCHANGED <<waiting, acceptor, queue, worker, job, owner>>

-----------------------------------------------------------------------------
\* The worker thread

\* The wire kind of what run_lifecycle returned.
WireError(reply) ==
    CASE reply = "ok"                 -> "lifecycle"
      [] reply = "unknown-capability" -> "unknown-capability"
      [] reply = "policy-denied"      -> "policy-denied"
      [] OTHER                        -> "lifecycle-failed"

\* What handle answers before it would take the knob.
EarlyAnswer(req) ==
    CASE req = "discover"               -> "capabilities"
      [] req \in {"no-owner", "no-change"} -> "malformed"
      [] req = "unlisted"               -> "unknown-capability"
      [] OTHER                          -> "none"

\* Mutant: a job is looked at and not taken off the queue.
MutReceivePeeks ==
    /\ worker = "idle" /\ queue # << >>
    /\ EarlyAnswer(Head(queue).req) = "none" /\ owner = "none"
    /\ owner' = "held" /\ worker' = "busy" /\ job' = Head(queue)
    /\ UNCHANGED <<waiting, acceptor, queue, conns>>

\* The oldest job is received.  It is answered at once, or it takes the knob in
\* the ledger and the lifecycle starts.
Receive ==
    /\ worker = "idle" /\ queue # << >>
    /\ queue' = Tail(queue)
    /\ LET head == Head(queue)
       IN  \/ /\ EarlyAnswer(head.req) # "none"
              /\ Reply(head.peer, "writing", EarlyAnswer(head.req))
              /\ UNCHANGED <<worker, job, owner>>
           \/ /\ EarlyAnswer(head.req) = "none" /\ owner # "none"
              /\ Reply(head.peer, "writing", "owner-conflict")
              /\ UNCHANGED <<worker, job, owner>>
           \/ /\ EarlyAnswer(head.req) = "none" /\ owner = "none"
              /\ owner' = "held" /\ worker' = "busy" /\ job' = head
              /\ UNCHANGED conns
    /\ UNCHANGED <<waiting, acceptor>>

\* Mutant: a failed lifecycle leaves the knob held.
MutFinishLeaksKnob ==
    /\ worker = "busy"
    /\ \E reply \in PlaneReplies :
          /\ Reply(job.peer, "writing", WireError(reply))
          /\ owner' = IF reply = "ok" THEN "none" ELSE "held"
    /\ worker' = "idle" /\ job' = NoJob
    /\ UNCHANGED <<waiting, acceptor, queue>>

\* Mutant: a failed lifecycle is not answered.
MutFinishSilent ==
    /\ worker = "busy"
    /\ \/ Reply(job.peer, "writing", "lifecycle")
       \/ UNCHANGED conns
    /\ worker' = "idle" /\ job' = NoJob /\ owner' = "none"
    /\ UNCHANGED <<waiting, acceptor, queue>>

\* run_lifecycle returned: the guard is dropped and the response sent.
Finish ==
    /\ worker = "busy"
    /\ \E reply \in PlaneReplies : Reply(job.peer, "writing", WireError(reply))
    /\ worker' = "idle" /\ job' = NoJob /\ owner' = "none"
    /\ UNCHANGED <<waiting, acceptor, queue>>

\* The provider panics: unwinding drops the guard, the job and the receiver with
\* every job still in it.
Panic ==
    /\ Faulty
    /\ worker = "busy"
    /\ worker' = "stopped" /\ job' = NoJob /\ owner' = "none"
    /\ queue' = << >>
    /\ UNCHANGED <<waiting, conns, acceptor>>

-----------------------------------------------------------------------------
Task(c) ==
    \/ Authorize(c)
    \/ \E frame \in Frames \cup Requests : ReadFrame(c, frame)
    \/ StopReading(c) \/ Send(c) \/ Dropped(c) \/ WriteResponse(c)

Serve == TakeSlot \/ Accept \/ AcceptAborted \/ Exit

Work == Receive \/ Finish

Next == (\E c \in Peers : Connect(c) \/ Task(c)) \/ Serve \/ Work \/ Panic

\* The runtime polls every ready task and the worker loops.  A peer owes nothing,
\* but both of its waits have a deadline, so a task in "reading" or "writing"
\* always gets on.  Only serving one peer for ever is not excluded by a deadline:
\* StopReading has to happen in the end.  Finish is not fair: nothing in the
\* broker bounds how long a provider may stay in run_lifecycle.
Spec ==
    /\ Init /\ [][Next]_vars
    /\ WF_vars(TakeSlot) /\ WF_vars(Accept \/ AcceptAborted)
    /\ WF_vars(Exit /\ worker = "stopped")
    /\ WF_vars(Receive)
    /\ \A c \in Peers : WF_vars(Task(c))

\* A peer does not keep one connection busy for ever.
PatientSpec == Spec /\ \A c \in Peers : SF_vars(StopReading(c))

-----------------------------------------------------------------------------
\* Every variable keeps to its type, and the slots in use to MAX_CONNECTIONS: a
\* slot is taken before its peer is accepted (admit).
BrokerTypeOK ==
    /\ waiting \in Seq(Peers)
    /\ conns \in [Peers -> [pc : ConnPCs, req : Requests \cup {"none"}, resp : Responses]]
    /\ acceptor \in {"permit", "accept", "exited"}
    /\ queue \in Seq([peer : Peers, req : Requests])
    /\ worker \in {"idle", "busy", "stopped"}
    /\ job \in [peer : Peers, req : Requests] \cup {NoJob}
    /\ owner \in {"none", "held"}
    /\ SlotsUsed <= MaxConnections

\* Sending never has to wait: with one request in flight per slot and no more
\* slots than backlog, the queue has room for every task that is about to send,
\* so dispatch cannot stall on a full channel (REQUEST_BACKLOG over
\* MAX_CONNECTIONS).
RoomForEverySender ==
    Len(queue) + Cardinality({c \in Peers : conns[c].pc = "sending"}) <= Backlog

\* A task that waits for an answer has its request in exactly one place, the
\* queue or the worker, or the worker is gone and took it along: no request is
\* lost, duplicated or handled for a peer that has left.
RequestIsSomewhere ==
    \A c \in Peers :
        Cardinality({i \in DOMAIN queue : queue[i].peer = c})
          + (IF job.peer = c THEN 1 ELSE 0)
        = IF conns[c].pc = "waiting" /\ worker # "stopped" THEN 1 ELSE 0

\* What the peer of a request of this shape may be told; a frame that is no
\* request is malformed.  One worker and a guard that every exit path drops: no
\* caller is refused the knob because an earlier lifecycle left it held.
AnswersTo(req) ==
    CASE req = "discover" -> {"capabilities"}
      [] req = "unlisted" -> {"unknown-capability"}
      [] req = "change" -> {"lifecycle", "unknown-capability", "policy-denied",
                            "lifecycle-failed"}
      [] OTHER -> {"malformed"}

\* The next response on a connection is the answer to its last request, which is
\* all that BrokerClient::request has to match the two by; it is an internal
\* error only once the worker is gone, and a peer the ACL refuses is told nothing
\* else (dispatch, handle_connection, OwnershipGuard::drop).
AnswersItsRequest ==
    \A c \in Peers : conns[c].resp # "none" =>
        conns[c].resp \in
            IF c \notin Trusted THEN {"unauthenticated"}
            ELSE AnswersTo(conns[c].req) \cup (IF worker = "stopped" THEN {"internal"} ELSE {})

\* Providers return: no lifecycle holds the one worker for ever.  It is what the
\* two properties below need of the providers and the broker does not enforce: a
\* provider that blocks stalls every peer (broker-dispatch-unbounded).
LifecyclesReturn == []<>(worker # "busy")

\* As long as every lifecycle returns, a dispatched request is answered, or its
\* connection ends with the process (dispatch, worker_loop).
DispatchEnds ==
    LifecyclesReturn =>
        \A c \in Peers :
            conns[c].pc \in {"sending", "waiting"} ~> conns[c].pc \in {"writing", "away"}

\* A broker that lost its worker exits instead of staying up (worker_stopped).
WorkerLossExits == worker = "stopped" ~> acceptor = "exited"

\* As long as every lifecycle returns, no set of stalled peers keeps a waiting one
\* out: the deadlines give the slot back (CONNECTION_IDLE_TIMEOUT,
\* REJECTION_WRITE_TIMEOUT).
WaiterIsServed ==
    LifecyclesReturn => \A c \in Peers : conns[c].pc = "queued" ~> conns[c].pc # "queued"
=============================================================================
