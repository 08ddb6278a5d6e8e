----------------------------- MODULE BrokerProofs -----------------------------
(***************************************************************************)
(* The broker's tasks and its worker, proved for any set of peers, any ACL *)
(* and any number of slots that the backlog covers: the slots bound the    *)
(* connections, the queue always has room, no request is lost or           *)
(* duplicated, and every response answers the request before it.           *)
(***************************************************************************)
EXTENDS Broker, FiniteSetTheorems, TLAPS

-----------------------------------------------------------------------------
\* The inductive invariant

Jobs == [peer : Peers, req : Requests]

ConnStates == [pc : ConnPCs, req : Requests \cup {"none"}, resp : Responses]

\* The types, without the count of the slots.
Typed ==
    /\ waiting \in Seq(Peers)
    /\ conns \in [Peers -> ConnStates]
    /\ acceptor \in {"permit", "accept", "exited"}
    /\ queue \in Seq(Jobs)
    /\ worker \in {"idle", "busy", "stopped"}
    /\ job \in Jobs \cup {NoJob}
    /\ owner \in {"none", "held"}

\* A peer waits in the transport once, and has no slot yet.
WaitingInv ==
    /\ \A i \in DOMAIN waiting : conns[waiting[i]].pc = "queued"
    /\ \A i, j \in DOMAIN waiting : waiting[i] = waiting[j] => i = j

\* The slots in use are finitely many, and no more than there are.
SlotsInv == IsFiniteSet(Served) /\ SlotsUsed <= MaxConnections

\* A job is the request of a task that waits for it, queued or with the worker,
\* never both, and never twice.
JobsInv ==
    /\ \A i \in DOMAIN queue :
          /\ conns[queue[i].peer].pc = "waiting"
          /\ conns[queue[i].peer].req = queue[i].req
          /\ queue[i].peer # job.peer
    /\ \A i, j \in DOMAIN queue : queue[i].peer = queue[j].peer => i = j
    /\ job # NoJob =>
          /\ conns[job.peer].pc = "waiting"
          /\ conns[job.peer].req = job.req
          /\ job.req = "change"
    /\ \A c \in Peers : conns[c].pc = "waiting" /\ worker # "stopped" =>
          \/ job.peer = c
          \/ \E i \in DOMAIN queue : queue[i].peer = c

\* The knob is held exactly while the worker has a job; a worker that is gone
\* took its queue along.
WorkerInv ==
    /\ worker = "busy" <=> job # NoJob
    /\ worker = "busy" <=> owner = "held"
    /\ worker = "stopped" => queue = << >>

\* Nothing is answered before it was asked, and a peer the ACL refuses is never
\* read from.
AskedInv ==
    \A c \in Peers :
        /\ conns[c].pc \notin {"writing", "closing"} => conns[c].resp = "none"
        /\ conns[c].pc \notin {"sending", "waiting", "writing"} => conns[c].req = "none"
        /\ conns[c].pc \in {"sending", "waiting"} => conns[c].req \in Requests
        /\ c \notin Trusted => conns[c].pc \in {"away", "queued", "accepted", "closing"}

BrokerInv ==
    Typed /\ WaitingInv /\ SlotsInv /\ JobsInv /\ WorkerInv /\ AskedInv /\ AnswersItsRequest

-----------------------------------------------------------------------------
\* Lemmas about the channels

\* What sending to a channel appends (Send, Connect).
LEMMA Sent ==
    ASSUME NEW S, NEW s \in Seq(S), NEW e \in S
    PROVE  /\ Append(s, e) \in Seq(S)
           /\ DOMAIN s = 1..Len(s) /\ Len(s) \in Nat
           /\ DOMAIN Append(s, e) = 1..(Len(s) + 1)
           /\ \A i \in DOMAIN s : Append(s, e)[i] = s[i]
           /\ Append(s, e)[Len(s) + 1] = e
  OBVIOUS

\* What receiving from it takes away (Receive, Accept).
LEMMA Received ==
    ASSUME NEW S, NEW s \in Seq(S), s # << >>
    PROVE  /\ Head(s) = s[1] /\ Head(s) \in S /\ 1 \in DOMAIN s
           /\ Tail(s) \in Seq(S)
           /\ DOMAIN s = 1..Len(s) /\ Len(s) \in Nat \ {0}
           /\ DOMAIN Tail(s) = 1..(Len(s) - 1)
           /\ \A i \in DOMAIN Tail(s) : i + 1 \in DOMAIN s /\ Tail(s)[i] = s[i + 1]
  OBVIOUS

\* An element that was received from a channel without duplicates is in it no
\* more, and what is left has no duplicates.
LEMMA ReceivedOnce ==
    ASSUME NEW S, NEW s \in Seq(S), s # << >>
    PROVE  /\ \A i \in DOMAIN Tail(s) : \E j \in DOMAIN s : j # 1 /\ Tail(s)[i] = s[j]
           /\ \A j \in DOMAIN s : j # 1 => \E i \in DOMAIN Tail(s) : Tail(s)[i] = s[j]
  <1>1. /\ DOMAIN s = 1..Len(s) /\ Len(s) \in Nat \ {0}
        /\ DOMAIN Tail(s) = 1..(Len(s) - 1)
        /\ \A i \in DOMAIN Tail(s) : i + 1 \in DOMAIN s /\ Tail(s)[i] = s[i + 1]
    BY Received
  <1>2. ASSUME NEW i \in DOMAIN Tail(s) PROVE \E j \in DOMAIN s : j # 1 /\ Tail(s)[i] = s[j]
    <2>1. i + 1 \in DOMAIN s /\ i + 1 # 1 /\ Tail(s)[i] = s[i + 1]
      BY <1>1
    <2> QED BY <2>1
  <1>3. ASSUME NEW j \in DOMAIN s, j # 1 PROVE \E i \in DOMAIN Tail(s) : Tail(s)[i] = s[j]
    <2>1. j - 1 \in DOMAIN Tail(s) /\ (j - 1) + 1 = j
      BY <1>1, <1>3
    <2>2. Tail(s)[j - 1] = s[(j - 1) + 1]
      BY <1>1, <2>1
    <2> QED BY <2>1, <2>2
  <1> QED BY <1>2, <1>3

-----------------------------------------------------------------------------
\* Types

\* What handle may answer is a response of the wire.
LEMMA WireAnswers ==
    /\ \A reply \in PlaneReplies : WireError(reply) \in AnswersTo("change") \cap Responses
    /\ \A req \in Requests : EarlyAnswer(req) # "none" =>
          EarlyAnswer(req) \in AnswersTo(req) \cap Responses
    /\ \A req \in Requests : EarlyAnswer(req) = "none" => req = "change"
    /\ AnswersTo("none") = {"malformed"}
  BY DEF PlaneReplies, WireError, AnswersTo, Responses, Requests, EarlyAnswer

\* The initial state satisfies the invariant.
LEMMA BrokerInit == Init => BrokerInv
  <1> SUFFICES ASSUME Init PROVE BrokerInv
    OBVIOUS
  <1> USE DEF Init
  <1>1. Typed
    BY DEF Typed, ConnStates, ConnPCs, Responses, Away, NoJob
  <1>2. Served = {}
    BY DEF Served, Away
  <1>3. SlotsInv
    BY <1>2, FS_EmptySet, BrokerAssumption DEF SlotsInv, SlotsUsed
  <1>4. WaitingInv /\ WorkerInv
    BY DEF WaitingInv, WorkerInv
  <1>5. JobsInv
    BY BrokerAssumption DEF JobsInv, NoJob, Away
  <1>6. AskedInv /\ AnswersItsRequest
    BY DEF AskedInv, AnswersItsRequest, Away
  <1> QED BY <1>1, <1>3, <1>4, <1>5, <1>6 DEF BrokerInv

\* Answering and closing keep the connections' type.
LEMMA AnswerTyped ==
    ASSUME conns \in [Peers -> ConnStates], NEW c \in Peers
    PROVE  /\ \A pc \in ConnPCs, resp \in Responses :
                 Reply(c, pc, resp) => conns' \in [Peers -> ConnStates]
           /\ Close(c) => conns' \in [Peers -> ConnStates]
  <1>1. ASSUME NEW pc \in ConnPCs, NEW resp \in Responses, Reply(c, pc, resp)
        PROVE  conns' \in [Peers -> ConnStates]
    BY <1>1 DEF Reply, ConnStates
  <1>2. Away \in ConnStates
    BY DEF Away, ConnStates, ConnPCs, Responses
  <1>3. ASSUME Close(c) PROVE conns' \in [Peers -> ConnStates]
    BY <1>2, <1>3 DEF Close
  <1> QED BY <1>1, <1>3

\* Every step keeps the types.
LEMMA TypedStep == BrokerInv /\ Next => Typed'
  <1> SUFFICES ASSUME BrokerInv, Next PROVE Typed'
    OBVIOUS
  <1> USE DEF ConnStates
  <1>0. Typed /\ JobsInv /\ WorkerInv
    BY DEF BrokerInv
  <1> USE <1>0 DEF Typed
  <1>1. ASSUME NEW c \in Peers, Connect(c) PROVE Typed'
    BY <1>1, SMTT(30) DEF Connect, ConnPCs
  <1>2. ASSUME NEW c \in Peers, Task(c) PROVE Typed'
    <2>1. CASE Authorize(c)
      BY <2>1, SMTT(30) DEF Authorize, Reply, ConnPCs, Responses
    <2>2. ASSUME NEW frame \in Frames \cup Requests, ReadFrame(c, frame) PROVE Typed'
      <3>1. "writing" \in ConnPCs /\ "closing" \in ConnPCs /\ "malformed" \in Responses
        BY DEF ConnPCs, Responses
      <3>2. frame \in Requests => [pc |-> "sending", req |-> frame, resp |-> "none"] \in ConnStates
        BY DEF ConnPCs, Responses
      <3>3. conns' \in [Peers -> ConnStates]
        BY <2>2, <3>1, <3>2, AnswerTyped DEF ReadFrame
      <3> QED BY <2>2, <3>3 DEF ReadFrame
    <2>3. CASE StopReading(c)
      BY <2>3 DEF StopReading, Close, Away, ConnPCs, Responses
    <2>4. CASE Send(c)
      <3>1. conns[c].pc \in {"sending"} /\ conns[c].req \in Requests
        BY <2>4 DEF BrokerInv, AskedInv, Send
      <3>2. [peer |-> c, req |-> conns[c].req] \in Jobs
        BY <3>1 DEF Jobs
      <3>3. Append(queue, [peer |-> c, req |-> conns[c].req]) \in Seq(Jobs)
        BY <3>2, Sent
      <3>4. "writing" \in ConnPCs /\ "waiting" \in ConnPCs /\ "internal" \in Responses
        BY DEF ConnPCs, Responses
      <3>5. conns' \in [Peers -> ConnStates]
        BY <2>4, <3>4, AnswerTyped DEF Send
      <3>6. queue' \in Seq(Jobs)
        BY <2>4, <3>3 DEF Send
      <3> QED BY <2>4, <3>5, <3>6 DEF Send
    <2>5. CASE Dropped(c)
      BY <2>5, ZenonT(40) DEF Dropped, Reply, ConnPCs, Responses
    <2>6. CASE WriteResponse(c)
      BY <2>6 DEF WriteResponse, Close, Away, ConnPCs, Responses
    <2> QED BY <1>2, <2>1, <2>2, <2>3, <2>4, <2>5, <2>6 DEF Task
  <1>3. CASE TakeSlot
    BY <1>3 DEF TakeSlot
  <1>4. CASE Accept
    <2>1. Head(waiting) \in Peers /\ Tail(waiting) \in Seq(Peers)
      BY <1>4, Received DEF Accept
    <2> QED BY <1>4, <2>1 DEF Accept, ConnPCs
  <1>5. CASE AcceptAborted
    <2>1. Head(waiting) \in Peers /\ Tail(waiting) \in Seq(Peers)
      BY <1>5, Received DEF AcceptAborted
    <2> QED BY <1>5, <2>1 DEF AcceptAborted, ConnPCs, Away, Responses
  <1>6. CASE Exit
    BY <1>6 DEF Exit, ConnPCs, Away, Responses
  <1>7. CASE Receive
    <2>1. Head(queue) \in Jobs /\ Tail(queue) \in Seq(Jobs)
      BY <1>7, Received DEF Receive
    <2>2. Head(queue).peer \in Peers /\ Head(queue).req \in Requests
      BY <2>1 DEF Jobs
    <2>3. EarlyAnswer(Head(queue).req) \in Responses
      BY <2>2, WireAnswers DEF Responses
    <2>4. conns' \in [Peers -> ConnStates]
      <3>1. "writing" \in ConnPCs /\ "owner-conflict" \in Responses
        BY DEF ConnPCs, Responses
      <3> QED BY <1>7, <2>2, <2>3, <3>1, AnswerTyped DEF Receive
    <2> QED BY <1>7, <2>1, <2>4 DEF Receive
  <1>8. CASE Finish
    <2>1. PICK reply \in PlaneReplies : Reply(job.peer, "writing", WireError(reply))
      BY <1>8 DEF Finish
    <2>2. WireError(reply) \in Responses
      BY WireAnswers
    <2>3. conns' \in [Peers -> ConnStates]
      BY <2>1, <2>2, ZenonT(40) DEF Reply, ConnPCs
    <2> QED BY <1>8, <2>3 DEF Finish
  <1>9. CASE Panic
    BY <1>9 DEF Panic
  <1> QED BY <1>1, <1>2, <1>3, <1>4, <1>5, <1>6, <1>7, <1>8, <1>9 DEF Next, Serve, Work

\* A task touches its own connection only, one that holds a slot; it leaves the
\* accept loop and the worker alone.
LEMMA TaskMoves ==
    ASSUME Typed, Typed', NEW c \in Peers, Task(c)
    PROVE  /\ \A d \in Peers \ {c} : conns'[d] = conns[d]
           /\ conns[c].pc \notin {"away", "queued"} /\ conns'[c].pc # "queued"
           /\ UNCHANGED <<waiting, acceptor, worker, job, owner>>
  <1> USE DEF Typed, ConnStates, Reply, Close, Away
  <1>1. CASE Authorize(c)
    BY <1>1 DEF Authorize
  <1>2. ASSUME NEW frame \in Frames \cup Requests, ReadFrame(c, frame)
        PROVE  /\ \A d \in Peers \ {c} : conns'[d] = conns[d]
               /\ conns[c].pc \notin {"away", "queued"} /\ conns'[c].pc # "queued"
               /\ UNCHANGED <<waiting, acceptor, worker, job, owner>>
    BY <1>2 DEF ReadFrame
  <1>3. CASE StopReading(c)
    BY <1>3 DEF StopReading
  <1>4. CASE Send(c)
    BY <1>4 DEF Send
  <1>5. CASE Dropped(c)
    BY <1>5 DEF Dropped
  <1>6. CASE WriteResponse(c)
    BY <1>6 DEF WriteResponse
  <1> QED BY <1>1, <1>2, <1>3, <1>4, <1>5, <1>6 DEF Task

\* The worker answers tasks that wait for it, and nobody else.
LEMMA WorkMoves ==
    ASSUME BrokerInv, Typed', Work \/ Panic, NEW d \in Peers
    PROVE  /\ \/ conns'[d] = conns[d]
              \/ conns[d].pc = "waiting" /\ conns'[d].pc = "writing"
           /\ UNCHANGED <<waiting, acceptor>>
  <1> USE DEF Typed, ConnStates, Reply
  <1>0. Typed /\ JobsInv /\ WorkerInv
    BY DEF BrokerInv
  <1>1. CASE Receive
    <2>1. Head(queue) \in Jobs /\ Head(queue) = queue[1] /\ 1 \in DOMAIN queue
      BY <1>0, <1>1, Received DEF Receive
    <2>2. Head(queue).peer \in Peers /\ conns[Head(queue).peer].pc = "waiting"
      BY <1>0, <2>1 DEF Jobs, JobsInv
    <2> QED BY <1>0, <1>1, <2>2 DEF Receive
  <1>2. CASE Finish
    <2>1. job # NoJob
      BY <1>0, <1>2 DEF Finish, WorkerInv
    <2>2. job.peer \in Peers /\ conns[job.peer].pc = "waiting"
      BY <1>0, <2>1 DEF Jobs, JobsInv
    <2> QED BY <1>0, <1>2, <2>2 DEF Finish
  <1>3. CASE Panic
    BY <1>3 DEF Panic
  <1> QED BY <1>1, <1>2, <1>3 DEF Work

\* The accept loop takes the peer that waited longest.
LEMMA FirstWaiting ==
    ASSUME Typed, WaitingInv, waiting # << >>
    PROVE  /\ Head(waiting) \in Peers /\ conns[Head(waiting)].pc = "queued"
           /\ \A i \in DOMAIN Tail(waiting) :
                 /\ Tail(waiting)[i] \in Peers \ {Head(waiting)}
                 /\ conns[Tail(waiting)[i]].pc = "queued"
           /\ \A i, j \in DOMAIN Tail(waiting) : Tail(waiting)[i] = Tail(waiting)[j] => i = j
  <1>1. /\ Head(waiting) = waiting[1] /\ Head(waiting) \in Peers /\ 1 \in DOMAIN waiting
        /\ DOMAIN waiting = 1..Len(waiting) /\ Len(waiting) \in Nat \ {0}
        /\ DOMAIN Tail(waiting) = 1..(Len(waiting) - 1)
        /\ \A i \in DOMAIN Tail(waiting) :
              i + 1 \in DOMAIN waiting /\ Tail(waiting)[i] = waiting[i + 1]
    BY Received DEF Typed
  <1>2. \A i \in DOMAIN Tail(waiting) : waiting[i + 1] \in Peers
    BY <1>1 DEF Typed
  <1> QED BY <1>1, <1>2 DEF WaitingInv

\* A peer waits in the transport at most once (Connect, Accept).
LEMMA WaitingStep == BrokerInv /\ Typed' /\ Next => WaitingInv'
  <1> SUFFICES ASSUME BrokerInv, Typed', Next PROVE WaitingInv'
    OBVIOUS
  <1>0. Typed /\ WaitingInv
    BY DEF BrokerInv
  <1>1. ASSUME NEW c \in Peers, Connect(c) PROVE WaitingInv'
    <2>1. /\ DOMAIN waiting = 1..Len(waiting) /\ Len(waiting) \in Nat
          /\ DOMAIN waiting' = 1..(Len(waiting) + 1)
          /\ \A i \in DOMAIN waiting : waiting'[i] = waiting[i]
          /\ waiting'[Len(waiting) + 1] = c
      BY <1>0, <1>1, Sent DEF Connect, Typed
    <2>2. \A i \in DOMAIN waiting' : i \in DOMAIN waiting \/ i = Len(waiting) + 1
      BY <2>1
    <2>3. \A i \in DOMAIN waiting : waiting[i] \in Peers /\ waiting[i] # c
      BY <1>0, <1>1 DEF WaitingInv, Connect, Typed
    <2>4. conns'[c].pc = "queued" /\ \A d \in Peers \ {c} : conns'[d] = conns[d]
      BY <1>0, <1>1 DEF Connect, Typed, ConnStates
    <2> QED BY <1>0, <2>1, <2>2, <2>3, <2>4 DEF WaitingInv
  <1>2. ASSUME NEW c \in Peers, Task(c) PROVE WaitingInv'
    <2>1. /\ \A d \in Peers \ {c} : conns'[d] = conns[d]
          /\ conns[c].pc # "queued" /\ waiting' = waiting
      BY <1>0, <1>2, TaskMoves
    <2>2. \A i \in DOMAIN waiting : waiting[i] \in Peers
      BY <1>0 DEF Typed
    <2> QED BY <1>0, <2>1, <2>2 DEF WaitingInv
  <1>3. CASE TakeSlot
    BY <1>0, <1>3 DEF TakeSlot, WaitingInv
  <1>4. CASE Accept \/ AcceptAborted
    <2>1. waiting # << >> /\ waiting' = Tail(waiting)
      BY <1>4 DEF Accept, AcceptAborted
    <2>2. \A d \in Peers \ {Head(waiting)} : conns'[d] = conns[d]
      BY <1>0, <1>4 DEF Accept, AcceptAborted, Typed
    <2> QED BY <1>0, <2>1, <2>2, FirstWaiting DEF WaitingInv
  <1>5. CASE Exit
    BY <1>5 DEF Exit, WaitingInv
  <1>6. CASE Work \/ Panic
    <2>1. \A d \in Peers : conns[d].pc = "queued" => conns'[d] = conns[d]
      BY <1>6, WorkMoves
    <2>2. waiting' = waiting
      BY <1>6 DEF Work, Panic, Receive, Finish
    <2>3. \A i \in DOMAIN waiting : waiting[i] \in Peers
      BY <1>0 DEF Typed
    <2> QED BY <1>0, <2>1, <2>2, <2>3 DEF WaitingInv
  <1> QED BY <1>1, <1>2, <1>3, <1>4, <1>5, <1>6 DEF Next, Serve

-----------------------------------------------------------------------------
\* Slots

\* A step that serves nobody new and reserves no slot keeps to the bound.
LEMMA SlotsShrink ==
    ASSUME SlotsInv, Served' \subseteq Served, acceptor' \in {acceptor, "permit", "exited"}
    PROVE  SlotsInv'
  <1>1. /\ IsFiniteSet(Served') /\ Cardinality(Served') <= Cardinality(Served)
        /\ Cardinality(Served) \in Nat /\ Cardinality(Served') \in Nat
    BY FS_Subset, FS_CardinalityType DEF SlotsInv
  <1> QED BY <1>1, BrokerAssumption DEF SlotsInv, SlotsUsed

\* The slots in use never exceed MAX_CONNECTIONS: a slot is reserved before the
\* peer that gets it is accepted (admit).
LEMMA SlotsStep == BrokerInv /\ Typed' /\ Next => SlotsInv'
  <1> SUFFICES ASSUME BrokerInv, Typed', Next PROVE SlotsInv'
    OBVIOUS
  <1>0. Typed /\ WaitingInv /\ SlotsInv
    BY DEF BrokerInv
  <1>1. ASSUME NEW c \in Peers, Connect(c) PROVE SlotsInv'
    <2>1. Served' \subseteq Served /\ acceptor' = acceptor
      BY <1>0, <1>1 DEF Connect, Served, Typed, ConnStates
    <2> QED BY <1>0, <2>1, SlotsShrink
  <1>2. ASSUME NEW c \in Peers, Task(c) PROVE SlotsInv'
    <2>1. Served' \subseteq Served /\ acceptor' = acceptor
      BY <1>0, <1>2, TaskMoves DEF Served
    <2> QED BY <1>0, <2>1, SlotsShrink
  <1>3. CASE TakeSlot
    <2>1. Served' = Served /\ Cardinality(Served) \in Nat
      BY <1>0, <1>3, FS_CardinalityType DEF TakeSlot, Served, SlotsInv
    <2> QED BY <1>0, <1>3, <2>1, BrokerAssumption DEF TakeSlot, SlotsInv, SlotsUsed
  <1>4. CASE Accept
    <2>1. Head(waiting) \in Peers /\ conns[Head(waiting)].pc = "queued"
      BY <1>0, <1>4, FirstWaiting DEF Accept
    <2>2. Served' = Served \cup {Head(waiting)} /\ Head(waiting) \notin Served
      BY <1>0, <1>4, <2>1 DEF Accept, Served, Typed, ConnStates
    <2>3. /\ IsFiniteSet(Served') /\ Cardinality(Served') = Cardinality(Served) + 1
          /\ Cardinality(Served) \in Nat
      BY <1>0, <2>2, FS_AddElement, FS_CardinalityType DEF SlotsInv
    <2> QED BY <1>0, <1>4, <2>3, BrokerAssumption DEF Accept, SlotsInv, SlotsUsed
  <1>5. CASE AcceptAborted
    <2>1. Head(waiting) \in Peers /\ conns[Head(waiting)].pc = "queued"
      BY <1>0, <1>5, FirstWaiting DEF AcceptAborted
    <2>2. Served' \subseteq Served /\ acceptor' = "permit"
      BY <1>0, <1>5, <2>1 DEF AcceptAborted, Served, Typed, Away
    <2> QED BY <1>0, <2>2, SlotsShrink
  <1>6. CASE Exit
    <2>1. Served' \subseteq Served /\ acceptor' = "exited"
      BY <1>6 DEF Exit, Served, Away
    <2> QED BY <1>0, <2>1, SlotsShrink
  <1>7. CASE Work \/ Panic
    <2>1. Served' \subseteq Served
      BY <1>7, WorkMoves DEF Served
    <2>2. acceptor' = acceptor
      BY <1>7 DEF Work, Panic, Receive, Finish
    <2> QED BY <1>0, <2>1, <2>2, SlotsShrink
  <1> QED BY <1>1, <1>2, <1>3, <1>4, <1>5, <1>6, <1>7 DEF Next, Serve

-----------------------------------------------------------------------------
\* Jobs and answers

\* The jobs stay where they are when no task starts or stops waiting for one.
LEMMA JobsKept ==
    ASSUME Typed, Typed', JobsInv, UNCHANGED <<queue, job, worker>>,
           \A d \in Peers :
              \/ conns'[d] = conns[d]
              \/ conns[d].pc # "waiting" /\ conns'[d].pc # "waiting"
    PROVE  JobsInv'
  <1>1. \A i \in DOMAIN queue : queue[i] \in Jobs
    BY DEF Typed
  <1>2. \A i \in DOMAIN queue : queue[i].peer \in Peers
    BY <1>1 DEF Jobs
  <1>3. job # NoJob => job.peer \in Peers
    BY DEF Typed, Jobs
  <1> QED BY <1>2, <1>3 DEF JobsInv

\* Without a worker there is no job that could be lost.
LEMMA JobsGone ==
    ASSUME queue' = << >>, job' = NoJob, worker' = "stopped"
    PROVE  JobsInv'
  BY DEF JobsInv

\* A request is in one place from when it is sent until it is answered or its
\* worker is gone (dispatch, the worker's loop).
LEMMA JobsStep == BrokerInv /\ Typed' /\ Next => JobsInv'
  <1> SUFFICES ASSUME BrokerInv, Typed', Next PROVE JobsInv'
    OBVIOUS
  <1>0. Typed /\ WaitingInv /\ JobsInv /\ WorkerInv
    BY DEF BrokerInv
  <1>a. \A i \in DOMAIN queue : queue[i] \in Jobs
    BY <1>0 DEF Typed
  <1>b. \A i \in DOMAIN queue : queue[i].peer \in Peers /\ queue[i].req \in Requests
    BY <1>a DEF Jobs
  <1>1. ASSUME NEW c \in Peers, Connect(c) PROVE JobsInv'
    <2>1. /\ \A d \in Peers \ {c} : conns'[d] = conns[d]
          /\ conns[c].pc # "waiting" /\ conns'[c].pc # "waiting"
          /\ UNCHANGED <<queue, job, worker>>
      BY <1>0, <1>1 DEF Connect, Typed, ConnStates
    <2> QED BY <1>0, <2>1, JobsKept
  <1>2. ASSUME NEW c \in Peers, Task(c) PROVE JobsInv'
    <2>0. \A d \in Peers \ {c} : conns'[d] = conns[d]
      BY <1>0, <1>2, TaskMoves
    <2>1. CASE conns[c].pc \notin {"sending", "waiting"}
      <3>1. conns'[c].pc # "waiting" /\ UNCHANGED <<queue, job, worker>>
        BY <1>0, <1>2, <2>1 DEF Task, Authorize, ReadFrame, StopReading, Send, Dropped,
           WriteResponse, Reply, Close, Away, Typed, ConnStates
      <3> QED BY <1>0, <2>0, <2>1, <3>1, JobsKept
    <2>2. CASE conns[c].pc = "sending"
      <3>0. Send(c)
        BY <1>2, <2>2 DEF Task, Authorize, ReadFrame, StopReading, Dropped, WriteResponse
      <3>1. CASE worker = "stopped"
        <4>1. conns'[c].pc = "writing" /\ UNCHANGED <<queue, job, worker>>
          BY <1>0, <3>0, <3>1 DEF Send, Reply, Typed, ConnStates
        <4> QED BY <1>0, <2>0, <2>2, <4>1, JobsKept
      <3>2. CASE worker # "stopped"
        <4> DEFINE new == [peer |-> c, req |-> conns[c].req]
        <4>1. /\ queue' = Append(queue, new) /\ UNCHANGED <<job, worker>>
              /\ conns'[c].pc = "waiting" /\ conns'[c].req = conns[c].req
          BY <1>0, <3>0, <3>2 DEF Send, Typed, ConnStates
        <4>2. new \in Jobs /\ new.peer = c /\ new.req = conns[c].req
          BY <2>2 DEF BrokerInv, AskedInv, Jobs
        <4> HIDE DEF new
        <4>3. /\ DOMAIN queue = 1..Len(queue) /\ Len(queue) \in Nat
              /\ DOMAIN queue' = 1..(Len(queue) + 1)
              /\ \A i \in DOMAIN queue : queue'[i] = queue[i]
              /\ queue'[Len(queue) + 1] = new
          BY <1>0, <4>1, <4>2, Sent DEF Typed
        <4>4. \A i \in DOMAIN queue' : i \in DOMAIN queue \/ i = Len(queue) + 1
          BY <4>3
        <4>5. job.peer # c /\ \A i \in DOMAIN queue : queue[i].peer # c
          BY <1>0, <2>2, BrokerAssumption DEF JobsInv, NoJob
        <4>6. job # NoJob => job.peer \in Peers
          BY <1>0 DEF Typed, Jobs
        <4>7. \A i \in DOMAIN queue' :
                 /\ conns'[queue'[i].peer].pc = "waiting"
                 /\ conns'[queue'[i].peer].req = queue'[i].req
                 /\ queue'[i].peer # job'.peer
          BY <1>0, <1>b, <2>0, <4>1, <4>2, <4>3, <4>4, <4>5 DEF JobsInv
        <4>8. \A i, j \in DOMAIN queue' : queue'[i].peer = queue'[j].peer => i = j
          BY <1>0, <4>2, <4>3, <4>4, <4>5 DEF JobsInv
        <4>9. job' # NoJob => /\ conns'[job'.peer].pc = "waiting"
                              /\ conns'[job'.peer].req = job'.req
                              /\ job'.req = "change"
          BY <1>0, <2>0, <4>1, <4>5, <4>6 DEF JobsInv
        <4>10. \A d \in Peers : conns'[d].pc = "waiting" /\ worker' # "stopped" =>
                  job'.peer = d \/ \E i \in DOMAIN queue' : queue'[i].peer = d
          <5>1. Len(queue) + 1 \in DOMAIN queue' /\ queue'[Len(queue) + 1].peer = c
            BY <4>2, <4>3
          <5>2. DOMAIN queue \subseteq DOMAIN queue'
            BY <4>3
          <5> QED BY <1>0, <2>0, <4>1, <4>3, <5>1, <5>2 DEF JobsInv
        <4> QED BY <4>7, <4>8, <4>9, <4>10 DEF JobsInv
      <3> QED BY <3>1, <3>2
    <2>3. CASE conns[c].pc = "waiting"
      <3>1. worker = "stopped" /\ UNCHANGED <<queue, job, worker>>
        BY <1>2, <2>3 DEF Task, Authorize, ReadFrame, StopReading, Send, Dropped, WriteResponse
      <3>2. queue = << >> /\ job = NoJob
        BY <1>0, <3>1 DEF WorkerInv
      <3> QED BY <3>1, <3>2, JobsGone
    <2> QED BY <2>1, <2>2, <2>3
  <1>3. CASE TakeSlot
    BY <1>0, <1>3, JobsKept DEF TakeSlot
  <1>4. CASE Accept \/ AcceptAborted
    <2>1. Head(waiting) \in Peers /\ conns[Head(waiting)].pc = "queued"
      BY <1>0, <1>4, FirstWaiting DEF Accept, AcceptAborted
    <2>2. /\ \A d \in Peers \ {Head(waiting)} : conns'[d] = conns[d]
          /\ conns'[Head(waiting)].pc # "waiting"
      BY <1>0, <1>4, <2>1 DEF Accept, AcceptAborted, Away, Typed, ConnStates
    <2>3. UNCHANGED <<queue, job, worker>>
      BY <1>4 DEF Accept, AcceptAborted
    <2> QED BY <1>0, <2>1, <2>2, <2>3, JobsKept
  <1>5. CASE Exit
    BY <1>5, JobsGone DEF Exit
  <1>6. CASE Receive
    <2> DEFINE head == Head(queue)
    <2>1. /\ head = queue[1] /\ 1 \in DOMAIN queue /\ head \in Jobs
          /\ head.peer \in Peers /\ head.req \in Requests
          /\ conns[head.peer].pc = "waiting" /\ conns[head.peer].req = head.req
      <3>1. head = queue[1] /\ 1 \in DOMAIN queue
        BY <1>0, <1>6, Received DEF Receive, Typed
      <3> QED BY <1>0, <1>b, <1>a, <3>1 DEF JobsInv
    <2>2. /\ DOMAIN queue = 1..Len(queue) /\ Len(queue) \in Nat \ {0}
          /\ DOMAIN queue' = 1..(Len(queue) - 1)
          /\ \A i \in DOMAIN queue' : i + 1 \in DOMAIN queue /\ queue'[i] = queue[i + 1]
      BY <1>0, <1>6, Received DEF Receive, Typed
    <2>3. /\ \A i \in DOMAIN queue' : \E j \in DOMAIN queue : j # 1 /\ queue'[i] = queue[j]
          /\ \A j \in DOMAIN queue : j # 1 => \E i \in DOMAIN queue' : queue'[i] = queue[j]
      BY <1>0, <1>6, ReceivedOnce DEF Receive, Typed
    <2>4. \A i \in DOMAIN queue' :
             /\ queue'[i].peer \in Peers /\ queue'[i].peer # head.peer
             /\ conns[queue'[i].peer].pc = "waiting"
             /\ conns[queue'[i].peer].req = queue'[i].req
             /\ queue'[i].peer # job.peer
      BY <1>0, <1>b, <2>1, <2>3 DEF JobsInv
    <2>5. \A i, j \in DOMAIN queue' : queue'[i].peer = queue'[j].peer => i = j
      BY <1>0, <2>2 DEF JobsInv
    <2>6. job = NoJob /\ job.peer = "none"
      BY <1>0, <1>6 DEF Receive, WorkerInv, NoJob
    <2>7. \A d \in Peers \ {head.peer} : conns[d].pc = "waiting" =>
             \E i \in DOMAIN queue' : queue'[i].peer = d
      <3> SUFFICES ASSUME NEW d \in Peers \ {head.peer}, conns[d].pc = "waiting"
                   PROVE  \E i \in DOMAIN queue' : queue'[i].peer = d
        OBVIOUS
      <3>1. job.peer # d /\ worker # "stopped"
        BY <1>6, <2>6, BrokerAssumption DEF Receive
      <3>2. PICK j \in DOMAIN queue : queue[j].peer = d
        BY <1>0, <3>1 DEF JobsInv
      <3>3. j # 1
        BY <2>1, <3>2
      <3> QED BY <2>3, <3>2, <3>3
    <2>8. /\ \A d \in Peers \ {head.peer} : conns'[d] = conns[d]
          /\ \/ job' = NoJob /\ conns'[head.peer].pc = "writing"
             \/ job' = head /\ conns' = conns /\ EarlyAnswer(head.req) = "none"
      BY <1>0, <1>6, <2>1, <2>6 DEF Receive, Reply, Typed, ConnStates
    <2>9. EarlyAnswer(head.req) = "none" => head.req = "change"
      BY <2>1, WireAnswers
    <2> HIDE DEF head
    <2>10. CASE job' = NoJob /\ conns'[head.peer].pc = "writing"
      <3>1. job'.peer = "none"
        BY <2>10 DEF NoJob
      <3> QED BY <2>1, <2>4, <2>5, <2>7, <2>8, <2>10, <3>1, BrokerAssumption DEF JobsInv
    <2>11. CASE job' = head /\ conns' = conns /\ EarlyAnswer(head.req) = "none"
      BY <2>1, <2>4, <2>5, <2>7, <2>9, <2>11 DEF JobsInv
    <2> QED BY <2>8, <2>10, <2>11
  <1>7. CASE Finish
    <2>1. job # NoJob /\ job' = NoJob /\ job'.peer = "none" /\ queue' = queue
      BY <1>0, <1>7 DEF Finish, WorkerInv, NoJob
    <2>2. job.peer \in Peers
      BY <1>0, <2>1 DEF Typed, Jobs
    <2>3. /\ conns'[job.peer].pc = "writing"
          /\ \A d \in Peers \ {job.peer} : conns'[d] = conns[d]
      BY <1>0, <1>7, <2>2 DEF Finish, Reply, Typed, ConnStates
    <2>4. worker # "stopped"
      BY <1>7 DEF Finish
    <2> QED BY <1>0, <1>b, <2>1, <2>2, <2>3, <2>4, BrokerAssumption DEF JobsInv
  <1>8. CASE Panic
    BY <1>8, JobsGone DEF Panic
  <1> QED BY <1>1, <1>2, <1>3, <1>4, <1>5, <1>6, <1>7, <1>8 DEF Next, Serve, Work

\* The knob is held exactly while the worker has a job (OwnershipGuard).
LEMMA WorkerStep == BrokerInv /\ Next => WorkerInv'
  <1> SUFFICES ASSUME BrokerInv, Next PROVE WorkerInv'
    OBVIOUS
  <1>0. Typed /\ JobsInv /\ WorkerInv
    BY DEF BrokerInv
  <1>1. ASSUME NEW c \in Peers, Connect(c) \/ Task(c) PROVE WorkerInv'
    <2>1. UNCHANGED <<worker, job, owner>> /\ (worker = "stopped" => UNCHANGED queue)
      BY <1>1 DEF Connect, Task, Authorize, ReadFrame, StopReading, Send, Dropped, WriteResponse
    <2> QED BY <1>0, <2>1 DEF WorkerInv
  <1>2. CASE TakeSlot \/ Accept \/ AcceptAborted
    BY <1>0, <1>2 DEF TakeSlot, Accept, AcceptAborted, WorkerInv
  <1>3. CASE Exit
    BY <1>3 DEF Exit, WorkerInv
  <1>4. CASE Receive
    <2>1. Head(queue) \in Jobs
      BY <1>0, <1>4, Received DEF Receive, Typed
    <2>2. Head(queue) # NoJob
      BY <2>1, BrokerAssumption DEF Jobs, NoJob
    <2> QED BY <1>0, <1>4, <2>2 DEF Receive, WorkerInv, Typed
  <1>5. CASE Finish \/ Panic
    BY <1>5 DEF Finish, Panic, WorkerInv
  <1> QED BY <1>1, <1>2, <1>3, <1>4, <1>5 DEF Next, Serve, Work

\* What AskedInv and AnswersItsRequest say of one connection.
AskedOf(c, conn) ==
    /\ conn.pc \notin {"writing", "closing"} => conn.resp = "none"
    /\ conn.pc \notin {"sending", "waiting", "writing"} => conn.req = "none"
    /\ conn.pc \in {"sending", "waiting"} => conn.req \in Requests
    /\ c \notin Trusted => conn.pc \in {"away", "queued", "accepted", "closing"}

AnsweredFor(c, conn, state) ==
    conn.resp # "none" =>
        conn.resp \in
            IF c \notin Trusted THEN {"unauthenticated"}
            ELSE AnswersTo(conn.req) \cup (IF state = "stopped" THEN {"internal"} ELSE {})

\* A worker that is gone stays gone.
LEMMA StoppedStays == Next => (worker = "stopped" => worker' = "stopped")
  BY DEF Next, Connect, Task, Authorize, ReadFrame, StopReading, Send, Dropped, WriteResponse,
     Serve, TakeSlot, Accept, AcceptAborted, Exit, Work, Receive, Finish, Panic

\* Both hold after a step when they hold of each connection it changed.
LEMMA AnswersKept ==
    ASSUME BrokerInv, worker = "stopped" => worker' = "stopped",
           \A d \in Peers :
              \/ conns'[d] = conns[d]
              \/ AskedOf(d, conns'[d]) /\ AnsweredFor(d, conns'[d], worker')
    PROVE  AskedInv' /\ AnswersItsRequest'
  <1>1. \A d \in Peers : AskedOf(d, conns[d]) /\ AnsweredFor(d, conns[d], worker)
    BY DEF BrokerInv, AskedInv, AnswersItsRequest, AskedOf, AnsweredFor
  <1>2. \A d \in Peers : AskedOf(d, conns'[d])
    BY <1>1
  <1>3. \A d \in Peers : AnsweredFor(d, conns'[d], worker')
    <2> SUFFICES ASSUME NEW d \in Peers, conns'[d] = conns[d]
                 PROVE  AnsweredFor(d, conns'[d], worker')
      OBVIOUS
    <2> QED BY <1>1 DEF AnsweredFor
  <1>4. AskedInv'
    BY <1>2 DEF AskedInv, AskedOf
  <1>5. AnswersItsRequest'
    BY <1>3 DEF AnswersItsRequest, AnsweredFor
  <1> QED BY <1>4, <1>5

\* The response on a connection answers its last request (handle_connection, the
\* worker's loop).
LEMMA AnswersStep == BrokerInv /\ Typed' /\ Next => AskedInv' /\ AnswersItsRequest'
  <1> SUFFICES ASSUME BrokerInv, Typed', Next PROVE AskedInv' /\ AnswersItsRequest'
    OBVIOUS
  <1> DEFINE Fine(d) == AskedOf(d, conns'[d]) /\ AnsweredFor(d, conns'[d], worker')
  <1>0. Typed /\ WaitingInv /\ JobsInv /\ WorkerInv /\ AskedInv
    BY DEF BrokerInv
  <1>a. \A d \in Peers : AskedOf(d, conns[d])
    BY <1>0 DEF AskedInv, AskedOf
  <1>b. SUFFICES \A d \in Peers : conns'[d] = conns[d] \/ Fine(d)
    BY StoppedStays, AnswersKept
  <1>1. ASSUME NEW c \in Peers, Connect(c) PROVE \A d \in Peers : conns'[d] = conns[d] \/ Fine(d)
    <2>1. /\ \A d \in Peers \ {c} : conns'[d] = conns[d]
          /\ conns'[c].pc = "queued"
          /\ conns'[c].req = conns[c].req /\ conns'[c].resp = conns[c].resp
          /\ conns[c].pc = "away"
      BY <1>0, <1>1 DEF Connect, Typed, ConnStates
    <2> QED BY <1>a, <2>1 DEF AskedOf, AnsweredFor
  <1>2. ASSUME NEW c \in Peers, Task(c) PROVE \A d \in Peers : conns'[d] = conns[d] \/ Fine(d)
    <2>0. \A d \in Peers \ {c} : conns'[d] = conns[d]
      BY <1>0, <1>2, TaskMoves
    <2> SUFFICES Fine(c)
      BY <2>0
    <2>a. AskedOf(c, conns[c])
      BY <1>a
    <2> USE DEF Typed, ConnStates, AskedOf, AnsweredFor
    <2>b. Close(c) => Fine(c)
      BY <1>0 DEF Close, Away
    <2>1. CASE Authorize(c)
      <3>1. \/ conns'[c].pc = "reading" /\ conns'[c].req = conns[c].req
               /\ conns'[c].resp = conns[c].resp /\ c \in Trusted
            \/ conns'[c].pc = "closing" /\ conns'[c].req = conns[c].req
               /\ conns'[c].resp = "unauthenticated" /\ c \notin Trusted
        BY <1>0, <2>1 DEF Authorize, Reply
      <3>2. conns[c].pc = "accepted"
        BY <2>1 DEF Authorize
      <3> QED BY <2>a, <3>1, <3>2
    <2>2. ASSUME NEW frame \in Frames \cup Requests, ReadFrame(c, frame) PROVE Fine(c)
      <3>1. conns[c].pc = "reading" /\ conns[c].req = "none" /\ c \in Trusted
        BY <2>2, <2>a DEF ReadFrame
      <3>2. \/ Close(c)
            \/ conns'[c].pc = "sending" /\ conns'[c].req = frame /\ conns'[c].resp = "none"
               /\ frame \in Requests
            \/ conns'[c].pc \in {"writing", "closing"} /\ conns'[c].req = conns[c].req
               /\ conns'[c].resp = "malformed"
        BY <1>0, <2>2 DEF ReadFrame, Reply
      <3> QED BY <2>b, <3>1, <3>2, WireAnswers
    <2>3. CASE StopReading(c)
      BY <2>3, <2>b DEF StopReading
    <2>4. CASE Send(c)
      <3>1. conns[c].pc = "sending" /\ conns[c].resp = "none" /\ c \in Trusted
        BY <2>4, <2>a DEF Send
      <3>2. /\ conns'[c].req = conns[c].req
            /\ \/ conns'[c].pc = "waiting" /\ conns'[c].resp = conns[c].resp
               \/ conns'[c].pc = "writing" /\ conns'[c].resp = "internal" /\ worker' = "stopped"
        BY <1>0, <2>4 DEF Send, Reply
      <3> QED BY <2>a, <3>1, <3>2
    <2>5. CASE Dropped(c)
      <3>1. conns[c].pc = "waiting" /\ c \in Trusted
        BY <2>5, <2>a DEF Dropped
      <3>2. /\ conns'[c].req = conns[c].req
            /\ conns'[c].pc = "writing" /\ conns'[c].resp = "internal" /\ worker' = "stopped"
        BY <1>0, <2>5 DEF Dropped, Reply
      <3> QED BY <2>a, <3>1, <3>2
    <2>6. CASE WriteResponse(c)
      <3>1. \/ Close(c)
            \/ conns[c].pc = "writing" /\ conns'[c].pc = "reading"
               /\ conns'[c].req = "none" /\ conns'[c].resp = "none"
        BY <1>0, <2>6 DEF WriteResponse
      <3>2. conns[c].pc = "writing" => c \in Trusted
        BY <2>a
      <3> QED BY <2>b, <3>1, <3>2
    <2> QED BY <1>2, <2>1, <2>2, <2>3, <2>4, <2>5, <2>6 DEF Task
  <1>3. CASE TakeSlot
    BY <1>3 DEF TakeSlot
  <1>4. CASE Accept \/ AcceptAborted
    <2>1. Head(waiting) \in Peers /\ conns[Head(waiting)].pc = "queued"
      BY <1>0, <1>4, FirstWaiting DEF Accept, AcceptAborted
    <2>2. AskedOf(Head(waiting), conns[Head(waiting)])
      BY <1>a, <2>1
    <2>3. /\ \A d \in Peers \ {Head(waiting)} : conns'[d] = conns[d]
          /\ conns'[Head(waiting)].pc \in {"accepted", "away"}
          /\ conns'[Head(waiting)].req \in {"none", conns[Head(waiting)].req}
          /\ conns'[Head(waiting)].resp \in {"none", conns[Head(waiting)].resp}
      BY <1>0, <1>4, <2>1 DEF Accept, AcceptAborted, Away, Typed, ConnStates
    <2>4. Fine(Head(waiting))
      BY <2>1, <2>2, <2>3 DEF AskedOf, AnsweredFor
    <2> QED BY <2>3, <2>4
  <1>5. CASE Exit
    <2>1. \A d \in Peers : conns'[d].pc = "away" /\ conns'[d].req = "none" /\ conns'[d].resp = "none"
      BY <1>5 DEF Exit, Away
    <2> QED BY <2>1 DEF AskedOf, AnsweredFor
  <1>6. ASSUME NEW c \in Peers, NEW answer \in AnswersTo(conns[c].req) \cap Responses,
               conns[c].pc = "waiting", Reply(c, "writing", answer)
        PROVE  \A d \in Peers : conns'[d] = conns[d] \/ Fine(d)
    <2>1. /\ \A d \in Peers \ {c} : conns'[d] = conns[d]
          /\ conns'[c].pc = "writing" /\ conns'[c].req = conns[c].req /\ conns'[c].resp = answer
      BY <1>0, <1>6 DEF Reply, Typed, ConnStates
    <2>2. c \in Trusted
      BY <1>a, <1>6 DEF AskedOf
    <2>3. Fine(c)
      BY <1>6, <2>1, <2>2 DEF AskedOf, AnsweredFor
    <2> QED BY <2>1, <2>3
  <1>7. CASE Receive
    <2>1. Head(queue) = queue[1] /\ 1 \in DOMAIN queue /\ queue[1] \in Jobs
      BY <1>0, <1>7, Received DEF Receive, Typed
    <2>2. /\ Head(queue).peer \in Peers /\ Head(queue).req \in Requests
          /\ conns[Head(queue).peer].pc = "waiting"
          /\ conns[Head(queue).peer].req = Head(queue).req
      BY <1>0, <2>1 DEF Jobs, JobsInv
    <2>3. owner = "none"
      BY <1>0, <1>7 DEF Receive, WorkerInv, Typed
    <2>4. CASE EarlyAnswer(Head(queue).req) = "none"
      BY <1>7, <2>3, <2>4 DEF Receive
    <2>5. CASE EarlyAnswer(Head(queue).req) # "none"
      <3>1. Reply(Head(queue).peer, "writing", EarlyAnswer(Head(queue).req))
        BY <1>7, <2>5 DEF Receive
      <3>2. EarlyAnswer(Head(queue).req) \in AnswersTo(conns[Head(queue).peer].req) \cap Responses
        BY <2>2, <2>5, WireAnswers
      <3> QED BY <1>6, <2>2, <3>1, <3>2
    <2> QED BY <2>4, <2>5
  <1>8. CASE Finish
    <2>1. job # NoJob
      BY <1>0, <1>8 DEF Finish, WorkerInv
    <2>2. job.peer \in Peers /\ conns[job.peer].pc = "waiting" /\ conns[job.peer].req = "change"
      BY <1>0, <2>1 DEF Typed, Jobs, JobsInv
    <2>3. PICK reply \in PlaneReplies : Reply(job.peer, "writing", WireError(reply))
      BY <1>8 DEF Finish
    <2>4. WireError(reply) \in AnswersTo(conns[job.peer].req) \cap Responses
      BY <2>2, WireAnswers
    <2> QED BY <1>6, <2>2, <2>3, <2>4
  <1>9. CASE Panic
    BY <1>9 DEF Panic
  <1> QED BY <1>1, <1>2, <1>3, <1>4, <1>5, <1>7, <1>8, <1>9 DEF Next, Serve, Work

\* Every step of the broker preserves the invariant.
LEMMA BrokerStep == BrokerInv /\ [Next]_vars => BrokerInv'
  <1> SUFFICES ASSUME BrokerInv, [Next]_vars PROVE BrokerInv'
    OBVIOUS
  <1>1. CASE Next
    <2>1. Typed'
      BY <1>1, TypedStep
    <2>2. WaitingInv' /\ SlotsInv' /\ JobsInv'
      BY <1>1, <2>1, WaitingStep, SlotsStep, JobsStep
    <2>3. WorkerInv' /\ AskedInv' /\ AnswersItsRequest'
      BY <1>1, <2>1, WorkerStep, AnswersStep
    <2> QED BY <2>1, <2>2, <2>3 DEF BrokerInv
  <1>2. CASE UNCHANGED vars
    <2>1. Served' = Served
      BY <1>2 DEF vars, Served
    <2>2. SlotsInv'
      BY <1>2, <2>1 DEF BrokerInv, SlotsInv, SlotsUsed, vars
    <2>3. Typed' /\ WaitingInv' /\ JobsInv' /\ WorkerInv' /\ AskedInv' /\ AnswersItsRequest'
      BY <1>2 DEF BrokerInv, Typed, WaitingInv, JobsInv, WorkerInv, AskedInv,
         AnswersItsRequest, vars
    <2> QED BY <2>2, <2>3 DEF BrokerInv
  <1> QED BY <1>1, <1>2

-----------------------------------------------------------------------------
\* What follows

\* How many numbers there are up to n.
LEMMA CountTo ==
    ASSUME NEW n \in Nat
    PROVE  IsFiniteSet(1..n) /\ Cardinality(1..n) = n
  <1>1. /\ IsFiniteSet(1..n)
        /\ Cardinality(1..n) = IF 1 > n THEN 0 ELSE n - 1 + 1
    BY FS_Interval
  <1> QED BY <1>1

\* The queue and the tasks about to send share out the slots, one each.
LEMMA RoomFromInv == BrokerInv => RoomForEverySender
  <1> SUFFICES ASSUME BrokerInv PROVE RoomForEverySender
    OBVIOUS
  <1> DEFINE sending == {c \in Peers : conns[c].pc = "sending"}
             sent == {c \in Peers : \E i \in DOMAIN queue : queue[i].peer = c}
             sender == [i \in 1..Len(queue) |-> queue[i].peer]
  <1>0. Typed /\ SlotsInv /\ JobsInv
    BY DEF BrokerInv
  <1>1. DOMAIN queue = 1..Len(queue) /\ Len(queue) \in Nat
    BY <1>0 DEF Typed
  <1>2. \A i \in DOMAIN queue : queue[i] \in Jobs
    BY <1>0 DEF Typed
  <1>3. \A i \in DOMAIN queue : queue[i].peer \in Peers
    BY <1>2 DEF Jobs
  <1>4. sending \subseteq Served /\ sent \subseteq Served /\ sending \cap sent = {}
    BY <1>0 DEF JobsInv, Served
  <1>5. sender \in Bijection(1..Len(queue), sent)
    BY <1>0, <1>1, <1>3 DEF JobsInv, Bijection, Injection, Surjection, IsInjective
  <1> HIDE DEF sender, sending, sent
  <1>6. IsFiniteSet(1..Len(queue)) /\ Cardinality(1..Len(queue)) = Len(queue)
    BY <1>1, CountTo
  <1>7. ExistsBijection(1..Len(queue), sent)
    BY <1>5 DEF ExistsBijection
  <1>8. IsFiniteSet(sent) /\ Cardinality(sent) = Len(queue)
    BY <1>6, <1>7, FS_Bijection
  <1>9. IsFiniteSet(sending)
    BY <1>0, <1>4, FS_Subset DEF SlotsInv
  <1>10. Cardinality(sending \cup sent) = Cardinality(sending) + Len(queue)
    <2>1. Cardinality(sending \cup sent) =
             Cardinality(sending) + Cardinality(sent) - Cardinality(sending \cap sent)
      BY <1>8, <1>9, FS_Union
    <2>2. Cardinality(sending \cap sent) = 0 /\ Cardinality(sending) \in Nat
      BY <1>4, <1>9, FS_EmptySet, FS_CardinalityType
    <2> QED BY <1>1, <1>8, <2>1, <2>2
  <1>11. Cardinality(sending \cup sent) <= Cardinality(Served)
    BY <1>0, <1>4, FS_Subset DEF SlotsInv
  <1>12. Cardinality(Served) <= MaxConnections /\ Cardinality(Served) \in Nat
    BY <1>0, FS_CardinalityType, BrokerAssumption DEF SlotsInv, SlotsUsed
  <1>13. Cardinality(sending) \in Nat
    BY <1>9, FS_CardinalityType
  <1>14. Len(queue) + Cardinality(sending) <= Backlog
    BY <1>1, <1>10, <1>11, <1>12, <1>13, BrokerAssumption
  <1> QED BY <1>14 DEF RoomForEverySender, sending

\* Counting the places of a request.
LEMMA SomewhereFromInv == BrokerInv => RequestIsSomewhere
  <1> SUFFICES ASSUME BrokerInv, NEW c \in Peers
               PROVE  Cardinality({i \in DOMAIN queue : queue[i].peer = c})
                        + (IF job.peer = c THEN 1 ELSE 0)
                      = IF conns[c].pc = "waiting" /\ worker # "stopped" THEN 1 ELSE 0
    BY DEF RequestIsSomewhere
  <1> DEFINE places == {i \in DOMAIN queue : queue[i].peer = c}
  <1>0. Typed /\ JobsInv /\ WorkerInv
    BY DEF BrokerInv
  <1>1. CASE \E i \in DOMAIN queue : queue[i].peer = c
    <2>1. PICK i \in DOMAIN queue : queue[i].peer = c
      BY <1>1
    <2>2. places = {i} /\ job.peer # c /\ conns[c].pc = "waiting"
      BY <1>0, <2>1 DEF JobsInv
    <2>3. worker # "stopped"
      BY <1>0, <2>1 DEF WorkerInv
    <2>4. Cardinality(places) = 1
      BY <2>2, FS_Singleton
    <2> QED BY <2>2, <2>3, <2>4
  <1>2. CASE ~\E i \in DOMAIN queue : queue[i].peer = c
    <2>1. Cardinality(places) = 0
      BY <1>2, FS_EmptySet
    <2>2. job.peer = c => conns[c].pc = "waiting" /\ worker # "stopped"
      BY <1>0, BrokerAssumption DEF JobsInv, WorkerInv, NoJob
    <2>3. conns[c].pc = "waiting" /\ worker # "stopped" => job.peer = c
      BY <1>0, <1>2 DEF JobsInv
    <2> QED BY <2>1, <2>2, <2>3
  <1> QED BY <1>1, <1>2

\* The invariant, for every behaviour of the broker.
LEMMA BrokerInvariance == Spec => []BrokerInv
  <1>1. Spec => Init /\ [][Next]_vars
    BY PTL DEF Spec
  <1> QED BY <1>1, BrokerInit, BrokerStep, PTL

\* For any peers, any ACL and any MAX_CONNECTIONS, the variables keep to their
\* types and the slots in use to their bound: a slot is taken before the peer it
\* is for is accepted, and is given back on every way out of a connection (admit,
\* handle_connection).
THEOREM BrokerTyped == Spec => []BrokerTypeOK
  <1>1. BrokerInv => BrokerTypeOK
    BY DEF BrokerInv, Typed, SlotsInv, BrokerTypeOK, Jobs, ConnStates
  <1> QED BY <1>1, BrokerInvariance, PTL

\* As long as REQUEST_BACKLOG is at least MAX_CONNECTIONS, no task ever finds the
\* job channel full, however many peers connect (dispatch).
THEOREM QueueHasRoom == Spec => []RoomForEverySender
  BY BrokerInvariance, RoomFromInv, PTL

\* No request is lost, duplicated, or handled for a peer that has left: each one
\* a task waits for is in the queue or with the worker, once (dispatch).
THEOREM RequestNeverLost == Spec => []RequestIsSomewhere
  BY BrokerInvariance, SomewhereFromInv, PTL

\* The next response on a connection answers its last request, a refused peer
\* hears nothing but the refusal, and no caller is refused the knob because an
\* earlier lifecycle left it held (handle_connection, OwnershipGuard::drop).
THEOREM ResponsesMatch == Spec => []AnswersItsRequest
  <1>1. BrokerInv => AnswersItsRequest
    BY DEF BrokerInv
  <1> QED BY <1>1, BrokerInvariance, PTL

=============================================================================
