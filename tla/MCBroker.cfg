\* Four peers, three of them trusted, for two slots and a backlog of two, so that
\* some always wait for the others; the worker may panic.
SPECIFICATION PatientSpec
CONSTANTS
    p1 = p1
    p2 = p2
    p3 = p3
    p4 = p4
    Peers = {p1, p2, p3, p4}
    Trusted = {p1, p2, p3}
    MaxConnections = 2
    Backlog = 2
    Faulty = TRUE
CHECK_DEADLOCK FALSE
INVARIANTS
    BrokerTypeOK
    RoomForEverySender
    RequestIsSomewhere
    AnswersItsRequest
PROPERTIES
    DispatchEnds
    WorkerLossExits
    WaiterIsServed
