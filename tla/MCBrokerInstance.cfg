SPECIFICATION Spec
CONSTANTS
    b1 = b1
    b2 = b2
    Brokers = {b1, b2}
    Uids = {"root", "broker"}
    Layouts <- Trees
    Foreign <- Intruders
    MaxTampers = 1
    Inodes = {1, 2, 3}
    ListenerFails = FALSE
SYMMETRY BrokerSymmetry
INVARIANTS
    VettedStaysSealed
    ServingIsReachable
    OneDriver
PROPERTIES
    SuccessorKept
