SPECIFICATION LiveSpec
CONSTANTS
    x1 = x1
    x2 = x2
    r1 = r1
    r2 = r2
    r3 = r3
    a1 = a1
    a2 = a2
    b1 = b1
    b2 = b2
    None = None
    Party = {a1, b1, b2}
    Sending <- OneSender
    Receiving <- ThreeRequests
    Local <- ThreeRequestsLocal
    Remote <- OneSenderRemote
    ForeignBuilt = {}
    SignOptional = {r2}
    Durable = {}
    Requirable <- BodyOnly
    MaxBuilds = 2
PROPERTIES
    ProcessedIsSettled
CHECK_DEADLOCK FALSE
