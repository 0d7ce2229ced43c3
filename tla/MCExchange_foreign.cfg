SPECIFICATION Spec
CONSTANTS
    x1 = x1
    x2 = x2
    r1 = r1
    a1 = a1
    a2 = a2
    b1 = b1
    b2 = b2
    None = None
    Party = {a1, b1}
    Sending <- OneSender
    Receiving <- OneReceiver
    Local <- OneSenderLocal
    Remote <- OneSenderRemote
    ForeignBuilt = {x1}
    SignOptional = {}
    Durable = {r1}
    Requirable <- BodyOnly
    MaxBuilds = 2
INVARIANTS
    SignalsStayVerifiable
