SPECIFICATION Spec
CONSTANTS
    x1 = x1
    x2 = x2
    r1 = r1
    a1 = a1
    a2 = a2
    b1 = b1
    b2 = b2
    None = None
    Party = {a1, a2, b1, b2}
    Sending <- TwoSenders
    Receiving <- OneReceiver
    Local <- TwoPartiesLocal
    Remote <- TwoPartiesRemote
    ForeignBuilt = {}
    SignOptional = {r1}
    Durable = {r1}
    Requirable <- NothingRequired
    MaxBuilds = 1
INVARIANTS
    TypeOK
    RejectedMeansRefused
    AcceptedNamesItsSender
    SignalsStayVerifiable
