SPECIFICATION Spec
CONSTANTS
    id1 = id1
    id2 = id2
    padded = padded
    blank = blank
    None = None
    Party = {a1, b1}
    Text = {id1, id2, padded, blank}
    Id = {id1, id2}
    Strip <- StripPadding
    ForeignSignals <- AllSignals
INVARIANTS
    VerifiedIsTrustworthy
    AnswerSettlesItsExchange
    CorrelatedIsTaken
