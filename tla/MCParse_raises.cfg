SPECIFICATION Spec
CONSTANTS
    a1 = a1
    a2 = a2
    None = None
    Attachment = {a1, a2}
    Messages <- FaultyOrPackaged
    Policies <- Strictest
INVARIANTS
    AnswersRatherThanRaises
