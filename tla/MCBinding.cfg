SPECIFICATION Spec
CONSTANTS
    None = None
    Elements <- AllElements
    Accepted <- AcceptedMessages
    Refused <- RefusedMessages
INVARIANTS
    SignedIsSent
    ReceiptNamesWhatWasSigned
    SignalIsReadable
    ErrorSurvives
