SPECIFICATION BuildSpec
CONSTANTS
    a1 = a1
    a2 = a2
    bracketed = bracketed
    None = None
    NoContentId = NoContentId
    Attachment = {a1, a2, bracketed}
    ContentId = {a1, a2, bracketed}
    Unbracket <- StripBrackets
    Messages = {}
    Policies <- BuildPolicies
    Package <- AllPackages
    Nesting <- Depth
    InitialMaps <- Maps
    Orders <- AllOrders
INVARIANTS
    BuiltIsAcceptedByAddressee
    UnpacksInDocumentOrder
    DocumentTypeIsDeclared
    RecordedAttachmentIsRead
