SPECIFICATION Spec
CONSTANTS
    None = None
    Certificate <- AllCertificates
    Cases <- AllCases
INVARIANTS
    ResolvedIsTrusted
    RefusedHasNoChain
    PoliciesKeepApart
