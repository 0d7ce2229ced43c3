SPECIFICATION FairSpec
CONSTANTS
    Thread = {t1, t2, t3}
    Error = {e1, ""}
    None = None
INVARIANTS
    ReportsItsOwnError
PROPERTIES
    WaitingIsServed
CHECK_DEADLOCK FALSE
