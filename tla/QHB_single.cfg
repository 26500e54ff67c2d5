CONSTANTS
    Nodes = {1, 2, 3, 4}
    Faulty = {4}
    Scenarios <- Single
    FaultyContribs <- Contribs
    LastEpoch <- UpToEpoch
    None = None
    Malformed = Malformed
SPECIFICATION Spec
INVARIANTS QueueIsPending
CHECK_DEADLOCK FALSE
