CONSTANTS
    Nodes = {1, 2, 3, 4}
    Faulty = {4}
    Scenarios <- Changes
    FaultyContribs <- Contribs
    LastEpoch <- UpToEpoch
    None = None
    Malformed = Malformed
SPECIFICATION Spec
INVARIANTS TypeOK BatchesAgree ChangesVotedFor VotesRevoked NoFalseAccusation QueueIsPending NoStall
CHECK_DEADLOCK FALSE
