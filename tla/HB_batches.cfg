\* One node among two correct peers and a faulty one, three epochs.
CONSTANTS
    v1 = v1  v2 = v2  v3 = v3  v4 = v4
    Validators = {v1, v2, v3, v4}
    Observers = {}
    Faulty = {v4}
    Runners = {v1}
    Agreements <- Deserializable
    FaultyShares <- SomeShares
    encryption_schedule <- EverySecond
    Handling = {"Incremental", "AllAtEnd"}
    max_future_epochs = 1
    LastEpoch = 2
    None = None
SPECIFICATION Spec
INVARIANTS NoFalseAccusation LeavesShares NoStall
PROPERTY ImplementsAtomicBroadcast
CHECK_DEADLOCK FALSE
