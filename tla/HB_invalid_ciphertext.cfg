\* A faulty proposer's contribution is accepted and cannot be decrypted.
CONSTANTS
    v1 = v1  v2 = v2  v3 = v3  v4 = v4
    Validators = {v1, v2, v3, v4}
    Observers = {}
    Faulty = {v4}
    Runners = {v1}
    Agreements <- Undecryptable
    FaultyShares = {}
    encryption_schedule <- EverySecond
    Handling = {"Incremental", "AllAtEnd"}
    max_future_epochs = 1
    LastEpoch = 1
    None = None
SPECIFICATION Spec
INVARIANT NoStall
CHECK_DEADLOCK FALSE
