\* One node among arbitrary peers, and a network with a faulty validator.
CONSTANTS
    Validators = {1, 2, 3, 4}
    Observers = {}
    Faulty = {4}
    Settings <- AllSettings
    max_future_epochs = 2
    None = None
SPECIFICATION Spec
INVARIANTS NoThresholdSkipped Settled EarlyCounts CoinShareSent Agreement Validity NoFalseAccusation
CHECK_DEADLOCK FALSE
