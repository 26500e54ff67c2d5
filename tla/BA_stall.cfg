\* A faulty validator that goes silent after helping nodes out of an epoch.
CONSTANTS
    Validators = {1, 2, 3, 4}
    Observers = {}
    Faulty = {4}
    Settings <- DivideOnly
    max_future_epochs = 2
    None = None
SPECIFICATION Spec
INVARIANT NoStall
CHECK_DEADLOCK FALSE
