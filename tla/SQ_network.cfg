\* Three validators, one of which is removed and added again.
CONSTANTS
    a = a
    b = b
    c = c
    Validators = {a, b, c}
    Observers = {}
    Faulty = {}
    Timeline <- RemoveAndAdd
    max_future_epochs = 0
    None = None
    All = All
SYMMETRY Alike
SPECIFICATION Spec
INVARIANTS NeverPremature NothingLost ProgressButForTheRemoved
CHECK_DEADLOCK FALSE
