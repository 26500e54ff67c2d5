\* Four validators, one of them faulty.
CONSTANTS
    v1 = v1  v2 = v2  v3 = v3  v4 = v4
    Validators = {v1, v2, v3, v4}
    Observers = {}
    Faulty = {v4}
    FaultyMsgs <- Partisan
    None = None
SPECIFICATION Spec
INVARIANTS SingletonsAgree Justified EveryoneOutputs
SYMMETRY Symm
CHECK_DEADLOCK FALSE
