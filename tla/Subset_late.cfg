\* Two of four proposals are in the set already.
CONSTANTS
    v1 = v1  v2 = v2  v3 = v3  v4 = v4
    Validators = {v1, v2, v3, v4}
    Observers = {}
    Faulty = {v4}
    Finished = {v1, v2}
    None = None
    Late = Late
SPECIFICATION Spec
INVARIANTS SameSet NoEarlyRejection NoStall
PROPERTY DoneIsLast
SYMMETRY Symm
CHECK_DEADLOCK FALSE
