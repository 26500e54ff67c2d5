\* Four nodes, one of them faulty, and an observer.
CONSTANTS
    n1 = n1  n2 = n2  n3 = n3  n4 = n4  o1 = o1  q = q
    PubKeys = {n1, n2, n3, n4}
    Observers = {o1}
    Faulty = {n4}
    Finished = {n1, n2}
    FaultyParts <- Parts
    FaultyValues <- Values
    None = None
    Malformed = Malformed
SPECIFICATION FairSpec
INVARIANTS TypeOK SameKey SharesMatch NoFalseAccusation
PROPERTY Completes
CHECK_DEADLOCK FALSE
