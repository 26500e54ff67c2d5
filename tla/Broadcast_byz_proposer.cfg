\* The proposer is the faulty validator, and sends two different trees.
CONSTANTS
    v1 = v1  v2 = v2  v3 = v3  v4 = v4  r1 = r1  r2 = r2
    Validators = {v1, v2, v3, v4}
    Faulty = {v4}
    None = None
    Observers = {}
    Proposer = v4
    Roots = {r1, r2}
    HonestRoots = {r1}
    Rebuilds <- OneLeafOff
    FaultyEchos = {r1, r2}
    FaultyReadys = {r1, r2}
SPECIFICATION Spec
INVARIANTS Agreement NoMissedOutput ReadyMeansDecodable
SYMMETRY Symm
CHECK_DEADLOCK FALSE
