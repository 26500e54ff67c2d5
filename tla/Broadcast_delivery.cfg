\* A correct proposer and a faulty peer with another tree, on a network that
\* delivers.
CONSTANTS
    v1 = v1  v2 = v2  v3 = v3  v4 = v4  r1 = r1  r2 = r2
    Validators = {v1, v2, v3, v4}
    Faulty = {v4}
    None = None
    Observers = {}
    Proposer = v1
    Roots = {r1, r2}
    HonestRoots = {r1}
    Rebuilds <- AllRebuild
    FaultyEchos = {r2}
    FaultyReadys = {r1, r2}
SPECIFICATION FairSpec
INVARIANTS TypeOK Validity NoFalseAccusation
PROPERTY ProposerDelivers
CHECK_DEADLOCK FALSE
