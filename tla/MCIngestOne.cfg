SPECIFICATION Spec
CONSTANTS
    Hashes = {1}
    Requests = {r1, r2, r3}
    None = None
    Batches <- OneHashBatches
    Seeds <- OneHashSeeds
SYMMETRY Symmetry
INVARIANTS
    IInv
PROPERTIES
    ResponseCountsCommit
    OnlyActiveIsFixed
    RotationKept
    LastEventDecides
