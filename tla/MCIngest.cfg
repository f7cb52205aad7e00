SPECIFICATION FairSpec
CONSTANTS
    Hashes = {1, 2}
    Requests = {r1, r2}
    None = None
    Batches <- TwoHashBatches
    Seeds <- TwoHashSeeds
PROPERTIES
    ConflictHasCause
    EventuallyAnswered
