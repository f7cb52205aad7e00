SPECIFICATION FairSpec
CONSTANTS
    Hashes = {1}
    Requests = {r1, r2}
    None = None
    Batches <- OneHashBatches
    Seeds <- OneHashSeeds
INVARIANT UpsertNeverConflicts
