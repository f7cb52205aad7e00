SPECIFICATION Spec
CONSTANTS
    Files = {f1, f2}
    Secrets = {s1}
    Scanners = {p1, p2}
    NoCache = NoCache
SYMMETRY Symmetry
INVARIANTS
    IInv
    CacheIsOpen
PROPERTIES
    FixedHasCause
    CleanExit
    CountedInTurn
