SPECIFICATION Spec
CONSTANTS
    Files = {f1, f2}
    Secrets = {s1}
    Scanners = {p1}
    NoCache = NoCache
PROPERTY FixedIsGone
