SPECIFICATION ServerSpec
CONSTANTS
    Keys = {k1, k2}
    Requests = {r1, r2, r3, r4}
    MaxRequests = 2
    WindowTicks = 4
    Second = 2
    MaxReal = 6
    MaxBack = 2
    NoKey = NoKey
    Emails = {"ann", "bob", "cat"}
    Tokens = {"t1", "t2", "t3"}
    NoToken = NoToken
    Nobody = Nobody
    Plans <- MCPlans
SYMMETRY Symmetry
INVARIANTS
    IInv
    WindowBound
    UnwelcomeIsRefused
    AdminRemains
PROPERTIES
    RetryAfterIsClose
    Refinement
