CONSTANTS
    u1 = u1
    u2 = u2
    Users <- MCUsers
    Sub = 2
    Window = 10
    Horizon = 25
    DST = FALSE
    MaxStepBack = 2
    NoRow = NoRow
    NoReport = NoReport

SPECIFICATION Spec

INVARIANT TypeOK
PROPERTY StatusWithinGrace
