CONSTANTS
    u1 = u1
    u2 = u2
    Users <- MCUsers
    Sub = 2
    Window = 10
    Horizon = 25
    DST = TRUE
    MaxStepBack = 0
    NoRow = NoRow
    NoReport = NoReport

SPECIFICATION Spec

PROPERTY StatusWithinGrace
