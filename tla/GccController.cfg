SPECIFICATION Spec
CONSTANTS
    MinRate = 5
    MaxRate = 8
    Lag = 1
    Slope = 2
    Spread = 1
    Second = 4
    Gaps = {0, 2}
    Rtts = {1, 3}
    Departures = {4, 24}
    Received = {0, 4, 9}
    WindowSize = 2
    OverusingTime = 10
    EncodeMin = 1
    EncodeMax = 7
INVARIANTS
    GccTypeOK
    OveruseIsSustained
PROPERTY
    RisesWhenCalm
