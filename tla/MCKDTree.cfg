CONSTANTS
    Point <- MCPoint
    Query <- MCQuery
    MaxPoints = 5
    leafMaxSize = 2
    NearestCount = 2
    NoQuery = NoQuery
    MaxDistance = MaxDistance
SPECIFICATION FairKDSpec
INVARIANTS
    TreeDividesPoints
    NearestFound
PROPERTIES
    CallsReturn
