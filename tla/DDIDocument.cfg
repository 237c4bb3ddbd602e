CONSTANTS
    Null = Null
    Malformed = Malformed
    Root = "root"
    Ids <- MCIds
    Fragments <- MCFragments
SPECIFICATION Spec
CHECK_DEADLOCK FALSE
INVARIANTS TypeOK OnlyNeighboursAreMissed NothingIsLost
PROPERTIES BuildingEnds
