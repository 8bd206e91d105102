SPECIFICATION ListingSpec
CONSTANTS
    Ids = {1, 2, 3, 4}
    PageSizes = {0, 1, 2}
    Repeats = TRUE
INVARIANTS NoneSkipped QuietWalkExact RepetitionsBounded
PROPERTIES WalkEnds
