SPECIFICATION PkiSpec
CONSTANTS
    Callers = {p1, p2, p3}
    Nobody = Nobody
    MaxCrashes = 2
    MaxExpiries = 1
INVARIANTS NeverPartial OneSet
PROPERTIES ReturnsValid FreshKept CallsReturn
