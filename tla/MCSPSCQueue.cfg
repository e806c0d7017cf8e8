SPECIFICATION FairSpec
CONSTANTS
    Items = {i1, i2}
    Capacity = 4
    None = None
INVARIANTS
    NoRace
PROPERTIES
    KeepsPromise
    KeepsAccepting
