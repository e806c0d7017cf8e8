SPECIFICATION Spec
CONSTANTS
    a = a
    b = b
    x = x
    y = y
    OrderIds = {a, b}
    Slots = {s1, s2, s3}
    LevelSlots = {l1, l2, l3}
    Buckets = {x, y}
    Hash <- MCHash
    PriceCap = 4
    MaxQuantity = 2
    MaxTickets = 4
    None = None
SYMMETRY Symmetry
INVARIANTS
    TypeOK
    ListsLinked
    IndexSound
    Uncrossed
    BestIsTop
    LevelTotals
    Conserved
    Cancellable
    LevelPoolSuffices
PROPERTY KeepsPromise
