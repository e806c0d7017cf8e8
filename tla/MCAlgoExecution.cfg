SPECIFICATION FairSpec
CONSTANTS
    c1 = c1
    c2 = c2
    None = None
    Callers <- MCCallers
    Quantities <- MCQuantities
    Visible <- MCVisible
    Slices <- MCSlices
    Windows <- MCWindows
    Weights <- MCWeights
    Plans <- MCPlans
    Capacity = 1
    ChildCapacity = 1
    MaxOrders = 2
    MaxTime = 1

    
PROPERTIES
    CancelHolds
    CallsReturn
    EveryChildTried
