SPECIFICATION Spec
CONSTANTS
    Items = {i1}
    Capacity = 4
    None = None
PROPERTY TakesCapacity
