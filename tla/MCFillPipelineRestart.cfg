SPECIFICATION Spec
CONSTANTS
    u1 = u1
    u2 = u2
    o1 = o1
    o2 = o2
    o3 = o3
    o4 = o4
    Replicas = {r1, r2}
    Users = {u1, u2}
    Orders = {o1, o2, o3, o4}
    Owner <- MCOwner
    Quantity <- MCQuantity
    Reserved = 1
    MaxFills = 2
    MaxRestarts = 1
    None = None
PROPERTY NoFillMistaken
