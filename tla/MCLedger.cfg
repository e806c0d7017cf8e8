SPECIFICATION Spec
CONSTANTS
    u1 = u1
    u2 = u2
    k1 = k1
    Users = {u1, u2}
    Requests = {r1, r2}
    Keys = {k1}
    Deposit <- MCDeposit
    Withdrawals = {w1, w2}
    Admins = {a1, a2}
    MaxAmount = 2
    MaxRequests = 4
    MaxExpiries = 2
    MaxFills = 2
    None = None
SYMMETRY Symmetry
INVARIANTS
    TypeOK
    OnceWhileKept
    AnsweredIsMade
    
PROPERTY DecidedOnce
CHECK_DEADLOCK FALSE
