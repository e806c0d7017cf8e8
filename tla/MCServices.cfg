\* Each of the services by itself: markets, the rate limiter, the circuit breaker,
\* order intake, the wallet, the trading engine's tasks, risk and positions.
SPECIFICATION Spec

CONSTANTS
    Markets = {m1}
    Traders = {u1, u2}
    MkRequests = {r1, r2}
    MkMaxRequests = 4
    MkMaxNet = 1
    Clients = {c1}
    Limit = 2
    Period = 2
    RlMaxTime = 6
    Callers = {p1, p2, p3}
    Threshold = 2
    Timeouts = {0, 30}
    CbMaxCount = 4
    OrderKeys = {k1, k2}
    OiRequests = {h1, h2}
    OiMaxOrders = 3
    OiMaxExpiries = 1
    TxRequests = {t1, t2, t3}
    Managed = {t1, t2}
    MaxRetries = 2
    NoTx = NoTx
    Backlog = 2
    RkUsers = {u1, u2}
    RkMarkets = {m1, m2}
    Prices = {6, 12}
    Quantities = {1, 2}
    MaxPosition = 20
    MaxExposure = 30
    MaxDailyLoss = 12
    MaxDrawdown = 20
    RkMaxFills = 2
    PmUsers = {u1}
    PmMarkets = {m1, m2}
    LotPrices = {1, 2}
    LotSizes = {1, 2}
    PmMaxFills = 4

INVARIANTS
    TypeOK
    
    ClosedBelowThreshold
    ExecutedOnce
    LossStopsTrading
    LotsCover
    

PROPERTIES
    
    LoopsEnd

\* The bounds of the parts stop them.
CHECK_DEADLOCK FALSE
