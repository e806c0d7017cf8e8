SPECIFICATION Spec
CONSTANTS
    a = a
    b = b
    m1 = m1
    m2 = m2
    Orders = {a, b}
    Markets = {m1, m2}
    MarketOf <- MCMarketOf
    MaxBooks = 1
    MaxNumber = 7
    MaxFrames = 4
    MaxStarts = 3
PROPERTY BooksRebuilt
