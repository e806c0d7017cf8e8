\* Does every call of the profit-and-loss tracker return?
SPECIFICATION PnlSpec

CONSTANTS
    PnlCallers = {a, b}
    PnlMaxCalls = 2

PROPERTIES
    CallsEnd

CHECK_DEADLOCK FALSE
