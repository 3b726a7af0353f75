CONSTANTS
    Callers = {c1, c2}
    Handlers = {h1, h2}
    Triggers = {t1, t2}
SPECIFICATION FairManagerSpec
INVARIANTS
    ManagerInv
PROPERTIES
    ShutdownReturns
    SignalShutsDown
CHECK_DEADLOCK FALSE
