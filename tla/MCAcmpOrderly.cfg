\* Controllers that take turns; no loss; room for every listener.
SPECIFICATION OrderlyFairSpec
CONSTANTS
    None = None
    l1 = l1
    l2 = l2
    l3 = l3
    t1 = t1
    t2 = t2
    c1 = c1
    c2 = c2
    Entity = {l1, l2, t1, t2}
    Controller = {c1, c2}
    Pairs <- AllPairs
    MaxListeners = 2
    MaxCommands <- TwoEach
    MaxAcquires = 0
    Lossy = FALSE
INVARIANTS
    Agreement
    ReservesOnlyItsStream
PROPERTIES
    ManagesConnections
    Answered
CHECK_DEADLOCK FALSE
