\* Controllers that send what they like when they like; the network loses frames.
SPECIFICATION Spec
CONSTANTS
    None = None
    l1 = l1
    l2 = l2
    l3 = l3
    t1 = t1
    t2 = t2
    c1 = c1
    c2 = c2
    Entity = {l1, l2, l3, t1}
    Controller = {c1, c2}
    Pairs <- OneTalker
    MaxListeners = 2
    MaxCommands <- TwoAndOne
    MaxAcquires = 1
    Lossy = TRUE
SYMMETRY Interchangeable
INVARIANTS
    TasksFollow
    ListedOnce
CHECK_DEADLOCK FALSE
