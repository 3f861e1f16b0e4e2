\* Controllers that have read what they wanted stop.
\* One external port per direction, a table of two, memory for four AUDIO_MAPs.
SPECIFICATION FairSpec
CONSTANTS
    e1 = e1
    e2 = e2
    e3 = e3
    r1 = r1
    r2 = r2
    o1 = o1
    o2 = o2
    n1 = n1
    a1 = a1
    named = named
    None = None
    Others = {e1, e2, e3}
    Readers = {r1, r2}
    Start <- TheStart
    Owners = {o1, o2}
    Namers = {n1}
    Askers = {a1}
    Rounds <- FiveRounds
    Slots = 2
    IndexRange = 2
    HasInput = TRUE
    ExternalPorts = 1
    DefaultName = "ESP32-P4"
    Wish <- TheWish
    Heap = 4
    Larger = 2
    MaxInFlight = 2
    MaxLosses = 1
    MaxEarly = 1
    MaxFailures = 1
INVARIANTS
    OneOwner
PROPERTIES
    ImplementsDirectory
    Enumerates
    WishGranted

CHECK_DEADLOCK FALSE
