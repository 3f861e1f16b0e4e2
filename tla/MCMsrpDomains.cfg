\* The stations declare different domains and nothing else.
SPECIFICATION FairSpec
CONSTANTS
    talker = talker
    listener = listener
    s1 = s1
    a1 = a1
    d1 = d1
    d2 = d2
    Station = {talker, listener}
    Microphones = {}
    Stream = {}
    TalkerOf <- NoTalkers
    Address = {a1}
    Domain = {d1, d2}
    DefaultDomain <- OneDomainEach
    MaxRequests = 0
    MaxLeaveAlls = 2
    MaxLosses = 1
    MaxInFlight = 0
INVARIANTS
    QuietIsRegistered
PROPERTIES
    DomainsSpread
CHECK_DEADLOCK FALSE
