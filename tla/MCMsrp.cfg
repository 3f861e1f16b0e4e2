SPECIFICATION Spec
CONSTANTS
    talker = talker
    listener = listener
    s1 = s1
    a1 = a1
    d1 = d1
    d2 = d2
    Station = {talker, listener}
    Microphones = {talker}
    Stream = {s1}
    TalkerOf <- TalkerOfOne
    Address = {a1}
    Domain = {d1}
    DefaultDomain <- SameDomain
    MaxRequests = 3
    MaxLeaveAlls = 1
    MaxLosses = 0
    MaxInFlight = 0
INVARIANTS
    ListsFollow
    AttachmentKept
    QuietIsKnown
CHECK_DEADLOCK FALSE
