SPECIFICATION FairSpec
CONSTANTS
    stream = stream
    domain = domain
    Attribute <- Attributes
INVARIANTS
    IntentKept
    QuietIsHeard
PROPERTIES
    LeaveAllRepairs
