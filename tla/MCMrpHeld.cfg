SPECIFICATION Spec
CONSTANTS
    talker = talker
    listener = listener
    Attribute <- Attributes2
    Own <- Requested
    Echoed <- Echo2
    LeaveAllTypes <- Types2
    HasPeriodic = TRUE
INVARIANTS
    RegistrationHeld
