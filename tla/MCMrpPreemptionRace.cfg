SPECIFICATION Spec
CONSTANTS
    stream = stream
    domain = domain
    Attribute <- Attributes
INVARIANTS
    TransmitOpportunity
