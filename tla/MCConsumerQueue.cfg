CONSTANTS
    MaxMsg = 2
    MaxOther = 2
    Variants = {"for", "until", "event", "event_value"}

SPECIFICATION Spec

INVARIANTS
    TypeOK
PROPERTIES
    ForCallReturns
    ImplementsMessageChannel
