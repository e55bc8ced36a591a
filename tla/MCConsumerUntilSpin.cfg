CONSTANTS
    MaxMsg = 2
    MaxOther = 2
    Variants = {"until"}

SPECIFICATION Spec

PROPERTIES
    UntilCallReturns
