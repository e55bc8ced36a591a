CONSTANTS
    b1 = b1
    b2 = b2
    b3 = b3
    NoUri = NoUri
    Uris <- MCUris
    Metrics <- MCMetrics
    Category = "sensor"

SPECIFICATION Spec

INVARIANTS
    TypeOK
    CurrentInRange
    BestIsFirstMaximal
    ScoreMatchesMetrics
    AddRemoveRoundTrip

PROPERTIES
    RemoveKeepsCurrent
