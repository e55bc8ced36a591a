CONSTANTS
    Chars <- MCChars
    MaxLen = 3

SPECIFICATION Spec

INVARIANTS
    TypeOK
    MatchesPerMqtt
    ToStringRoundTrip
