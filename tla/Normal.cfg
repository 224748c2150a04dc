CONSTANTS
    Entry <- MCEntry
    Char <- MCChar
    Space <- MCSpace
    Blank = 0
    Lower <- MCLower
    TrigramHash <- MCTrigramHash
    Bits = 6
    Legacy <- MCLegacy
    WrapperHosts <- MCWrapperHosts
    KnownHttpsHosts <- MCKnownHttpsHosts
    WrapperParams <- MCWrapperParams
    TrackingParams <- MCTrackingParams
    Html <- MCHtml
    StripTags <- MCStripTags
    FutureTolerance = 2
    MaxSentences = 2
    MaxChars = 10
    Start = 6
    MaxTime = 1
    MaxEntries = 2
SPECIFICATION Spec
CHECK_DEADLOCK FALSE
INVARIANTS RowsArePages HeadlinesMatch RowBounded
PROPERTIES DatesSettled
