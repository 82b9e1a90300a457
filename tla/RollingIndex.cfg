CONSTANTS
    Size = 5
    Item = {h1, h2}
    MaxIndex = 8
SPECIFICATION CacheSpec
INVARIANT GetIsComplete
PROPERTY ImplementsLog
