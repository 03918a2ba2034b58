\* A discovery on three kinds of speakers: one whose tree just fits the bounds, one
\* that is too deep and one that has a node too many.
SPECIFICATION FairSpec
CONSTANTS
    audio = audio
    out = out
    level = level
    mute = mute
    device = device
    Keys <- SomeKeys
    Trees <- SomeTrees
    KnownPaths <- SomeKnown
    MaxNodes = 6
    MaxDepth = 3
    MaxPresses = 2
    MaxFaults = 2
INVARIANTS
    TypeOK
    WithinBounds
    LimitsOfTheirLeaf
    NothingLeftOut
PROPERTIES
    KeepsTheShelf
    RunEnds
CHECK_DEADLOCK FALSE
