\* Safety: one fast path and two slow ones, so that a cycle can have read one
\* slow path and not yet the other when a write, a reset or a failure lands.
SPECIFICATION Spec
CONSTANTS
    FastPaths = {f1}
    OptionalPaths = {}
    SlowPaths = {s1, s2}
    NoPath = NoPath
    SlowEvery = 2
    MaxStamp = 3
    MaxFaults = 1
SYMMETRY SlowSymmetry
INVARIANTS
    TypeOK
    CacheAfterReset
    ConfirmedKept
    RereadStaysDue
PROPERTIES
    ShowsTheSpeaker
    SlowValueStaysKnown
