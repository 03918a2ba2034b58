\* Liveness, on a smaller instance without symmetry.  Three stamps, so that a path
\* can change again after a write was confirmed (the older value is then laid over
\* the newer one a cycle has read) and a reset can follow a write; two failures, so
\* that the cycle that has to make up for a lost write or a failed cycle fails too.
SPECIFICATION FairSpec
CONSTANTS
    FastPaths = {f1}
    OptionalPaths = {}
    SlowPaths = {s1}
    NoPath = NoPath
    SlowEvery = 2
    MaxStamp = 3
    MaxFaults = 2
PROPERTIES
    EventuallyAgrees
