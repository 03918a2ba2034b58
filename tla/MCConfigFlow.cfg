\* Three flows of any kind over a speaker, a device of another vendor and one that
\* is both of another vendor and silent about its serial.  A flow runs once, so the
\* system stops.
SPECIFICATION Spec
CONSTANTS
    f1 = f1
    f2 = f2
    f3 = f3
    speaker = speaker
    second = second
    foreign = foreign
    Flows = {f1, f2, f3}
    Devices = {speaker, second, foreign}
    Unidentified = {foreign}
    OtherVendor = {second, foreign}
    NoFlow = NoFlow
    NoDevice = NoDevice
    MaxRemovals = 1
SYMMETRY FlowSymmetry
INVARIANTS
    TypeOK
    AnchoredOnTheDevice
    CardsAreForNewSpeakers
    EveryNameRemembered
PROPERTIES
    NoEntryReplaced
CHECK_DEADLOCK FALSE
