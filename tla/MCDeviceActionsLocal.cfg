\* README.md:324-325: a backup taken on LOCAL is refused.  The switch is read once,
\* in the middle of the snapshot; here there is a level to read before it.
SPECIFICATION Spec
CONSTANTS
    mute = mute
    gain = gain
    boost = boost
    level = level
    controlMode = controlMode
    Mutes = {mute}
    Gain = gain
    Boost = boost
    Others = {level}
    ControlMode = controlMode
    ReadOrder <- TablesReadOrder
    AllowlistOrder <- TablesAllowlist
    NeedsSave = TRUE
    MaxPresses = 1
    MaxEvents = 2
    MaxFaults = 0
INVARIANTS
    NoLocalValueKept
CHECK_DEADLOCK FALSE
