\* README.md:45-47: a save command after every change.  An EQ reset whose second
\* write is refused, or a restore that runs out of time, changes without saving.
SPECIFICATION Spec
CONSTANTS
    mute = mute
    gain = gain
    boost = boost
    level = level
    controlMode = controlMode
    Mutes = {mute}
    Gain = gain
    Boost = boost
    Others = {}
    ControlMode = controlMode
    ReadOrder <- EqReadOrder
    AllowlistOrder <- EqAllowlist
    NeedsSave = TRUE
    MaxPresses = 1
    MaxEvents = 0
    MaxFaults = 1
INVARIANTS
    KeptAfterEveryAction
CHECK_DEADLOCK FALSE
