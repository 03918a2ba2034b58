\* Backup, restore, EQ reset and factory reset of a speaker that has to be told
\* to save, with two of them (or an entity write) running into each other.
SPECIFICATION Spec
CONSTANTS
    mute = mute
    gain = gain
    boost = boost
    level = level
    controlMode = controlMode
    Mutes = {mute}
    Gain = gain
    Boost = boost
    Others = {}
    ControlMode = controlMode
    ReadOrder <- EqReadOrder
    AllowlistOrder <- EqAllowlist
    NeedsSave = TRUE
    MaxPresses = 4
    MaxEvents = 1
    MaxFaults = 1
INVARIANTS
    TypeOK
    OneStatePerBackup
    MutedBeforeLoud
    KeptUnlessCutShort
PROPERTIES
    KeepsTheShelf
CHECK_DEADLOCK FALSE
