\* Five presses of the two buttons at six moments: a press at the same moment is a
\* double click, three moments later the window is closed.  Loads of the store
\* take any time, and backups are made meanwhile.
SPECIFICATION Spec
CONSTANTS
    OldBackups = {"own", "local", "none"}
    MinGap = 1
    Window = 2
    MaxTime = 5
    MaxPresses = 5
    MaxBackups = 2
INVARIANTS
    TypeOK
    OneActionPerWarning
PROPERTIES
    RestoresWhatWasShown
    NothingOldIsRestored
CHECK_DEADLOCK FALSE
