\* One entry and its speaker, three addresses, and a stranger without a serial.
\* Three events cover: the speaker leaves, a stranger takes its address, and a
\* third move, reconfigure, unload or cancelled setup.  The system may stop: an
\* entry whose platform failed waits for its user.
SPECIFICATION FairSpec
CONSTANTS
    a1 = a1
    a2 = a2
    a3 = a3
    own = own
    other = other
    Addresses = {a1, a2, a3}
    Home = a1
    Devices = {own, other}
    Own = own
    Unidentified = {other}
    NoAddress = NoAddress
    NoDevice = NoDevice
    NoSerial = NoSerial
    MaxEvents = 3
    MaxFaults = 1
INVARIANTS
    TypeOK
    OnlyItsSpeaker
    NoConnectionLeft
PROPERTIES
    RepointedByItsSpeaker
    RetriesEnd
CHECK_DEADLOCK FALSE
