\* __init__.py:252-255: the identity is checked before the first poll, so nothing
\* of a stranger's state is ever published.  Here the speaker leaves and another
\* one takes its address while the entry is running.
SPECIFICATION Spec
CONSTANTS
    a1 = a1
    a2 = a2
    a3 = a3
    own = own
    other = other
    Addresses = {a1, a2}
    Home = a1
    Devices = {own, other}
    Own = own
    Unidentified = {}
    NoAddress = NoAddress
    NoDevice = NoDevice
    NoSerial = NoSerial
    MaxEvents = 2
    MaxFaults = 0
INVARIANTS
    NothingOfAStranger
CHECK_DEADLOCK FALSE
