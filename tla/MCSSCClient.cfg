\* A speaker that finishes an answer within the drain's window; the first two
\* requests carry an id, the third does not.
SPECIFICATION Spec
CONSTANTS
    a = a
    b = b
    c = c
    p = p
    Requests = {a, b, c}
    OscMethods = {}
    Tokens <- AtTheLimit
    MaxTokens = 29
    XidTokens = 4
    PathOf <- OnePath
    Closer = Closer
    NoCaller = NoCaller
    LineKinds = {"value", "null", "part", "error", "huge"}
    EchoesXid = FALSE
    Prompt = TRUE
    Chatty = TRUE
    MaxAnswer = 2
    MaxLines = 2
    MaxDrain = 2
INVARIANTS
    TypeOK
    NoForeignAnswer
    LeftoversAreCovered
    NothingLeftOfTheFailed
    ClosedForGood
    NeverTooLong
CHECK_DEADLOCK FALSE
