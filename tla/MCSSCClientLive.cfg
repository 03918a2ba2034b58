\* Liveness, with a speaker that may never finish an answer, pauses as long as it
\* likes and never stops sending unusable lines: only the bounds of the drain and
\* of the read help.  What the drain misses is recognised by its id alone.
SPECIFICATION FairSpec
CONSTANTS
    a = a
    b = b
    c = c
    p = p
    Requests = {a, c}
    OscMethods = {}
    Tokens <- Short
    MaxTokens = 29
    XidTokens = 4
    PathOf <- OnePath
    Closer = Closer
    NoCaller = NoCaller
    LineKinds = {"value", "null", "part"}
    EchoesXid = TRUE
    Prompt = FALSE
    Chatty = TRUE
    MaxAnswer = 2
    MaxLines = 2
    MaxDrain = 2
PROPERTIES
    ServesOneByOne
    EveryCallEnds
CHECK_DEADLOCK FALSE
