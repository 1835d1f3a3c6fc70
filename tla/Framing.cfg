SPECIFICATION Spec
CONSTANTS
    Base = 3
    HeadLen = 2
    FirstMax = 2
    MaxLen = 4
    Transports = {"tcp", "ws"}
    StreamMax = 9
INVARIANTS DecodeExact WsDecodeExact
\* The stream ends, or the socket is dead.
CHECK_DEADLOCK FALSE
