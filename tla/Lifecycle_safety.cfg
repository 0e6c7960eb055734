\* Two commands, two media threads, the WebSocket threads and the hangup, with lock failures.
SPECIFICATION Spec
CONSTANTS
    Api = {a1, a2}
    Reader = reader
    Writer = writer
    Core = core
    Nobody = nobody
    MaxStreams = 3
    LockMayFail = TRUE
SYMMETRY Symmetry
INVARIANTS TypeOK NoUseAfterFree StreamReachable OneWebSocket
