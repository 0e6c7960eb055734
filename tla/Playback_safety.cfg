\* A server that may reconnect, text and raw messages, two barge-ins.
SPECIFICATION Spec
CONSTANTS
    MaxChunk = 2
    MaxQueue = 4
    FrameLen = 2
    BufCap = 5
    Reconnect = TRUE
    RawAudioMode = TRUE
    Lengths = {0, 2, 3}
    MaxArrivals = 6
    MaxBargeIns = 2
INVARIANTS TypeOK QueueExact PlayoutOrdered NoLossWithoutBargeIn BargeInFlushes
PROPERTIES ImplementsBacklog
