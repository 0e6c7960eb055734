\* STREAM_NO_RECONNECT: the connection fails or closes for good.
SPECIFICATION FairSpec
CONSTANTS
    MaxChunk = 2
    MaxQueue = 4
    FrameLen = 1
    BufCap = 3
    Reconnect = FALSE
    RawAudioMode = TRUE
    Lengths = {0, 3}
    MaxArrivals = 3
    MaxBargeIns = 1
INVARIANTS TerminalPlayedOut
PROPERTIES TerminalStreamStops SpeechStopFires BacklogDrains
