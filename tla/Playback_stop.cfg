\* StopMeansDrained does not hold: see the findings.
SPECIFICATION FairSpec
CONSTANTS
    MaxChunk = 2
    MaxQueue = 4
    FrameLen = 1
    BufCap = 3
    Reconnect = TRUE
    RawAudioMode = FALSE
    Lengths = {0, 1}
    MaxArrivals = 2
    MaxBargeIns = 1
PROPERTIES StopMeansDrained
