\* Does a mute block caller audio once it has returned?
SPECIFICATION Spec
CONSTANTS
    FrameLen = 1
    RtpPackets = {2}
    OutputSizes = {1, 3}
    MaxPending = 2
    MaxSamples = 4
    MaxConns = 1
    MaxCommands = 1
CHECK_DEADLOCK FALSE
PROPERTIES MuteBlocksCaller
