\* Does the residue of a dropped connection stay off the next one?
SPECIFICATION Spec
CONSTANTS
    FrameLen = 1
    RtpPackets = {2}
    OutputSizes = {1, 3}
    MaxPending = 2
    MaxSamples = 4
    MaxConns = 2
    MaxCommands = 1
CHECK_DEADLOCK FALSE
INVARIANTS ResidueStaysOnItsConnection
