\* One packet a message, sent directly, or two; frames of none, one or three samples, one reconnection, two commands.
SPECIFICATION Spec
CONSTANTS
    FrameLen = 1
    RtpPackets = {1, 2}
    OutputSizes = {0, 1, 3}
    MaxPending = 2
    MaxSamples = 4
    MaxConns = 2
    MaxCommands = 2
CHECK_DEADLOCK FALSE
INVARIANTS TypeOK SentInOrder NothingLostWhileConnected FullMessages
PROPERTIES ResidueGoesFirst ResidueDiscarded
